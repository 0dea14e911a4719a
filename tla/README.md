# A verification project for VUMA and its womb kernel

VUMA is a compiler, written in Rust, for a language of typed memory states;
`womb/` is the library and the operating system kernel written in that
language.  This project models the parts of the system in which several
processors, tasks, interrupt handlers or processes share state, because those
are the parts whose self-tests (single threaded, one call after the other)
reach the least: the kernel's locks, run queue, process table, wait queues,
signals and page allocator; the channels, capabilities, supervisor and circuit
breaker of the IPC runtime.  Of the compiler proper it models the register
allocator with the spill code it leads to, and the graph analyses that
optimisation and verification rest on, which are sequential but hard to test
on enough inputs.

The compiler has some 354000 lines of Rust.  The modules here stand for about
4300 of them, little more than one percent, and for 1600 lines of the kernel;
the rest is listed in section 7.  What is covered
was chosen by how much can go wrong in it, not by its size.

## 1. Inventory

| part | state | operations | what is hard about it |
|---|---|---|---|
| spinlock (`womb/kernel/sync/spinlock.vuma`) | lock word, holder, depth, saved interrupt flag | init, acquire, release | CPUs and interrupt handlers interleave; recursion; interrupt masking |
| mutex (`sync/mutex.vuma`) | lock word, owner, waiter count | init, acquire, release | CAS against release, retry cap, re-acquire by the owner, lost counter updates |
| semaphore (`sync/semaphore.vuma`) | count, waiter count | init, down, up | two nested loops, last unit, overtaking |
| reader-writer lock (`sync/rwlock.vuma`) | one word with two halves, waiter count | two acquires, two releases | stale tests before the CAS, upgrades, carry between the halves |
| scheduler (`proc/scheduler.vuma`) | list through the process table, vruntime, prio, resched flag | enqueue, dequeue, schedule, tick, yield, two system calls | relinking in every position, two switch paths that disagree |
| processes (`proc/task,fork,exit,wait.vuma`) | process table, refcounts | alloc, fork, exit, reap | pid reuse, stale parents, exit code stored in vruntime |
| kernel ipc (`ipc/waitq,pipe,futex,signal,shm.vuma`) | wait queues, byte ring, pending and mask bits | add, wake, read, write, send, deliver | lost wake-ups, a signal re-sent while handled, full and empty ring |
| memory (`mm/pmm,kmalloc,vmm,mmap.vuma`) | free lists, node pool, heap, page tables | alloc, free, map | coalescing, exhaustion of the node pool |
| smp, traps (`smp/`, `trap/`) | per-CPU counts, request bits, interrupt ring | send, handle, push, pop | ring at its limit, request lost or handled twice |
| IPC runtime (`src/codegen/src/ipc.rs`) | capability sets, delegation, workers, supervisor, breaker, hot swap | grant, delegate, revoke, restart, record, swap | revocation along a tree, restart limits, late answers |
| concurrency library (`womb/lib/concurrency`) | handler table with a live count, kernel interest set | add, remove, modify, dispatch, run, stop | callbacks that change the table being dispatched from; holes in the table |
| IPC lowering (`src/codegen/src/ipc_lowering.rs`) | descriptors, handles, registry, counters | the emitted open, close, send, receive, spawn, wait | several processes on one channel, stale polls, handles used after close |
| register allocation (`src/codegen/src/regalloc.rs`, `emit.rs`) | free pools, active intervals, spill slots | expire, take, spill, evict, emit | a register lost or shared; spill code that does not fit the final map |
| graph analyses (`src/scg/src/dominance,loop_detection,liveness.rs`, `src/codegen/src/regalloc,control_flow.rs`) | forest of links, dominators, live sets | number, link, compress; sweep to a fixpoint | in-place updates, orders the theory does not assume, odd graphs |
| VFS, network, console, drivers, system call table | tables, packets | sequential handlers | little that a model checker sees better than a test |
| rest of the compiler (parser, verification engine, other passes, back ends, package manager, language server) | none between calls | pure transformations | size, not interleaving |

`PROJECT.json` lists every part with the reason for those that are not
modelled, and the hazards with the properties that cover them.

## 2. Plan

1. Locks: `Spinlock`; `SleepBase`, `Mutex`, `Semaphore` and their composition
   `SleepLocks`; `RwLock`.  *Done, safety proved.*
2. Run queue: `RunqueueAbs` (what a queue promises), `Scheduler` (the linked
   list) and the refinement between them.  *Done, proved.*
3. Process life cycle, with the tick that shares a field with the exit code.
   *Done; the reaping property proved.*
4. Kernel ipc: wait queue refined to a sequence, signals with handlers that run
   in between.  *Done, both proved.*  Pipe ring, futex: open.
5. Memory: the buddy allocator and its node pool.  *Done, proved.*  The heap
   above it: open.
6. IPC: channels between processes, capabilities, supervision and breaker.
   *Done; the safety of the channels, revocation and the restart budget
   proved.*  Hot swap: open.
7. Compiler: register allocation and its spill code, liveness *(done, proved)*;
   dominators, loops *(done, model-checked)*.  Copy coalescing and the loop nesting tree: open.
8. Event loop of the concurrency library, with callbacks that re-enter it: open.

## 3. Modules

`Spinlock` - every CPU has a task context and a handler context, `Contexts`;
a context is what the code calls `task_idx`.  Task and handler are given
different indices: were they the same, the recursion test would let the handler
in, but by `NoSelfDeadlock` it never runs above a task that has the lock.  `pc` is the
place in `spinlock_acquire` (`mask`, `save`, `spin`, `won`) or
`spinlock_release` (`unlock`, `restore`).  The interrupt flag of each CPU is
`irq`; `Interrupt` and `ReturnFromInterrupt` are the processor's, taken from
the meaning `irq_disable` and `irq_restore` have in the code.  One handler runs
at a time on a CPU: a second one on top of it is left out, even where a wrong
`irq_state` has enabled interrupts inside the first.

`SleepBase` - the callers of the sleeping locks: program counter, loaded value,
retry counter.  A load, a CAS and a store are different steps.
`waitq_count`, an ordinary field, is read and written in different steps too.
`Mutex` and `Semaphore` each extend it with their own variables and actions
(`m_`, `s_`); `SleepLocks` composes them: a task may call any operation of
either whenever it is outside a call, whatever it holds.

`RwLock` - `word` is readers + `Half` * writer.  The code keeps no record of
the holders; the model does (`r_own`, `w_own`), assumes that callers pair their
calls and hold at most one read hold each, and lets a reader or a writer ask
for a hold it can only get a refusal for.

`RunqueueAbs`, `Scheduler` - the first is a sequence of waiting tasks and one
running task.  The second is the code: `Enqueue`, `Dequeue`, `Tick` are
functions on the pair of structures that the code's functions modify, and the
actions of the CPU apply them.  No code calls these functions yet, apart from the
self-test; `TimerIrq` follows the protocol in the comments of `sched_tick` and
`sched_clear_resched` (tick, test, switch or ignore, clear), and `Stop`, a task
that blocks or exits, is external.  `SysSchedYield` is only in `SyscallSpec`.
The refinement maps `line` to the walk of the list and `running` to `current`.

`Process` - one table; a slot number stands for the task in it.  `Fork`, `Exit`
and `Reap` are whole system calls (they take no lock and are taken to run with
interrupts masked), and `BeginWait`, `Reap`, `NoChild` are the polling loop
around `sys_waitpid`.  A task that has called `sys_exit` stays on the CPU
(`dying`) until `Switch`, and `Tick` may charge it meanwhile.  `mother` and the
exited code are history variables.

`WaitQueueAbs`, `WaitQueue` - a sequence of waiters, and the four words the
code keeps instead, for at most three waiters.  The mapping reads the line off
head, next and tail.

`Signals` - one task's table.  The handler is a step of its own, between
`SignalDeliver` or `PassCalls` and `HandlerReturns`; sends, masks and installs
happen in between.

`Pmm` - `lists` has the free blocks per order and `count`, `recycled` the nodes
taken from and returned to the pool; `out` is what callers hold.  Each action is
a whole call with its splits or merges.

`KernelParts` puts these four side by side; they share no state, and a
behaviour exercises one.

`Pipes` - the part of Linux the emitted code uses: pipes, descriptors, close,
poll, `O_NONBLOCK`, clone, wait.  External.  `IpcChannel` - every step is one
system call of the emitted code with the private work up to the next.  A handle
is the four words the code stores; the child's swap exchanges them for the
channels in the registry it inherits.

`Capabilities` - `tokens` in the order they were made, `revoked`, and the real
parent of each as history, which the code does not have: it recognises children
by source process and depth.  `Supervision` - one worker, its `WorkerState`,
the breaker, and callers between `can_proceed` and the record of the outcome.
`IpcRuntime` puts the two side by side.

`LinearScan` - one step per live interval: expire, then take a free register,
spill, or evict.  The order of the pools is left open.  `RegallocEmit` computes
the intervals of a straight-line function, lets `LinearScan` allocate them and
runs the emitted code on a register file and a frame; a value is the number of
the instruction that computed it.  An instruction is known by what its code does
besides reading its operands and writing its destination: the scratch registers
it loads with constants first (`temps`, X9 and X10, which the allocator hands out
too), the quotient a remainder leaves in its destination before it reads its
operands again, and the word below the frame pointer, which is spill slot 0,
through which a conversion to float goes.  `Return` is one move of the terminator,
in the order of the return values; nothing is reloaded there, and a ninth value is
dropped.  `Modelled` says which functions: one block in which every use has an
earlier definition (parameters, which have none, are left out).

`FlowGraph` - a graph, the depth-first search, and the reference notions
(reachability, dominance as "every path passes through").  `Dominance` - the
Lengauer-Tarjan algorithm of `dominance.rs`, one step per numbered and per
processed vertex, in both directions of the edges, and the queries on its
tree.  `Liveness` - the sweeps that make `live_in` and `live_out`, in place, one
step per sweep.  The nodes are visited in the order of their numbers; that a
graph may be numbered in any way stands for the order of `node_ids`.
`Dataflow` - the three loop detectors, each with its own dominators, one step per
sweep too.  `CompilerParts` runs one of these, or the
register allocator, on one input.

`MC*` instantiate these for TLC; `*Proofs` hold the theorems.

## 4. Runs

| run | instance | result |
|---|---|---|
| `spinlock` | 2 CPUs, nesting 2 | exclusion, exact depth, no handler waiting for its own task, spinning leads to somebody winning |
| `spinlock_irq` | 2 CPUs, nesting 1 | **violated**: `irq_state` is overwritten by a waiter |
| `sleep_locks` | 2 tasks, cap 2, one unit | exclusion, ownership, conservation; every mutex call returns; a semaphore call that does not is overtaken for ever |
| `rwlock` | 3 tasks, cap 2 | exclusion, exact word, lock freedom |
| `scheduler` | 3 tasks, 2 priorities, vruntime up to 4 | list well formed, implements the abstract line, never picks above the head |
| `scheduler_min` | the same | **violated**: the pick is not the minimum |
| `scheduler_syscall` | the same | **violated**: the running task is still queued after `sys_sched_yield` |
| `kernel_parts` | 3 slots; 3 of 4 tasks wait; 2 signals; 13 pages, blocks up to 8, 9 nodes | children are reaped by their parent with their code, waits end; the wait queue is a queue; only a signal re-sent to its own handler is lost; pages are accounted for and merge back |
| `ipc_channel` | a program and 2 workers, 2 channels opened, pipes of one frame | no process reads its own frame; what poll reported is there for the read; Closed means own close; no SIGPIPE; ends face each other; receives that must return do |
| `ipc_runtime` | 4 tokens, 2 processes, depth 3; 2 callers, 2 restarts | revocation finds every unrevoked descendant; the budget is kept; the breaker ends up open on a dead worker |
| `compiler_parts` | 3 registers, functions of 5 instructions; graphs of 1 to 6 nodes | registers partitioned, no conflict, callee-saved ones recorded, operands right; dominators, frontiers, loops and liveness exact |
| `compiler_evict` | the same | **violated**: the boundary spill of an eviction stores a register that never held the value |

Bounds.  Two CPUs with two contexts each give four competitors for the
spinlock and both kinds of conflict, across CPUs and on one CPU; nesting 2 is
the first that distinguishes inner from outer release.  Two tasks suffice for
every race of the mutex and the semaphore, since each CAS has one opponent at a
time, and the invariants are proved for any number.  A retry cap of 2 (1000 in
the code) has a retry that is not the last.  The waiter count wraps at 3
instead of 2^32, so that the wrap happens.  Three tasks give the reader-writer
lock two readers against a writer.  Three tasks give the list a head, a middle
and a tail, and are the least for which the pick is not the minimum.  The unit
weight 4, threshold 1 and increments -1 and 2 stand for 1024, 1000000 and any
nice increment: priority 1 halves a charge, ticks of 2 and 3 make the division
round, and both clamps are met.  Three process slots are the least in which a
slot is reused while a child of its last owner lives.  Two starts of memory, one
aligned to the largest block and one not, and a pool that a few operations use
up.  In the channels a worker may spawn a worker, so a pipe has up to two
readers at one end; descriptors are few enough to be reused.  A token chain of
depth 3 has an inner token that is neither root nor leaf.  Three registers, one
of them callee-saved, force expiry, spilling and eviction within five
instructions; one of them stands for both scratch registers of the emitter, and
one is also the first return register, so that values are overwritten by
constants, slot addresses and earlier return values.  A remainder, a conversion,
a constant and a call are each put where spilled, evicted and register operands
meet them.  The graphs are all graphs of three nodes, all graphs of four
nodes with at most two successors each (every layout of every small flow graph,
irreducible ones included), a path of five with three and of six nodes with two
edges added, three nodes with every choice of control- and data-flow edges, and
one and two nodes with edges to themselves besides (`add_edge` allows them): a
node that uses its own value is what takes liveness the most sweeps, two more
than there are nodes.

What the properties leave out, because the code does not provide it (section 6):
`OperandsRead` says nothing of values in X9 or X10, of evicted values, of two
reloads for one instruction, of slot 0 in a function with a conversion to float,
of an operand of a remainder that shares its destination, of a spilled return
value and of one in the register of an earlier return value; `PolledFrameWaits`
is about a process and its one worker, and programs that close no handle, and a
frame that comes after the poll of `recv_timeout` gave up is read and dropped;
`FrontierExact` nothing of a
root that one edge leads back to; `LoopsNatural` nothing of the body of a one-node
loop except for `alloc_loops`, nor, for `alloc_loops`, of loops whose header is
laid out after the latch; `MergesBack` needs a start aligned to the largest
block; `WaitReports` excepts a child charged after its exit and a mother already
reaped; `RevocationReaches` stops at a token revoked before; `NoSelfRead` excepts
handles used after close.  `ipc_channel` takes poll for the system call behind
number 7 (`PollWorks`), which it is on x86-64.

Fairness.  A context inside a lock call is executed again (a CPU does not stop,
a task is scheduled again), handlers return, and a spinlock's critical section
is finite: strong fairness of the last release, because the holder could
otherwise nest and un-nest for ever.  Nobody is obliged to start a call, so the
holder of a mutex may keep it; that is what makes `MutexCallsReturn` say
something about the retry cap.  No fairness is assumed between the contenders
of a CAS, so per-caller progress is stated only where the code has a cap.
A task that polls in `waitpid` is scheduled again and again, and its call is
then evaluated at times when it can return, hence strong fairness of
`Reap \/ NoChild`; forks and exits are nobody's obligation.  A process inside a
builtin makes its next system call if that does not block (weak fairness of
`Step`); nobody must start one, and a worker may die.  Callers keep calling and
record their outcomes; the worker need not answer.  The compiler runs have no
fairness: their invariants bound the number of sweeps.

## 5. Proofs

All for any set of CPUs or tasks and any value of the bounds.

- `LocksRuntimeProofs`, the locks: `TypeOK`, `MutexExclusion`, `MutexNotOrphaned`,
  `UnitsConserved`.  `MutexInv` adds that a task that has won the word but not
  recorded itself, or that is dropping it, is not counted among the tasks told
  they have the mutex.  `TypeInv` adds that a decrement starts from a positive
  loaded count and that a task polls only below the cap.
  The reader-writer lock (`RwTypeOK`, `RwExclusion`, `WordCountsHolders`) has its
  proof in the same module.  The strengthening, `LocalInv`, says what a task
  between its load and its CAS has seen: a reader a word without a writer, a
  releaser a positive word; and that an acquirer is not yet, and a releaser still
  is, among the read holders.  The cardinality steps use that the tasks are
  finitely many and fewer than `Half`.
- `SchedulerProofs`: `TypeOK`, `QueueWellFormed`, `PickNotAboveHead` and the
  refinement `ImplementsRunqueue`, for any finite set of tasks.  `SchedInv` says
  that the sequence read off the links, `List`, has no task twice, begins and
  ends at head and tail, is as long as count, and holds exactly the READY tasks;
  the running task is RUNNING.  The last two conjuncts are what keeps a task
  from being linked twice.  That a walk of the links from the head is this
  sequence is shown once (the walk is a recursive function of the number of
  steps; a least step at which it would differ does not exist), and so is what
  the search loop of `sched_dequeue` returns: a position of the line whose task
  is not above the head.  Then appending, and removal at the head, in the middle
  and at the tail, are facts about sequences, and map to the abstract steps.
- `IpcChannelProofs`: `Paired`, `NoSelfRead`,
  `PolledFrameWaits`, `RecvClosedIsOwnClose`, `NoBrokenPipe`, for any
  processes, programs, descriptors and pipe capacity.  None is inductive.
  `ChanInv` adds where descriptors lead: an open handle to the four ends of its
  channel in one of two orientations (`HandlesLead`), every descriptor back to
  an open handle (`EndsOwned`), which is why closing one handle, or reusing its
  numbers, cannot disturb another; what a child inherits (`HandlesKnown`,
  `Unborn`); and that a frame sent through an open handle lies in the pipe its
  sender still sends on (`SentOnOwnSide`), from which `NoSelfRead` follows, since
  nobody reads that pipe through the same handle.  `NoBrokenPipe` follows from
  `EndsOwned`: who holds a write end holds the read end of the same pipe.
  `PolledFrameWaits` needs `SharedInv`: a handle that one process's spawns would
  swap is swapped by all who have it (`SwapShared`), a worker's spawner is
  another process, and nothing is closed where no program closes.  Then a process
  and its one worker receive on different pipes (`SoleReader`, from `Paired`), so
  a step of one takes no frame the other has polled (`Undisturbed`); and poll
  reports a frame and never a hang-up, since the poller holds a write end of the
  pipe itself (`PolledPipe`).
- `LinearScanProofs`: `RegistersPartitioned`, `NoConflict`,
  `CalleeSavedTracked`, for any registers, intervals and order of the pools.
  `ScanInv` adds that an interval still to come has no register (`NotYet`), that
  an active one has in the map the register it holds (`Held`), and that one that
  has a register and is not active ended before every interval still to come
  (`Ended`): this is what makes it safe to hand the register on.
  `EmitRefinesScan` carries the result to the pass that also emits and runs code,
  and `OperandsRead` is proved there.  `EmitInv` adds that every handled interval
  is either in a pool register or spilled to a slot of its own, that there are no
  more slots than handled intervals (so the frame has room), and that while the
  code runs a live value is in its register (`InRegister`), if that is no scratch
  register and no move of the return has written it, or in its slot (`InSlot`), if
  that is not the one conversions use.  An instruction keeps
  this because the register it writes belongs to no other value that is live
  across it (`Apart`), which is `NoConflict` applied to positions in the
  intervals; the intervals cover all definitions and uses, those of the return
  included, by construction (`Spans`).  A move of the return writes no slot, and
  of the registers only one that `Moved` then excepts.
- `LivenessProofs`: `LivenessExact`, for any graphs.  What the sweeps are to find
  is defined by paths: the nodes from which a use of v is reached without passing
  v, as a set that grows by one step per round.  It is closed in fewer rounds than
  there are nodes (each round that is not the last adds a node), and is within
  every closed set that has the users of v.  `LiveInv` bounds a solution on both
  sides: what is marked is live (`Sound`), and after j sweeps all within j steps
  of a use is marked (`Full`), which a visit to a node gains for that node
  whether its successors were visited before it in the sweep or not.  After one
  sweep more than there are nodes the bounds meet, so the next changes nothing.  A
  sweep that changes nothing has changed nothing at each visit, so what is marked
  is closed; this is why the analysis may stop earlier.
- `KernelPartsProofs`: `ImplementsWaitQueue`, `OnlyResentLost`, `WaitReports`.
  The first is a refinement, by cases on the number of waiters; the second is
  inductive.  For the third `ProcInv` says that a slot in use has pid slot + 1,
  that the ppid of a task names the slot of its mother as long as the mother is
  in the table, and that a zombie not charged since has its code in vruntime.
  That the slot taken and the zombie reaped are the lowest ones rests on
  well-foundedness of the naturals.
  The spinlock (`TypeOK`, `MutualExclusion`, `DepthCountsHolds`,
  `NoSelfDeadlock`) has its proof in the same module.  The first three are
  inductive as `LockInv`, which adds that a context inside a first acquire or a
  last release holds nothing and splits the equivalences into one fact per
  direction.  The last needs `MaskInv` besides: a running context past
  `irq_disable` has its CPU's flag clear, and a task with a handler above it is
  not past `irq_disable`.  Neither mentions `irq_state`, which is why they survive
  the violation above.
- `PmmProofs`: `PagesAccounted` and `PmmTypeOK`, for any memory, any largest
  order and any pool that is enough for `pmm_init` (`PoolAssumption`).  The
  invariant, `Account`, is stated of an allocator, a set of blocks in other hands
  and the memory, so that it also holds in the middle of a call, where the block
  being split or merged is in nobody's list.  It adds that the nodes on lists and
  the recycled ones are no more than the pool has handed out, so a node is
  available whenever the pool is not exhausted.  Taking a block off a list,
  putting one on, cutting one in hand into halves and joining it with its buddy
  each keep it; the loops of `pmm_init`, `pmm_alloc` and `pmm_free` are recursive
  functions, and keep it round by round.  That the buddy lies beside the block is
  all that the proof needs of `pmm_buddy`; no alignment is assumed.
- `PmmMergeProofs`: `MergesBack`, for any memory that begins at a multiple of the
  largest block.  `MergeInv` adds to `Account` that every block, listed or held,
  lies at a multiple of its size, and that no two buddies are listed (`Tidy`).
  Alignment makes the blocks a tree: of two that meet one contains the other, and
  a block and its buddy are the halves of one block.  `pmm_alloc` keeps `Tidy`
  because of the two halves it makes only the upper is listed, `pmm_free` because
  it stops merging only at the largest order or when the buddy is not listed, and
  `pmm_init` makes it because each block is the largest that fits where it lies
  (`Greedy`).  Two tidy sets of blocks on the same pages are equal (`OneWay`): a
  smallest block that lies inside a larger one of the other set would need its
  buddy's pages to be on blocks not smaller than itself, so on the buddy.  This is
  why the lists return to what `pmm_init` made.
- `LocksRuntimeProofs`, the IPC runtime: `RevocationReaches`, for any depth and
  number of tokens.
  `CapInv` says that a token is younger than its parent and has the source and
  depth by which `revoke_with_propagation` recognises a child.  The walk is a
  recursive function; its rounds grow the set it has found and stop only when
  nothing is added, so a chain of unrevoked tokens from the revoked one is
  followed to its end, by the least point at which it would not be.
  `RestartBudget` follows from the invariant that the restarts of a registered
  worker are exactly what its `WorkerState` counts.

Assumptions: the sentinel index is no task, the caps are positive, the tasks
are finitely many and (reader-writer lock) fewer than `Half` (256 against 2^32
in the code), the pool has a node for every block of `pmm_init` (4096 nodes, for
memory up to 16 GB), at most three tasks wait in a wait queue, the two register pools
are finite and disjoint, the spill scratch is in neither and is none of the
registers the emitter loads constants and slot addresses into, functions have finitely many virtual
registers and no use before a definition, descriptors are finitely many numbers,
a graph has at least one node and edges between its nodes (`GraphAssumption`; the
analysis returns at once from an empty one).

Recursive definitions that the proofs reach are recursive functions.  What such
a function computes is proved without an induction rule: the function is shown
to satisfy its equation, and a statement about all its arguments by taking the
least one for which it would fail, or that the values at which it holds include 0
and with each one the next.

Only model-checked, and why:

- all liveness (`SpinLeadsToWin`, `MutexCallsReturn`, `SemaLockFree`,
  `RwLockFree`, `WaitLoopEnds`, `TimedCallsReturn`, `RecvSettles`,
  `BreakerOpens`): fairness and ENABLED are outside the prover's reach;
- the other graph analyses (`DominatorsExact`, `FrontierExact`, `LoopsNatural`):
  recursive operators, and searches whose correctness is an induction over the
  tree they make;
- the violated properties.

`TypeOK` of the spinlock, the sleeping locks, the reader-writer lock, the channels
and the register allocator is proved and is not repeated in their runs.
`KernelParts` and `IpcRuntime` state theirs for the reader; TLC confirms them on
the instances above, but their runs do not list them.

## 6. Disagreements between code and comments

Shown by a run:

- `spinlock.vuma:458`: the saved interrupt state lives in the lock and is
  written before the lock is won, and read after it is dropped.  The header
  says that the previous state is restored.
- `scheduler.vuma:665`: `min_vruntime` is never updated, so the pick is the last
  task below the head.  The comment says the lowest.
- `scheduler.vuma:927`: `sys_sched_yield` leaves the task it picks in the list.
  The comment of `sched_tick` says the running task is not there.
- `regalloc.rs:1736`: an evicted interval is mapped to the scratch register X15 for
  the whole function, its earlier definitions included, so the boundary spill
  (`regalloc.rs:1967`) saves a register that never held the value.  The path is
  off unless `VUMA_REAL_REGALLOC_AARCH64=1`; the comment at `backend.rs:3207`
  says it is on by default.

Met while modelling; no run of their own, the properties above exclude them:

- Kernel processes.  `fork`, `exit` and `wait.vuma` say their copies of
  `task_alloc` and `task_free` are those of `task.vuma`; that file counts pids up
  and clears the slot, the copies reuse slot + 1 and clear nothing, so an orphan
  gets the next owner of its parent's slot as parent.  The refcount does not
  reach 0 when "BOTH tasks have exited" (`fork.vuma:624`).
- Kernel signals.  `signal_deliver` of a signal that `signal_check` returned finds
  it no longer pending and does not run the handler.
- Wait queue.  With four waiters one is woken twice and one never (the header
  says so); `waitq_remove` of the head drops the tasks behind it.
- `pmm.vuma:625`: blocks are cut relative to `mem_start`, but buddies are found by
  XOR of the absolute address; with the self-test's 1 MB the halves of the
  largest blocks do not meet, so freeing does not lead "all the way back up to
  order 10".  `pmm.vuma:242`: `pmm_alloc` does not return the node of a block it
  hands out whole, so the pool does run out.
- `event_loop.vuma`: removal leaves holes, and the search looks at the first
  `num_handlers` slots only; a callback that re-registers itself and returns 1 is
  removed.
- `ipc.rs:3415,3439`: a half-open breaker admits every caller, not one; a late
  success closes an open breaker.  `ipc.rs:801`: propagation stops at a token
  already revoked, and the child rule also meets tokens that are no children.
  A revoked token can be delegated.  Registering a worker anew renews its budget.
- `ipc_lowering.rs:3146`: `recv_proto` advances the state on failure too.
  `ipc_lowering.rs:2352`: once `O_NONBLOCK` is set, `recv_result` and `recv_proto`
  report Closed on an empty open channel.  A `try_recv` whose frame another reader
  took returns what is in its buffer.  Poll has another number on AArch64 and
  RISC-V, where `recv_timeout` always times out.  A dead peer is never noticed,
  since every process keeps all ends open.  The registry has room for ten
  channels and does not check.  `wait_worker` reports 0 for death by a signal.
- `regalloc.rs`: two spilled operands of an instruction are both reloaded into
  X15; X9 and X10 are allocatable, although line 2385 reserves them for the
  emitter, which forms slot addresses in X9 and loads constants into both
  (`emit.rs:2076`, "not X9, which may hold a live vreg", uses X10; `emit.rs:3327`);
  a conversion to float goes through the word of spill slot 0 (`emit.rs:1922`); a
  remainder whose destination is the register of an operand reads the quotient for
  it (`emit.rs:2587`); return values are moved one by one, so a later one may be in
  a register that is already written (`emit.rs:2954`); a spilled return value is
  not reloaded; line 1416 counts 15 + 10 registers, the pools have 14 + 10.
- Loops.  In `loop_detection.rs` and `control_flow.rs` the body of a one-node
  loop takes in what leads to it, against `loop_detection.rs:244` and
  `control_flow.rs:1735`.  The detector of `regalloc.rs` misses back edges to a
  header laid out later and takes two loops with one header to be nested in
  each other; line 4132 says reverse postorder, it sweeps in layout order.
  `control_flow.rs:1682`: an unreachable block is left dominated by everything,
  not "by itself only".  The dominance frontier misses a root that one edge
  leads back to.

## 7. Not modelled

Most of the compiler: parsing, type and proof checking, lowering, instruction
encoding for the back ends, linking, the package manager and the language
server.  They are large pure transformations whose correctness is about data
that a small instance does not represent; a model of them would be a
transliteration.

Of the parts that are modelled:

- Register allocation: vector registers, functions of several blocks, the call
  save area, preassigned parameters, coalesced copies, the other targets.
- Graph analyses: the loop nesting tree of `loop_detection.rs`, exits, trip
  counts, and the reports built on liveness.
- Channels: bytes and checksums of a frame, byte-wise short reads and writes,
  the emitted breaker and hot-swap code.  IPC runtime: hot swap, checkpoints,
  expiry of tokens, accounting.
- Kernel: `waitq_remove`, pipe ring, futex, shared memory, heap and page tables;
  cross-CPU calls and traps; context save and restore.  The locks' waiter
  counts (with their lost updates) and the processes' refcounts are modelled, but
  have no property: nothing acts on the counts, and the refcounts do not do what
  their comment says.
- Library: the event loop.  Drivers, console, network and file system formats
  are input and output.
