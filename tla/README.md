# Verification of sv6

sv6 is a research kernel built for many cores; ScaleFS is its file system. What
is hard to get right in it is not sequential code: memory is reclaimed by epochs
that cores advance without locks, references are counted in per-core caches, the
file system keeps per-core operation logs and journals that may commit in any order,
fsync decides from several logs what has to reach the disk first, and processes that
sleep, die and are reaped hand locks to each other. These are the parts modelled here, in TLA+, from the sources in `src/kernel` and `src/include`.

The project has six groups of modules.

| modules | part of the kernel | status |
|---|---|---|
| `GC`, `MCGC`, `GCProofs` | epoch-based reclamation, `gc.cc` | complete; proved |
| `Refcache`, `MCRefcache`; `RefcacheInv`, `RefcacheListProofs`, `RefcacheProofs` | `refcache.hh`, `refcache.cc` | all but `get_consistent`; proved but for `CollectedInTime` |
| `Journal`, `MCJournal`; `StableStore`, `StableStoreProofs` | per-core physical journals and recovery, `scalefs.cc`, `scalefs.hh` | complete; refinement checked with one journal, abstract store proved |
| `MetadataLog`, `MCMetadataLog` | metadata logs, rename barriers and fsync, `scalefs.cc`, `sysfile.cc` | create, link, rename, fsync |
| `Oplog`, `MCOplog`; `OrderedLog`, `OrderedLogProofs` | per-core operation logs and their merge, `oplog.hh`, as `sysfile.cc` and fsync use them | calls and synchronization; refinement checked, abstract log proved |
| `Condvar`, `Proc`, `Pipe`; `Shell`, `MCShell`; `ShellInv`, `ShellLockProofs`, `ShellStepProofs`, `ShellProofs` | sleep and wake-up, processes, pipes (`condvar.cc`, `proc.cc`, `pipe.cc`), and their composition | no timed sleep, no wait for one pid; safety proved |

Run a model with `tlc -config <cfg> <module>`, a proof with `tlapm <module>.tla`.

## 1. Inventory

How the parts interact: system calls change directories in memory (`mnode.hh`,
`chainhash.hh`) under gc epochs, and count references to mnodes with refcache. For
every change they append an operation to the metadata log of each node concerned,
through per-core loggers (`oplog.hh`). `fsync` merges the loggers of a log, follows
the dependencies between logs, and turns operations into transactions of disk
blocks in the queue of its core. The queue is written to the journal of that core,
after the transactions of other queues it depends on; journals are applied to the
home locations and reset; after a crash recovery replays what is committed. Waiting
is done with sleep locks, which are built on condition variables.

| component | state | operations | what is hard | properties |
|---|---|---|---|---|
| Reclamation (`gc.cc`) | global and per-core epochs, delayed-free lists, processes in an epoch | begin, end, delay, worker, scan | unlocked reads of moving counters; list handed over without a lock | order of the epochs, no list reused too early, nothing lost or freed twice, grace period, freed in the end |
| Refcache (`refcache.*`) | per-core deltas, epochs, review lists, weak references | inc, dec, get, tick, flush, review, reap | counts that are zero while references exist; revival during review | freed only when unreferenced, freed in time, one reviewer |
| Journals (`scalefs.cc`) | queues, offsets, commit and apply counters, journal blocks, disk | enqueue, commit, apply, reset, recover | crashes at every block write, order between journals, dependencies while locks are held | an atomic durable store; calls return |
| Metadata log (`scalefs.cc`, `sysfile.cc`) | directories in memory and on the disk, a log per node, three stacks per fsync | create, link, rename, fsync (unlink, sync) | dependencies across logs, renames in two logs, barriers, several fsyncs at once | no loops, nothing dangling, lost or unreachable; durable after fsync |
| Operation logs (`oplog.hh`) | loggers per core, logger cache | push, evict, merge, synchronize | in-flight calls, equal time stamps, lock order with eviction | every operation once and in order, none missed, fsync gets through |
| Condition variables, kill, timers (`condvar.cc`, `proc.cc`) | waiters, sleepers, process states | sleep, wake, time out, kill | lost wake-ups, lock order, time-out racing a wake-up | no lost wake-up, no deadlock |
| Pipes, Unix sockets (`pipe.cc`, `unixsock.cc`) | ring buffer, open ends | read, write, close | close racing a sleeper | data in order, everybody woken |
| Processes (`proc.cc`) | tree, zombies | fork, exit, wait | reparenting | every zombie reaped once |
| Futex, semaphore, sleep lock, seqlock, SNZI | small | small | lost wake-ups, torn reads | mutual exclusion, progress |
| Hash table (`chainhash.hh`), file table (`filetable.hh`) | buckets; descriptors | lookup, insert, remove, replace; open, close | lock-free readers | linearizability |
| In-memory files (`mnode.*`, `mfs.cc`) | link counts, pages | link, unlink, kill | resurrection of removed nodes | link counts true |
| Allocation (`fs.cc`, `kalloc.cc`, `buddy.cc`) | bit maps, free lists | allocate, free, steal | reuse before commit; merge of buddies | no block twice |
| Virtual memory (`vm.cc`, `hwvm.cc`, `radix_array.hh`) | mappings, page tables, TLBs | map, unmap, fault, shootdown | stale translations | no access to a freed page |
| Scheduler, traps, drivers, network, tools | | | machine dependent | |

`PROJECT.json` lists them all, with what is modelled of each, and the hazards of the
code at the line where they bite.

## 2. Modules

### GC: epoch-based reclamation

A process enters an epoch on a core (`gc_begin_epoch`, `gc_begin_locked`: the depth is
raised before `gc_state::lock_` is taken), finds objects, may migrate, and leaves it
(`gc_end_epoch`, `gc_end_locked`, on the core where it began). `gc_delayed` puts an
unlinked object on the list of the current epoch of its core. Each core's worker frees
lists (`do_gc_take`, `gc_free`, `do_gc_recycle`), giving `lock_` up while it frees, and
then scans (`inc_begin`, `scan_*`, `inc_end`). The scan has one action for each *read* of
another core's counter: the code reads each counter twice, once to compare it and once
to assign it, and the counter may move in between. So the minimum it computes need not
be a lower bound; `ScanInv` of the proof says what does hold.

### Refcache

One action per step that holds an object's lock. `inc`, `dec` and `get_*` cache deltas;
`evict` brings a delta to the global count and finds the object a reviewer; `tick` and
`flush_*` are the timer interrupt, which flushes way by way and joins the next epoch;
`review_*` goes over the review list; `reaper` calls onzero. `PromptReview` is a timing
assumption: a core ends its review before the others have ticked into the next epoch.
The code does not guarantee it, and without it an object is freed too early (run
`refcache_late`); the other runs assume it to see whether anything *else* goes wrong.

### Journal and StableStore

`Journal` has one action per block write or lock operation of commit, apply, reset and
recovery. Block contents are abstracted to the number of the transaction that wrote
them. `Crash` can come between any two writes and loses all of memory; writes issued
together before a flush reach the disk in any subset. `StableStore` is what fsync and
sync promise: an image of blocks that changes by whole transactions, respecting their
order on each block, and keeps what a call has returned for. `Implements` states that
`Journal` implements it, with the image that recovery *would* produce if the machine
crashed now as the refinement mapping. That holds with one journal and, because of the
race that `journal_reset` shows, not with two.

Transactions are merged one at a time (`take`, `merge`, `merge_check`), because each test
reads the offset anew, without the lock under which it is changed; while a skip block is
written, by an apply or by a reset (`reset_start`, `reset_journal`), that offset is 0.
`UpdateOrder` is what the dependencies between queues are for: commit blocks and home
writes follow the order of the updates of each block, with any number of journals.

### Oplog and OrderedLog

A call takes `mfs_tsc_lock` of each of its logs, notes its start, changes the directory
(its time stamp is read there), pushes its operations one by one into the loggers of its
core (`lock_way`, `add_operation`; `back_out` when the log in the way is being
synchronized) and notes its end. fsync reads the start and end stamps of one core after
the other (`read_start`, `read_end`, separate steps), waits for calls in flight, collects
loggers (`gather`) and merges them (`flush_finish_max_timestamp`). Which calls are made is
a constant: `Link`, `Unlink`, `Create` and `Rename` say when a call reads the clock for
its start stamp, which logs it locks and which it appends to. Every read of the time
stamp counter returns a larger value than the reads before it. `Rename` is that of a
file: the barriers of a moved directory are in `MetadataLog`.

`OrderedLog` is what this adds up to: a call adds its operations at one instant, and
synchronizing a log up to a time moves exactly the operations up to that time into the
vector, in order. `Ordered` states that `Oplog` implements it; an operation that a call
has performed but not yet pushed counts as due. It justifies the single step that
`MetadataLog` takes for a call.

### Condvar, Proc, Pipe and Shell

`Condvar` models spin locks, the lists of waiters and the states of processes. `sleep_to`
gives up the caller's locks only when it holds those of the condition variable and of
the process; `sleep_enqueue` joins the list; `sleep_relock` takes the caller's locks again
and leaves by an exception if the process was killed; `wake_all` wakes one waiter per
step. `Proc` has fork, wait, kill and exit, with one step per lock taken: exit hands its
children to init one by one (`exit_pop`, `exit_adopt`), reads its parent and locks it
in separate steps, as the code does, and wakes it. `Pipe` has read and write byte by
byte, and the close of either end: that of the write end is immediate
(`file_pipe_writer_wrapper`), that of the read end is done later by the thread that
runs `onzero`. Two details are left out: the deletion of the pipe after the second
close, when no descriptor leads to it, and a non-blocking read whose unlocked test sees a
byte that is gone when it has the lock (it returns -1). `Shell` composes them: fork copies descriptors, exit closes them, init waits
for ever, and the other processes make system calls in any order.

### MetadataLog

A system call is one step: it holds the tsc locks of all logs it appends to, and
`synchronize_upto_tsc` waits for calls in progress before a log is read, so that no
fsync sees half of a call. `fsync` is split at every acquisition of a log's lock
(`process_start`, `apply_rename_pair_src`, `apply_rename_pair_dst`) and at every
operation processed. A create first publishes the inode (`process_create`:
`mnum_to_inum`, the variable `inums`) and forms its transaction in a later step
(`process_create_apply`), so that the link of another fsync may come in between.
Transactions are sets of directory entries; a
transaction waits for those of other cores that touch one of its nodes. (In the code
they wait for those with a common inode *block*, which is coarser: the model allows
every order that the code allows and more.) `disk` is what a crash would leave.

`sys_rename` takes the tsc locks of both directories and, for a directory, of the ancestors of
the new one (`mnode_mnums`, a bag). When the old directory is one of these its lock is in
the bag twice, and the lock is not recursive: the call waits for itself with
`dir_rename_lock` held, and directories are moved no more. Moves up and across
the tree are carried out. A failed assertion stops the model: `panic` says of which kind.

## 3. Runs

Passing runs:

| run | what it shows |
|---|---|
| `gc` | Under every interleaving: `nexttofree_epoch <= min_epoch <= global_epoch` (`EpochOrder`), nobody more than two epochs behind (`EpochLag`), `gc_delayed` never finds its list taken (`SlotReady`), no object lost or freed twice (`NoneLost`, `FreeOnce`), none freed by the core its reader entered on (`LocalGrace`), and every delayed object freed in the end (`EventuallyFreed`). |
| `journal_one` | One journal with fsync, sync, merging of transactions, journal-full resets and two crashes, the second possibly during recovery: `Implements`, no assertion of the code fails (`NoPanic`), no deadlock. |
| `journal_two` | Two journals, fsync on the core of one and sync on that of the other, with transactions that share blocks in different queues, and journals that fill up, apply each other's transactions and are reset: `UpdateOrder`. |
| `refcache_ways` | Two cores, two objects in one cache way, one of them with a weak reference: global count plus deltas is the number of references through all evictions (`TrueCount`), one reviewer per object (`OneReviewer`), no core more than one epoch behind (`EpochBarrier`), freed only when unreferenced (`FreedUnreferenced`), and within ten epochs of the last operation (`CollectedInTime`). |
| `metalog` | Two fsyncs on two cores around two calls of create, link or rename, from a tree `/x/x/x` or from `/x` with two directories still to be made: the disk never holds a loop of directories (`NoOrphanLoop`, the theorem of `NOTES.dir-rename-fsync`) or a directory with two parents (`OneParent`); an operation finds the inodes and the rename stack it relies on (`OperationsApply`); memory is what disk, queues and logs add up to (`NothingLost`); nothing reachable becomes unreachable (`StaysReachable`); an fsync that no other overlaps leaves nothing of its node behind (`LoneFsyncDurable`). |
| `oplog` | Two calls of two threads and two fsyncs, with two logs that evict each other: the per-core loggers implement `OrderedLog` (`Ordered`: nothing that took effect by the time synchronized is missed, each operation is applied once and in order), no assertion fails (`NoPanic`), and fsync gets through although it waits for calls and for ways that others lock (`SyncReturns`). |
| `shell` | A process, the child it forks, init and the thread that closes read ends, around one pipe: bytes arrive once and in order (`InOrder`), nobody sleeps on what has happened (`NoLostWakeup`), nobody returns to user space with a lock (`UserHoldsNothing`) or releases one of another (`NoPanic`), a process is in one list of children, that of a living parent (`ChildrenKept`), init reaps the dead (`OrphansReaped`), and a read ends when the write end is closed (`ReadsEnd`). |

Runs whose violation shows a disagreement between the code and what it says:

| run | what happens |
|---|---|
| `gc_grace_period` | A core with no process in an epoch moves its own `min_epoch` up to the global one and frees what was delayed on it in earlier epochs, while a reader that entered on another core in such an epoch still holds the object. |
| `journal_restart` | Recovery clears journals one by one, and clears the skip time stamp first. A crash in between lets the next recovery replay what was applied long ago, over newer contents whose own journal is already cleared. |
| `journal_reset` | A core that applies the transactions of another one finds that apply queue empty, and then resets the journal. A transaction committed in between stays unprotected at its old offset, the next one overwrites it, and recovery no longer finds what fsync has returned for: `Implements` fails with two journals of two transactions. |
| `refcache_late` | A review that takes longer than an epoch requeues a dirty object relative to the epoch it read at its start, one epoch too early, and the object is freed while a reference exists. |
| `metalog_barrier` | A directory is moved up and two cores fsync its new parent. Both put the barrier of the parent on their stacks and look at the root; one comes back and erases the barrier, the other finds the log empty, keeps the entry, and the final assertion on the barrier stack fails (`AssertionsHold`). `RET_DONE` repairs the rename stack in this case only. |

Other behaviours that TLC reaches on instances without a run of their own are noted with
the hazards in `PROJECT.json`. In `Journal`: an offset that is read as 0 by a thread committing
to a journal that another one resets, and two calls of sync that wait for each other. In
`MetadataLog`: the rename that waits for itself (`RenamesProceed`), a new directory on the disk
without a "..", and an fsync that returns while another one has its operations (`FsyncDurable`). In `Oplog`: two
creates on one core, of which the second writes a start stamp older than the end stamp
of the first, so that fsync takes the core for idle. In `Shell`: a parent and a child that
exit together, a process killed in `wait`, a kill just before its victim sleeps,
`kill` against `wake_all`, and a writer asleep on a full pipe whose readers are gone. The
passing runs leave these cases out by the constants named below.

### Bounds, and why they are enough for the questions

* `gc`: two cores, `MaxEpoch = NEPOCH`, so that a list is recycled and used again;
  nesting to depth 2. One process and one object: the safety invariants are proved for
  any number, TLC adds liveness and is a check on the model. At the bound of the epoch
  the workers go on, so no deadlock is hidden.
* `journal_*`: in `journal_one` a journal of six blocks holds one transaction, so the second one merges
  with it or finds the journal full and has it applied and reset; three transactions do
  both. Two threads are enough for one to commit while the other applies. `CrashIn`
  names the phases in which a crash may come: in `journal_one` it does not come while journals
  are being cleared, the case that `journal_restart` is about. `journal_two` and `journal_reset`
  have journals of eight blocks, two transactions each, which is what the reset race takes, and four
  transactions; `Calls` gives fsync to one core and sync to the other, so that one commits
  to a journal that the other applies and resets. They need no crash
  steps: the refinement mapping is what a crash *would* leave in each state, and `UpdateOrder` is
  about the order of writes. They stop for lack of transactions or at a failed assertion, so
  their deadlock check is off. The model has one disk; with several, the home writes of
  recovery are not flushed, which is not modelled.
* `refcache_*`: `IntMax = 1` makes deltas overflow with two references; `MaxRef` bounds
  the references to each object, and lets references be taken on one core and dropped
  on another. The VIEW
  `Shifted` identifies states that differ by a shift of all epochs, on which no guard
  depends, so the number of epochs is not bounded.
* `metalog`: four directories, one file, two names; one tree is nested
  so that two renames can form a loop, the other leaves two directories to be made, next to
  each other or one in the other. Two calls and two fsyncs are enough for every
  mutant below to be caught; deeper instances show the further hazards listed
  in `PROJECT.json` (replacing renames, overlapping fsyncs of one
  node, crossing renames), and are left for runs of their own. Deadlock is not checked: the system stops at the bounds.
* `oplog`: two cores, one way, so that every change of log evicts; one call appends
  to both logs. Two synchronizations let the second meet what the first left. Only one
  thread makes calls with an early start stamp on a core (`SharedCore`), see above.
* `shell`: a pipe of two bytes and three bytes written, so that the ring wraps and a
  writer sleeps half way; one fork. `JointExit = FALSE` keeps parent and child from being in
  `exit` at the same time; `Killable` holds the child only, which reads and never waits.
  The two users suffice for a sleeper and a waker, a parent and an orphan; the
  deadlock check is off because the processes may all end.

Each property of a passing run is violated when one definition of the model is replaced
by the mutant beside it, a plausible slip in that code (a dropped guard, a
swapped order, an off-by-one); `PROJECT.json` pairs them.

### Fairness

* `GC`: weak fairness of the workers (`gc_worker` sleeps with a timeout) and of
  processes that are inside an epoch (`scoped_gc_epoch` leaves what it entered). Strong
  fairness where a process takes `lock_`, which a worker gives up between its rounds.
* `Oplog`: weak fairness of every thread inside a call and of fsync. Strong fairness of
  `gather`, which spins for the lock of a way that a thread backing out takes
  again and again. No thread has to make a call.
* `Shell`: weak fairness of each process in the kernel: it is run when runnable
  and gets a spin lock that stays free. init calls `wait` for ever (`bin/init.cc`); nothing is
  assumed of the system calls of the others.
* The other modules have safety properties only. `CollectedInTime` bounds the delay in
  epochs, which is stronger than a liveness property and needs no fairness.

## 4. Proofs

All for every value of the constants; the assumptions are the named `ASSUME`s (at least
one core, finite sets of cores, natural bounds, names of locks and condition variables
that are all different), and the hypotheses that the theorems state: in
`OrderedLogProofs` that a call appends a bounded number of operations, in
`RefcacheProofs` and `ShellProofs` those named below.

* **GCProofs**: all safety invariants of `GC` but `GracePeriod` (which is false). None of
  them is inductive. The inductive invariant `IInv` adds: where the loop variable of
  `do_gc` is (`LoopInv`); that a process in an epoch is on one core's list and not
  below its `min_epoch` (`ProcInv`); that a core's lists serve NEPOCH consecutive
  epochs from the lowest it has not recycled (`SlotInv`, `SlotMod`, `GlobalInv`); what the
  scan knows (`ScanInv`: *if* the minimum still permits an advance, *then* every core
  read so far is far enough, which is true although the minimum itself may be too
  high); what is on the lists (`ListInv`, `FreeInv`, `FreedInv`); and that a reader's epoch
  does not exceed the one its object was delayed in (`RefsInv`).
* **StableStoreProofs**: in the abstract store, what a call has returned for is never lost. The
  invariant adds that pending transactions are newer than the durable versions of
  their blocks; a commit then only replaces versions by newer ones. With `Implements`
  (checked by TLC) this carries over to a single journal; with several, `journal_reset` shows what is missing.
* **RefcacheListProofs, RefcacheProofs** (invariants in `RefcacheInv`): every safety
  property of `Refcache` but `CollectedInTime`, in four layers, each inductive with the help
  of those before it.
  * `BarrierInv` gives `EpochBarrier`: a core that is flushing has joined the global epoch,
    so local epochs are at most one behind and `global_epoch_left` counts exactly the
    cores still to flush. It is what lets eviction compute a review epoch from the
    local one.
  * `CountInv` gives `TypeOK` and `TrueCount`. It adds that a delta is kept only for an
    object that has a way and that no two objects share one (`CacheInv`). The sum over the cores
    is a fold; what is needed of it (changing one delta changes the sum by as much, a
    sum of zeros is zero) is proved without induction, from a smallest set of cores that
    would be a counterexample.
  * `ListInv` gives `NoPanic`: an object is linked once, exactly while it has a review epoch
    (`LinkInv`), and each list is ordered and within a window of epochs that depends on
    what its core is doing (`OrderInv`), so that appending at the end keeps it ordered.
    These hold whether reviews are prompt or not.
  * `GraceInv` gives `FreedUnreferenced` and `OneReviewer`, for `PromptReview`: as long as any core has
    a delta for an object that looks unused, some such core has still to flush before the
    review (`Grace`), and the flush will make the object dirty. Without
    `PromptReview` this is false (`refcache_late`): no core may be ahead of the epoch that
    a review has read (`Prompt`).

* **OrderedLogProofs**: in the abstract log, a log synchronized up to a time misses no
  operation that took effect by then (`Complete`), and operations are applied in the order of
  their time stamps across all synchronizations (`Sorted`). `Sorted` is not inductive: the
  invariant adds that what is due is later than the time synchronized and what is
  applied is not (`DueInv`, `VecInv`), and that only finitely many operations are due, so
  that they can be put in an order. With `Ordered` (checked by TLC) both carry over to the
  per-core loggers.

* **ShellLockProofs, ShellStepProofs, ShellProofs** (invariants in `ShellInv`): every safety
  property of `Shell`, for any number of processes, any size of the pipe and any mix of
  calls. `InOrder` needs no hypothesis; the others assume `Orderly`: no parent and
  child exit at the same time, and nobody is killed who calls `wait`. Both are cases in
  which the code does go wrong (see the hazards). `NoLostWakeup` also assumes that a write fits in the ring
  (`SmallWrites`), because write wakes the readers only when it is done.
  * `PInv`, for `InOrder`: the counters are at most `PIPESIZE` apart and each byte between
    them is in its place; two places coincide only a whole turn apart
    (`DistinctSlots`). Only a turn of the loops of read and write changes the ring.
  * `LInv`, for `NoPanic` and `UserHoldsNothing`: the label of a process determines the
    locks it holds (`LockInv`), with which frame it sleeps or wakes (`FrameOK`) and its scheduling
    state (`StateOK`); a list of waiters holds those who sleep there, once each
    (`WaitersInv`). Mutual exclusion as such would not be inductive: a step that releases
    a lock has to know that it holds it.
  * `KInv`, for `ChildrenKept`: who is in a list of children is alive and has its owner as
    parent, a child being handed over is in no list and still its old parent's, a
    process that has handed its children over gets no new ones.
  * `IOInv`, `PipeWake` and `ChildWake`, for `TypeOK` and `NoLostWakeup`: from the moment a
    process decides to sleep, its reason holds as long as it has the locks of the caller
    or of the condition variable, and after that the reason holds or somebody is in
    `wake_all` or about to be. For `wait` the reason is about *every* child, scanned one by one, and a child that
    announces its end holds the lock of its parent.

Only model-checked:

* liveness (`EventuallyFreed`, `SyncReturns`, `OrphansReaped`, `ReadsEnd`), which is out of
  reach of the prover;
* `Implements` and the assertions of `Journal`: the mapping, the image that recovery would produce, walks over the journal
  by a recursive function, and the prover has no induction for it;
* the properties of `MetadataLog`: larger instances reach the hazards listed for it, so
  they are not true for every value of the constants, and reachability is recursive too;
* `Ordered` and the assertions of `Oplog`, and `CollectedInTime`, which needs an account of
  how often a review may requeue an object. Nothing in principle is in the way of these.

## 5. Not modelled, and the plan

In order of importance:

1. `MetadataLog`: unlink, absorption of link-unlink pairs, deletion of inodes and sys_sync.
2. Timed sleep (`condvar::sleep_to` with a timeout against `timerintr`), wait for one pid,
   Unix sockets, sleep locks, semaphores and futexes, on top of `Condvar`.
3. `refcache::get_consistent`, sequence locks, SNZI; the lock-free lookup of `chainhash.hh`;
   the file descriptor table.
4. Allocation and reuse of blocks against commits; link counts of the in-memory files.
5. Virtual memory: radix array, page faults, TLB shootdown.
6. Proofs: `CollectedInTime`; type correctness and `OperationsApply` of `MetadataLog`; the
   assertions of `Oplog`; the step simulations of the commit path of `Journal` and of `Oplog`.

Left out for good: device drivers, boot and trap code (machine dependent), the
network stack (lwIP, a library), user programs and benchmarks, statistics and
debugging code, and the ring scheme of `gc.cc`, which the build does not select. These, with the ACPI
interpreter and the other imported libraries, are by far the larger part of the lines in
the repository: the share of it that the modules cover is small, while the parts of the
kernel that are concurrent by design are covered in order of their importance.
