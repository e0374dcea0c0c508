-------------------------------- MODULE GC --------------------------------
(***************************************************************************)
(* Epoch-based reclamation (kernel/gc.cc, the GC_GLOBAL scheme).           *)
(*                                                                         *)
(* Every core has a gc_state: a list of the processes inside an epoch that *)
(* they entered on this core, NEPOCH delayed-free lists, and a gc worker.  *)
(* Processes enter and leave (possibly nested) epochs, look objects up     *)
(* while inside one, and hand unlinked objects to gc_delayed.  A worker    *)
(* frees the lists of the epochs below its core's min_epoch and then tries *)
(* to advance global_epoch by reading every core's counters without their  *)
(* locks.  gc_state::lock_ is held by a worker except where do_gc gives it *)
(* up for gc_free; the operations of processes hold it for one step each.  *)
(***************************************************************************)
EXTENDS Naturals, FiniteSets

CONSTANTS NCPU,       \* number of cores, ngc_cpu = ncpu
          Procs,      \* processes
          Objs,       \* rcu_freed objects
          MaxEpoch,   \* bound on global_epoch
          MaxDepth    \* bound on the nesting of epochs

ASSUME GCAssumption == /\ NCPU \in Nat \ {0}
                       /\ MaxEpoch \in Nat
                       /\ MaxDepth \in Nat \ {0}

NEPOCH == 4           \* delayed-free lists of a core
Cores == 0 .. NCPU - 1
NoCore == NCPU

VARIABLES
    global_epoch,       \* the machine's epoch
    nexttofree_epoch,   \* per core: the lowest epoch whose list is not freed
    min_epoch,          \* per core: a lower bound on its processes' epochs
    delayed,            \* per core: NEPOCH delayed-free lists
    delayed_epoch,      \* per core: the epoch each of its lists serves
    proclist,           \* per core: processes in an epoch begun on the core
    epoch, depth, core, \* per process: its gc_handle
    pc,                 \* per process: out | begin | in | end
    refs,               \* per process: objects found in the current epoch
    wpc,                \* per core: where its gc_worker is
    i,                  \* per core: do_gc's loop variable
    freeing,            \* per core: objects gc_free has still to free
    gc_lock,            \* the core whose worker holds gc_lock, or NoCore
    scan_c, minfree, minepoch,  \* gc_inc_global_epoch of the holder
    where,              \* per object: linked | unlinked | delayed | freed
    rcu_epoch,          \* per object: _rcu_epoch
    delayer             \* per object: the core it was delayed on (history)

lists == <<delayed, delayed_epoch>>
core_vars == <<nexttofree_epoch, min_epoch, lists, proclist>>
handle == <<epoch, depth, core>>
proc_vars == <<handle, pc, refs>>
scan == <<gc_lock, scan_c, minfree, minepoch>>
worker_vars == <<wpc, i, freeing, scan>>
obj_vars == <<where, rcu_epoch, delayer>>
vars == <<global_epoch, core_vars, proc_vars, worker_vars, obj_vars>>

\* gc_state::lock_ of core c is free (or given up during gc_free).
LockFree(c) == wpc[c] \in {"sleep", "free"}

Init ==
    /\ global_epoch = NEPOCH - 2
    /\ nexttofree_epoch = [c \in Cores |-> 0]
    /\ min_epoch = [c \in Cores |-> 0]
    /\ delayed = [c \in Cores |-> [k \in 0 .. NEPOCH - 1 |-> {}]]
    /\ delayed_epoch = [c \in Cores |-> [k \in 0 .. NEPOCH - 1 |-> k]]
    /\ proclist = [c \in Cores |-> {}]
    /\ epoch = [p \in Procs |-> 0]
    /\ depth = [p \in Procs |-> 0]
    /\ core = [p \in Procs |-> NoCore]
    /\ pc = [p \in Procs |-> "out"]
    /\ refs = [p \in Procs |-> {}]
    /\ wpc = [c \in Cores |-> "sleep"]
    /\ i = [c \in Cores |-> 0]
    /\ freeing = [c \in Cores |-> {}]
    /\ gc_lock = NoCore /\ scan_c = 0 /\ minfree = 0 /\ minepoch = 0
    /\ where = [o \in Objs |-> "linked"]
    /\ rcu_epoch = [o \in Objs |-> 0]
    /\ delayer = [o \in Objs |-> NoCore]

-----------------------------------------------------------------------------
(* Processes *)

\* The depth count is raised before lock_ is taken; a nested begin is done.
gc_begin_epoch(p) ==
    /\ pc[p] \in {"out", "in"}
    /\ depth[p] < MaxDepth
    /\ depth' = [depth EXCEPT ![p] = @ + 1]
    /\ pc' = [pc EXCEPT ![p] = IF depth[p] = 0 THEN "begin" ELSE "in"]
    /\ UNCHANGED <<global_epoch, core_vars, epoch, core, refs, worker_vars, obj_vars>>

\* Under lock_ of the core the process is on: read global_epoch and enqueue.
gc_begin_locked(p, c) ==
    /\ pc[p] = "begin"
    /\ LockFree(c)
    /\ epoch' = [epoch EXCEPT ![p] = global_epoch]
    /\ core' = [core EXCEPT ![p] = c]
    /\ proclist' = [proclist EXCEPT ![c] = @ \union {p}]
    /\ pc' = [pc EXCEPT ![p] = "in"]
    /\ UNCHANGED <<global_epoch, nexttofree_epoch, min_epoch, lists, depth, refs, worker_vars, obj_vars>>

\* Mutant of gc_end_epoch: an end without a begin is not refused.
gc_end_epoch_unbalanced(p) ==
    /\ pc[p] \in {"in", "out"}
    /\ depth' = [depth EXCEPT ![p] = @ - 1]
    /\ UNCHANGED <<global_epoch, core_vars, epoch, core, pc, refs, worker_vars, obj_vars>>

gc_end_epoch(p) ==
    /\ pc[p] = "in"
    /\ depth' = [depth EXCEPT ![p] = @ - 1]
    /\ pc' = [pc EXCEPT ![p] = IF depth[p] = 1 THEN "end" ELSE "in"]
    /\ refs' = [refs EXCEPT ![p] = IF depth[p] = 1 THEN {} ELSE @]
    /\ UNCHANGED <<global_epoch, core_vars, epoch, core, worker_vars, obj_vars>>

\* min_epoch becomes the least epoch of the processes that stay, or the
\* global one.
dequeue(p, c) ==
    /\ proclist' = [proclist EXCEPT ![c] = @ \ {p}]
    /\ LET es == {global_epoch} \union {epoch[q] : q \in proclist[c] \ {p}}
       IN  \E m \in es : /\ \A n \in es : m <= n
                         /\ min_epoch' = [min_epoch EXCEPT ![c] = m]

\* Under lock_ of the core where the epoch began.
gc_end_locked(p) ==
    /\ pc[p] = "end"
    /\ LockFree(core[p])
    /\ dequeue(p, core[p])
    /\ core' = [core EXCEPT ![p] = NoCore]
    /\ pc' = [pc EXCEPT ![p] = "out"]
    /\ UNCHANGED <<global_epoch, nexttofree_epoch, lists, epoch, depth, refs, worker_vars, obj_vars>>

\* A lookup inside an epoch finds an object that is still linked.
lookup(p, o) ==
    /\ pc[p] = "in"
    /\ where[o] = "linked"
    /\ refs' = [refs EXCEPT ![p] = @ \union {o}]
    /\ UNCHANGED <<global_epoch, core_vars, handle, pc, worker_vars, obj_vars>>

\* A remove takes the object out of its structure and then delays its free.
unlink(o) ==
    /\ where[o] = "linked"
    /\ where' = [where EXCEPT ![o] = "unlinked"]
    /\ UNCHANGED <<global_epoch, core_vars, proc_vars, worker_vars, rcu_epoch, delayer>>

\* gc_delayed by a process running on core c; the panic of a slot that
\* serves another epoch is the invariant SlotReady.
gc_delayed(o, c) ==
    LET slot == global_epoch % NEPOCH IN
    /\ where[o] = "unlinked"
    /\ LockFree(c)
    /\ delayed_epoch[c][slot] = global_epoch
    /\ delayed' = [delayed EXCEPT ![c][slot] = @ \union {o}]
    /\ where' = [where EXCEPT ![o] = "delayed"]
    /\ rcu_epoch' = [rcu_epoch EXCEPT ![o] = global_epoch]
    /\ delayer' = [delayer EXCEPT ![o] = c]
    /\ UNCHANGED <<global_epoch, nexttofree_epoch, min_epoch, delayed_epoch, proclist, proc_vars, worker_vars>>

-----------------------------------------------------------------------------
(* The gc worker of core c *)

\* Mutant of gc_worker: min_epoch moves although processes are in an epoch.
gc_worker_always(c) ==
    /\ wpc[c] = "sleep"
    /\ min_epoch' = [min_epoch EXCEPT ![c] = global_epoch]
    /\ i' = [i EXCEPT ![c] = nexttofree_epoch[c]]
    /\ wpc' = [wpc EXCEPT ![c] = "loop"]
    /\ UNCHANGED <<global_epoch, nexttofree_epoch, lists, proclist, proc_vars, freeing, scan, obj_vars>>

\* Woken with lock_ held; an idle core moves its min_epoch up.
gc_worker(c) ==
    /\ wpc[c] = "sleep"
    /\ min_epoch' = [min_epoch EXCEPT ![c] = IF proclist[c] = {} THEN global_epoch ELSE @]
    /\ i' = [i EXCEPT ![c] = nexttofree_epoch[c]]
    /\ wpc' = [wpc EXCEPT ![c] = "loop"]
    /\ UNCHANGED <<global_epoch, nexttofree_epoch, lists, proclist, proc_vars, freeing, scan, obj_vars>>

\* Mutant of do_gc_take: the loop runs to min_epoch inclusive.
do_gc_take_leq(c) ==
    /\ wpc[c] = "loop"
    /\ i[c] <= min_epoch[c]
    /\ freeing' = [freeing EXCEPT ![c] = delayed[c][i[c] % NEPOCH]]
    /\ wpc' = [wpc EXCEPT ![c] = "free"]
    /\ UNCHANGED <<global_epoch, core_vars, proc_vars, i, scan, obj_vars>>

\* Mutant of do_gc_take: i is incremented before the list is read.
do_gc_take_next(c) ==
    /\ wpc[c] = "loop"
    /\ i[c] < min_epoch[c]
    /\ freeing' = [freeing EXCEPT ![c] = delayed[c][(i[c] + 1) % NEPOCH]]
    /\ wpc' = [wpc EXCEPT ![c] = "free"]
    /\ UNCHANGED <<global_epoch, core_vars, proc_vars, i, scan, obj_vars>>

\* The loop of do_gc: take the head of list i and give up lock_ ...
do_gc_take(c) ==
    /\ wpc[c] = "loop"
    /\ i[c] < min_epoch[c]
    /\ freeing' = [freeing EXCEPT ![c] = delayed[c][i[c] % NEPOCH]]
    /\ wpc' = [wpc EXCEPT ![c] = "free"]
    /\ UNCHANGED <<global_epoch, core_vars, proc_vars, i, scan, obj_vars>>

\* ... free its objects one by one ...
gc_free(c, o) ==
    /\ wpc[c] = "free"
    /\ o \in freeing[c]
    /\ freeing' = [freeing EXCEPT ![c] = @ \ {o}]
    /\ where' = [where EXCEPT ![o] = "freed"]
    /\ UNCHANGED <<global_epoch, core_vars, proc_vars, wpc, i, scan, rcu_epoch, delayer>>

\* Mutant of do_gc_recycle: i is incremented before the list is recycled.
do_gc_recycle_next(c) ==
    /\ wpc[c] = "free"
    /\ freeing[c] = {}
    /\ delayed' = [delayed EXCEPT ![c][(i[c] + 1) % NEPOCH] = {}]
    /\ delayed_epoch' = [delayed_epoch EXCEPT ![c][(i[c] + 1) % NEPOCH] = @ + NEPOCH]
    /\ i' = [i EXCEPT ![c] = @ + 1]
    /\ wpc' = [wpc EXCEPT ![c] = "loop"]
    /\ UNCHANGED <<global_epoch, nexttofree_epoch, min_epoch, proclist, proc_vars, freeing, scan, obj_vars>>

\* ... and, with lock_ again, recycle the list for epoch + NEPOCH.
do_gc_recycle(c) ==
    /\ wpc[c] = "free"
    /\ freeing[c] = {}
    /\ delayed' = [delayed EXCEPT ![c][i[c] % NEPOCH] = {}]
    /\ delayed_epoch' = [delayed_epoch EXCEPT ![c][i[c] % NEPOCH] = @ + NEPOCH]
    /\ i' = [i EXCEPT ![c] = @ + 1]
    /\ wpc' = [wpc EXCEPT ![c] = "loop"]
    /\ UNCHANGED <<global_epoch, nexttofree_epoch, min_epoch, proclist, proc_vars, freeing, scan, obj_vars>>

do_gc_done(c) ==
    /\ wpc[c] = "loop"
    /\ i[c] >= min_epoch[c]
    /\ nexttofree_epoch' = [nexttofree_epoch EXCEPT ![c] = i[c]]
    /\ wpc' = [wpc EXCEPT ![c] = "inc"]
    /\ UNCHANGED <<global_epoch, min_epoch, lists, proclist, proc_vars, i, freeing, scan, obj_vars>>

\* gc_inc_global_epoch: tryacquire of gc_lock, else give up.
inc_begin(c) ==
    /\ wpc[c] = "inc"
    /\ IF gc_lock = NoCore
       THEN /\ gc_lock' = c /\ scan_c' = 0
            /\ minfree' = global_epoch /\ minepoch' = global_epoch
            /\ wpc' = [wpc EXCEPT ![c] = "cmp_free"]
       ELSE /\ UNCHANGED scan
            /\ wpc' = [wpc EXCEPT ![c] = "sleep"]
    /\ UNCHANGED <<global_epoch, core_vars, proc_vars, i, freeing, obj_vars>>

\* The comparison and the assignment of the scan read the other core's
\* counter twice, and neither core's lock protects the reads.
scan_cmp_free(c) ==
    /\ wpc[c] = "cmp_free"
    /\ wpc' = [wpc EXCEPT ![c] =
           IF nexttofree_epoch[scan_c] < minfree THEN "set_free" ELSE "cmp_min"]
    /\ UNCHANGED <<global_epoch, core_vars, proc_vars, i, freeing, scan, obj_vars>>

scan_set_free(c) ==
    /\ wpc[c] = "set_free"
    /\ minfree' = nexttofree_epoch[scan_c]
    /\ wpc' = [wpc EXCEPT ![c] = "cmp_min"]
    /\ UNCHANGED <<gc_lock, scan_c, minepoch, global_epoch, core_vars, proc_vars, i, freeing, obj_vars>>

\* Where the scan goes after core scan_c.
NextScan == IF scan_c + 1 < NCPU THEN "cmp_free" ELSE "decide"

scan_cmp_min(c) ==
    /\ wpc[c] = "cmp_min"
    /\ IF min_epoch[scan_c] < minepoch
       THEN wpc' = [wpc EXCEPT ![c] = "set_min"] /\ UNCHANGED scan_c
       ELSE wpc' = [wpc EXCEPT ![c] = NextScan] /\ scan_c' = scan_c + 1
    /\ UNCHANGED <<gc_lock, minfree, minepoch, global_epoch, core_vars, proc_vars, i, freeing, obj_vars>>

scan_set_min(c) ==
    /\ wpc[c] = "set_min"
    /\ minepoch' = min_epoch[scan_c]
    /\ scan_c' = scan_c + 1
    /\ wpc' = [wpc EXCEPT ![c] = NextScan]
    /\ UNCHANGED <<gc_lock, minfree, global_epoch, core_vars, proc_vars, i, freeing, obj_vars>>

\* Mutant of MayAdvance: the lists that are not freed yet are ignored.
MayAdvance_unfreed == minepoch + 2 > global_epoch

\* Mutant of MayAdvance: the second test of the epochs is left out.
MayAdvance_late == minfree + 2 >= global_epoch /\ minepoch + 2 >= global_epoch

\* (minfree < global-2) || (minepoch < global-2) leaves, minepoch > global-2
\* increments.
MayAdvance == minfree + 2 >= global_epoch /\ minepoch + 2 > global_epoch

\* Mutant of inc_end: gc_lock stays held when the epoch does not advance.
inc_end_held(c) ==
    /\ wpc[c] = "decide"
    /\ global_epoch' = IF MayAdvance /\ global_epoch < MaxEpoch THEN global_epoch + 1
                                                               ELSE global_epoch
    /\ gc_lock' = IF MayAdvance THEN NoCore ELSE gc_lock
    /\ wpc' = [wpc EXCEPT ![c] = "sleep"]
    /\ UNCHANGED <<core_vars, proc_vars, i, freeing, scan_c, minfree, minepoch, obj_vars>>

inc_end(c) ==
    /\ wpc[c] = "decide"
    /\ global_epoch' = IF MayAdvance /\ global_epoch < MaxEpoch THEN global_epoch + 1
                                                               ELSE global_epoch
    /\ gc_lock' = NoCore /\ scan_c' = 0 /\ minfree' = 0 /\ minepoch' = 0
    /\ wpc' = [wpc EXCEPT ![c] = "sleep"]
    /\ UNCHANGED <<core_vars, proc_vars, i, freeing, obj_vars>>

-----------------------------------------------------------------------------
Worker(c) == \/ gc_worker(c) \/ do_gc_take(c) \/ (\E o \in Objs : gc_free(c, o))
             \/ do_gc_recycle(c) \/ do_gc_done(c) \/ inc_begin(c)
             \/ scan_cmp_free(c) \/ scan_set_free(c) \/ scan_cmp_min(c)
             \/ scan_set_min(c) \/ inc_end(c)

Leave(p) == gc_end_epoch(p) \/ gc_end_locked(p)

Process(p) == \/ gc_begin_epoch(p) \/ Leave(p)
              \/ (\E c \in Cores : gc_begin_locked(p, c))
              \/ (\E o \in Objs : lookup(p, o))

Remove == \E o \in Objs : unlink(o) \/ (\E c \in Cores : gc_delayed(o, c))

Next == (\E p \in Procs : Process(p)) \/ (\E c \in Cores : Worker(c)) \/ Remove

Spec == Init /\ [][Next]_vars

\* gc_worker sleeps with a timeout (GCINTERVAL), so every worker keeps
\* running; scoped_gc_epoch leaves every epoch it entered, the outermost
\* included; a worker sleeps between rounds, so lock_ is not kept from the
\* process that wants it in gc_end_epoch for ever.
Fairness == /\ \A c \in Cores : WF_vars(Worker(c))
            /\ \A p \in Procs : /\ WF_vars(gc_end_epoch(p))
                                /\ SF_vars(\/ depth[p] = 1 /\ gc_end_epoch(p)
                                           \/ gc_end_locked(p))

FairSpec == Spec /\ Fairness

-----------------------------------------------------------------------------
(* Properties *)

TypeOK ==
    /\ global_epoch \in Nat
    /\ nexttofree_epoch \in [Cores -> Nat]
    /\ min_epoch \in [Cores -> Nat]
    /\ delayed \in [Cores -> [0 .. NEPOCH - 1 -> SUBSET Objs]]
    /\ delayed_epoch \in [Cores -> [0 .. NEPOCH - 1 -> Nat]]
    /\ proclist \in [Cores -> SUBSET Procs]
    /\ epoch \in [Procs -> Nat]
    /\ depth \in [Procs -> Nat]
    /\ core \in [Procs -> Cores \union {NoCore}]
    /\ pc \in [Procs -> {"out", "begin", "in", "end"}]
    /\ refs \in [Procs -> SUBSET Objs]
    /\ wpc \in [Cores -> {"sleep", "loop", "free", "inc", "cmp_free", "set_free",
                          "cmp_min", "set_min", "decide"}]
    /\ i \in [Cores -> Nat]
    /\ freeing \in [Cores -> SUBSET Objs]
    /\ gc_lock \in Cores \union {NoCore}
    /\ scan_c \in Nat /\ minfree \in Nat /\ minepoch \in Nat
    /\ where \in [Objs -> {"linked", "unlinked", "delayed", "freed"}]
    /\ rcu_epoch \in [Objs -> Nat]
    /\ delayer \in [Objs -> Cores \union {NoCore}]

\* "nexttofree_epoch << min_epoch << global_epoch" (gc.cc:56), although the
\* three are advanced by different threads and read without locks.
EpochOrder == \A c \in Cores : /\ nexttofree_epoch[c] <= min_epoch[c]
                              /\ min_epoch[c] <= global_epoch

\* "each core has no processes in an epoch <= global - 2" when the epoch
\* advances (gc.cc:88-90): no process is more than two epochs behind, even
\* though the scan reads each counter twice and so may end with a minepoch
\* above the counter of a core it has read before.
EpochLag == /\ \A c \in Cores : global_epoch <= min_epoch[c] + 2
            /\ \A p \in Procs : pc[p] \in {"in", "end"} => global_epoch <= epoch[p] + 2

\* gc_delayed never panics (gc.cc:345-350): whenever it can have a core's
\* lock_, the slot of the current epoch serves the current epoch, even while
\* that core's worker is half way through recycling its lists.
SlotReady == \A c \in Cores :
    LockFree(c) => delayed_epoch[c][global_epoch % NEPOCH] = global_epoch

\* Nothing is lost: do_gc clears a list without lock_ held since it read the
\* list's head (gc.cc:226-235), and still every delayed object is on a list
\* of the core it was delayed on until it is freed.
NoneLost == \A o \in Objs : where[o] = "delayed" =>
    \E k \in 0 .. NEPOCH - 1 : /\ o \in delayed[delayer[o]][k]
                               /\ delayed_epoch[delayer[o]][k] = rcu_epoch[o]

\* gc_free's assertion (gc.cc:201-207), and no object is freed twice.
FreeOnce == \A c \in Cores : \A o \in freeing[c] :
    where[o] = "delayed" /\ rcu_epoch[o] <= i[c]

\* A process inside an epoch keeps the objects it looked up, as far as they
\* were delayed on the core where its epoch began: that core's min_epoch
\* does not pass the process.
LocalGrace == \A p \in Procs : \A o \in refs[p] :
    where[o] = "freed" => delayer[o] # core[p]

\* What an RCU read section promises (gc.cc:18, "A simple RCU
\* implementation"): no object found in an epoch is freed before its end.
GracePeriod == \A p \in Procs : \A o \in refs[p] : where[o] # "freed"

\* No object delayed before the bound stays so for ever: it is freed, the only
\* way on from there.
EventuallyFreed == \A o \in Objs :
    []<>~(where[o] = "delayed" /\ rcu_epoch[o] < MaxEpoch)
=============================================================================
