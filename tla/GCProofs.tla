----------------------------- MODULE GCProofs -----------------------------
(***************************************************************************)
(* TLAPS proofs about GC, for every number of cores, processes, objects    *)
(* and every epoch bound.                                                  *)
(***************************************************************************)
EXTENDS GC, TLAPS

Locked == {"loop", "free"}
Scanning == {"cmp_free", "set_free", "cmp_min", "set_min", "decide"}

\* The types of what inc_global_epoch reads and writes.
Scanned == /\ global_epoch \in Nat /\ scan_c \in Nat /\ minfree \in Nat /\ minepoch \in Nat
           /\ nexttofree_epoch \in [Cores -> Nat] /\ min_epoch \in [Cores -> Nat]

\* The lowest epoch that core c still has a list for.
Lowest(c) == IF wpc[c] \in Locked THEN i[c] ELSE nexttofree_epoch[c]

\* do_gc's loop variable runs from nexttofree_epoch to min_epoch.
LoopInv == \A c \in Cores :
    /\ wpc[c] \in Locked => nexttofree_epoch[c] <= i[c] /\ i[c] <= min_epoch[c]
    /\ wpc[c] = "free" => i[c] < min_epoch[c]

\* A process inside an epoch is on the list of one core, whose min_epoch does
\* not exceed the process's epoch.
ProcInv ==
    /\ \A p \in Procs : pc[p] \in {"in", "end"} =>
          core[p] \in Cores /\ p \in proclist[core[p]]
    /\ \A p \in Procs : IF pc[p] \in {"begin", "in"} THEN depth[p] >= 1 ELSE depth[p] = 0
    /\ \A c \in Cores : \A p \in proclist[c] :
          /\ pc[p] \in {"in", "end"}
          /\ core[p] = c
          /\ min_epoch[c] <= epoch[p]
          /\ epoch[p] <= global_epoch

\* The lists of a core serve NEPOCH consecutive epochs.
SlotInv == \A c \in Cores : \A e \in Nat :
    Lowest(c) <= e /\ e < Lowest(c) + NEPOCH => delayed_epoch[c][e % NEPOCH] = e

\* A list keeps its index when it is recycled.
SlotMod == \A c \in Cores : \A k \in 0 .. NEPOCH - 1 : delayed_epoch[c][k] % NEPOCH = k

\* The global epoch stays within the lists of every core.
GlobalInv == \A c \in Cores : global_epoch <= nexttofree_epoch[c] + 3

\* What the holder of gc_lock has established about the cores it has read.
\* minfree and minepoch need not be lower bounds (the second read of
\* a counter may return more than the first): what holds is that a scan which
\* ends with permission to advance has found every core far enough.
ScanInv ==
    /\ \A c \in Cores : wpc[c] \in Scanning <=> gc_lock = c
    /\ \A c \in Cores : wpc[c] \in Scanning =>
          /\ \A k \in Cores : k < scan_c =>
                /\ minfree + 2 >= global_epoch => nexttofree_epoch[k] + 2 >= global_epoch
                /\ minepoch + 1 >= global_epoch => min_epoch[k] + 1 >= global_epoch
          /\ IF wpc[c] = "decide" THEN scan_c = NCPU ELSE scan_c \in Cores
          /\ wpc[c] \in {"cmp_min", "set_min"} /\ minfree + 2 >= global_epoch =>
                nexttofree_epoch[scan_c] + 2 >= global_epoch
          /\ wpc[c] = "set_free" => minfree + 2 >= global_epoch
          /\ wpc[c] = "set_min" => minepoch + 1 >= global_epoch

\* Objects on the lists are delayed; only the list that a worker is freeing
\* may hold freed ones.
ListInv == \A c \in Cores : \A k \in 0 .. NEPOCH - 1 : \A o \in delayed[c][k] :
    /\ delayer[o] = c
    /\ rcu_epoch[o] = delayed_epoch[c][k]
    /\ \/ where[o] = "delayed"
       \/ where[o] = "freed" /\ wpc[c] = "free" /\ k = i[c] % NEPOCH

\* A worker in gc_free has still to free the delayed objects of its list.
FreeInv == \A c \in Cores :
    /\ freeing[c] # {} => wpc[c] = "free"
    /\ wpc[c] = "free" =>
          freeing[c] = {o \in delayed[c][i[c] % NEPOCH] : where[o] = "delayed"}

\* A freed object was delayed in an epoch that its core has left.
FreedInv == \A o \in Objs : where[o] \in {"delayed", "freed"} =>
    /\ delayer[o] \in Cores
    /\ rcu_epoch[o] <= global_epoch
    /\ where[o] = "freed" => rcu_epoch[o] < min_epoch[delayer[o]]

\* A reader's epoch is not above the epoch in which what it found was delayed.
RefsInv == \A p \in Procs : \A o \in refs[p] :
    /\ pc[p] = "in"
    /\ where[o] \in {"delayed", "freed"} => epoch[p] <= rcu_epoch[o]

IInv == /\ TypeOK /\ EpochOrder /\ EpochLag /\ LoopInv /\ ProcInv /\ SlotInv /\ SlotMod /\ GlobalInv
        /\ ScanInv /\ ListInv /\ FreeInv /\ FreedInv /\ NoneLost /\ RefsInv

-----------------------------------------------------------------------------
\* The index of an epoch's list is the index of a list.
LEMMA ModRange == \A n \in Nat : n % NEPOCH \in 0 .. NEPOCH - 1
  BY DEF NEPOCH

\* An epoch and the one NEPOCH later use the same list; those between do not.
LEMMA ModStep == \A n \in Nat : (n + NEPOCH) % NEPOCH = n % NEPOCH
  BY DEF NEPOCH

\* Two epochs less than NEPOCH apart use different lists.
LEMMA ModDistinct == \A m, n \in Nat : m < n /\ n < m + NEPOCH => n % NEPOCH # m % NEPOCH
  BY DEF NEPOCH

\* The cores are numbered from 0; NoCore is none of them.
LEMMA CoreFacts ==
    /\ 0 \in Cores /\ NoCore \notin Cores
    /\ \A k \in Cores : k \in Nat /\ k < NCPU
    /\ \A k \in Cores : (k + 1 < NCPU => k + 1 \in Cores) /\ (~(k + 1 < NCPU) => k + 1 = NCPU)
    /\ \A j, k \in Cores : j < k + 1 => j < k \/ j = k
  BY GCAssumption DEF Cores, NoCore

\* What ListInv says of one object on one list.
LEMMA ListFact ==
    ASSUME ListInv, NEW d \in Cores, NEW k \in 0 .. NEPOCH - 1, NEW x \in delayed[d][k]
    PROVE  /\ delayer[x] = d /\ rcu_epoch[x] = delayed_epoch[d][k]
           /\ \/ where[x] = "delayed"
              \/ where[x] = "freed" /\ wpc[d] = "free" /\ k = i[d] % NEPOCH
  BY DEF ListInv

\* A scan that ends with permission to advance has found every core far enough.
LEMMA ScanResult ==
    ASSUME IInv, NEW c \in Cores, wpc[c] = "decide", MayAdvance, NEW k \in Cores
    PROVE  nexttofree_epoch[k] + 2 >= global_epoch /\ min_epoch[k] + 1 >= global_epoch
<1>1. scan_c = NCPU /\ k < scan_c
  BY Zenon, CoreFacts DEF IInv, ScanInv, Scanning
<1>2. minfree + 2 >= global_epoch /\ minepoch + 1 >= global_epoch
  BY DEF IInv, TypeOK, MayAdvance
<1> QED BY Zenon, <1>1, <1>2 DEF IInv, ScanInv, Scanning

\* A worker outside do_gc keeps outside of it.
Aside == \A c \in Cores : wpc'[c] = wpc[c] \/ (wpc[c] \notin Locked /\ wpc'[c] \notin Locked)

\* A part of the invariant is kept by a step that leaves alone what it reads.
LEMMA Frames ==
    /\ EpochOrder /\ UNCHANGED <<nexttofree_epoch, min_epoch, global_epoch>> => EpochOrder'
    /\ EpochLag /\ UNCHANGED <<global_epoch, min_epoch, pc, epoch>> => EpochLag'
    /\ LoopInv /\ Aside /\ UNCHANGED <<nexttofree_epoch, min_epoch, i>> => LoopInv'
    /\ ProcInv /\ UNCHANGED <<pc, core, proclist, depth, min_epoch, epoch, global_epoch>> => ProcInv'
    /\ SlotInv /\ Aside /\ UNCHANGED <<i, nexttofree_epoch, delayed_epoch>> => SlotInv'
    /\ SlotMod /\ UNCHANGED <<delayed_epoch>> => SlotMod'
    /\ GlobalInv /\ UNCHANGED <<global_epoch, nexttofree_epoch>> => GlobalInv'
    /\ ScanInv /\ UNCHANGED <<wpc, gc_lock, scan_c, minfree, minepoch, global_epoch, nexttofree_epoch, min_epoch>> => ScanInv'
    /\ ListInv /\ Aside /\ UNCHANGED <<delayed, delayed_epoch, delayer, rcu_epoch, where, i>> => ListInv'
    /\ FreeInv /\ Aside /\ UNCHANGED <<freeing, delayed, i, where>> => FreeInv'
    /\ FreedInv /\ UNCHANGED <<where, delayer, rcu_epoch, global_epoch, min_epoch>> => FreedInv'
    /\ NoneLost /\ UNCHANGED <<where, delayed, delayed_epoch, delayer, rcu_epoch>> => NoneLost'
    /\ RefsInv /\ UNCHANGED <<refs, pc, where, epoch, rcu_epoch>> => RefsInv'
<1>1. EpochOrder /\ UNCHANGED <<nexttofree_epoch, min_epoch, global_epoch>> => EpochOrder'
  BY Zenon DEF EpochOrder
<1>2. EpochLag /\ UNCHANGED <<global_epoch, min_epoch, pc, epoch>> => EpochLag'
  BY Zenon DEF EpochLag
<1>3. LoopInv /\ Aside /\ UNCHANGED <<nexttofree_epoch, min_epoch, i>> => LoopInv'
  BY Zenon DEF LoopInv, Locked, Aside
<1>4. ProcInv /\ UNCHANGED <<pc, core, proclist, depth, min_epoch, epoch, global_epoch>> => ProcInv'
  BY ZenonT(60) DEF ProcInv
<1>5. SlotInv /\ Aside /\ UNCHANGED <<i, nexttofree_epoch, delayed_epoch>> => SlotInv'
  BY Zenon DEF SlotInv, Lowest, Locked, Aside
<1>6. SlotMod /\ UNCHANGED <<delayed_epoch>> => SlotMod'
  BY Zenon DEF SlotMod
<1>7. GlobalInv /\ UNCHANGED <<global_epoch, nexttofree_epoch>> => GlobalInv'
  BY Zenon DEF GlobalInv
<1>8. ScanInv /\ UNCHANGED <<wpc, gc_lock, scan_c, minfree, minepoch, global_epoch, nexttofree_epoch, min_epoch>> => ScanInv'
  BY Zenon DEF ScanInv, Scanning
<1>9. ListInv /\ Aside /\ UNCHANGED <<delayed, delayed_epoch, delayer, rcu_epoch, where, i>> => ListInv'
  BY DEF ListInv, Aside, Locked
<1>10. FreeInv /\ Aside /\ UNCHANGED <<freeing, delayed, i, where>> => FreeInv'
  BY DEF FreeInv, Aside, Locked
<1>11. FreedInv /\ UNCHANGED <<where, delayer, rcu_epoch, global_epoch, min_epoch>> => FreedInv'
  BY Zenon DEF FreedInv
<1>12. NoneLost /\ UNCHANGED <<where, delayed, delayed_epoch, delayer, rcu_epoch>> => NoneLost'
  BY Zenon DEF NoneLost
<1>13. RefsInv /\ UNCHANGED <<refs, pc, where, epoch, rcu_epoch>> => RefsInv'
  BY Zenon DEF RefsInv
<1> QED BY Zenon, <1>1, <1>2, <1>3, <1>4, <1>5, <1>6, <1>7, <1>8, <1>9, <1>10, <1>11, <1>12, <1>13

\* Raising the depth count (gc.cc:362) keeps the invariant.
LEMMA Keep_gc_begin_epoch ==
    ASSUME IInv, NEW p \in Procs, gc_begin_epoch(p)
    PROVE  IInv'
<1>1. UNCHANGED <<global_epoch, nexttofree_epoch, min_epoch, delayed, delayed_epoch,
                  proclist, epoch, core, refs, wpc, i, freeing, gc_lock, scan_c,
                  minfree, minepoch, where, rcu_epoch, delayer>>
  BY Zenon DEF gc_begin_epoch, core_vars, worker_vars, obj_vars, lists, scan
<1>2. Aside
  BY Zenon, <1>1 DEF Aside
<1>3. EpochOrder' /\ LoopInv' /\ SlotInv' /\ SlotMod' /\ GlobalInv' /\ ScanInv' /\
      ListInv' /\ FreeInv' /\ FreedInv' /\ NoneLost'
  BY Zenon, <1>1, <1>2, Frames DEF IInv
<1>4. TypeOK'
  BY <1>1 DEF IInv, gc_begin_epoch, TypeOK
<1>5. EpochLag'
  BY <1>1 DEF IInv, gc_begin_epoch, TypeOK, EpochLag, EpochOrder, ProcInv
<1>6. ProcInv'
  BY <1>1 DEF IInv, gc_begin_epoch, TypeOK, ProcInv, EpochOrder
<1>7. RefsInv'
  <2>1. /\ pc[p] = "in" => pc'[p] = "in"
        /\ \A q \in Procs \ {p} : pc'[q] = pc[q]
        /\ UNCHANGED <<refs, epoch, where, rcu_epoch>>
    BY DEF IInv, TypeOK, ProcInv, gc_begin_epoch, obj_vars
  <2> QED BY Zenon, <2>1 DEF IInv, RefsInv
<1> QED BY Zenon, <1>3, <1>4, <1>5, <1>6, <1>7 DEF IInv

\* Entering an epoch on a core (gc.cc:368-374) keeps the invariant.
LEMMA Keep_gc_begin_locked ==
    ASSUME IInv, NEW p \in Procs, NEW c \in Cores, gc_begin_locked(p, c)
    PROVE  IInv'
<1>1. UNCHANGED <<global_epoch, nexttofree_epoch, min_epoch, delayed, delayed_epoch,
                  depth, refs, wpc, i, freeing, gc_lock, scan_c, minfree, minepoch,
                  where, rcu_epoch, delayer>>
  BY Zenon DEF gc_begin_locked, lists, worker_vars, obj_vars, scan
<1>2. Aside
  BY Zenon, <1>1 DEF Aside
<1>3. EpochOrder' /\ LoopInv' /\ SlotInv' /\ SlotMod' /\ GlobalInv' /\ ScanInv' /\
      ListInv' /\ FreeInv' /\ FreedInv' /\ NoneLost'
  BY Zenon, <1>1, <1>2, Frames DEF IInv
<1>4. TypeOK'
  BY Zenon, <1>1 DEF IInv, gc_begin_locked, TypeOK
<1>5. EpochLag'
  BY <1>1 DEF IInv, gc_begin_locked, TypeOK, EpochLag, EpochOrder, ProcInv
<1>6. ProcInv'
  BY <1>1 DEF IInv, gc_begin_locked, TypeOK, ProcInv, EpochOrder
<1>7. RefsInv'
  BY ZenonT(60), <1>1 DEF IInv, gc_begin_locked, TypeOK, RefsInv
<1> QED BY Zenon, <1>3, <1>4, <1>5, <1>6, <1>7 DEF IInv

\* Lowering the depth count (gc.cc:383) keeps the invariant.
LEMMA Keep_gc_end_epoch ==
    ASSUME IInv, NEW p \in Procs, gc_end_epoch(p)
    PROVE  IInv'
<1>1. UNCHANGED <<global_epoch, nexttofree_epoch, min_epoch, delayed, delayed_epoch,
                  proclist, epoch, core, wpc, i, freeing, gc_lock, scan_c, minfree,
                  minepoch, where, rcu_epoch, delayer>>
  BY Zenon DEF gc_end_epoch, core_vars, worker_vars, obj_vars, lists, scan
<1>2. Aside
  BY Zenon, <1>1 DEF Aside
<1>3. EpochOrder' /\ LoopInv' /\ SlotInv' /\ SlotMod' /\ GlobalInv' /\ ScanInv' /\
      ListInv' /\ FreeInv' /\ FreedInv' /\ NoneLost'
  BY Zenon, <1>1, <1>2, Frames DEF IInv
<1>4. TypeOK'
  <2>1. depth[p] \in Nat /\ depth[p] >= 1
    BY Zenon DEF IInv, TypeOK, ProcInv, gc_end_epoch
  <2>2. depth[p] - 1 \in Nat
    BY <2>1
  <2> QED BY Zenon, <1>1, <2>2 DEF IInv, gc_end_epoch, TypeOK
<1>5. EpochLag'
  BY <1>1 DEF IInv, gc_end_epoch, TypeOK, EpochLag, EpochOrder, ProcInv
<1>6. ProcInv'
  BY <1>1 DEF IInv, gc_end_epoch, TypeOK, ProcInv, EpochOrder
<1>7. RefsInv'
  BY Zenon, <1>1 DEF IInv, gc_end_epoch, TypeOK, RefsInv
<1> QED BY Zenon, <1>3, <1>4, <1>5, <1>6, <1>7 DEF IInv

\* Leaving the list of the core and recomputing min_epoch (gc.cc:395) keeps it.
LEMMA Keep_gc_end_locked ==
    ASSUME IInv, NEW p \in Procs, gc_end_locked(p)
    PROVE  IInv'
<1>1. UNCHANGED <<global_epoch, nexttofree_epoch, delayed, delayed_epoch, epoch, depth,
                  refs, wpc, i, freeing, gc_lock, scan_c, minfree, minepoch, where,
                  rcu_epoch, delayer>>
  BY Zenon DEF gc_end_locked, lists, worker_vars, obj_vars, scan
<1>2. Aside
  BY Zenon, <1>1 DEF Aside
<1>3. SlotInv' /\ SlotMod' /\ GlobalInv' /\ ListInv' /\ FreeInv' /\ NoneLost'
  BY Zenon, <1>1, <1>2, Frames DEF IInv
<1>4. TypeOK'
  BY <1>1 DEF IInv, gc_end_locked, TypeOK, ProcInv, dequeue
<1>5. EpochOrder'
  BY <1>1 DEF IInv, gc_end_locked, TypeOK, EpochOrder, LoopInv, Locked, ProcInv, dequeue
<1>6. EpochLag'
  BY <1>1 DEF IInv, gc_end_locked, TypeOK, EpochLag, EpochOrder, ProcInv, dequeue
<1>7. LoopInv'
  <2>1. \A k \in Cores : min_epoch'[k] \in Nat /\ min_epoch[k] <= min_epoch'[k]
    BY DEF IInv, TypeOK, EpochOrder, ProcInv, gc_end_locked, dequeue
  <2> QED BY <1>1, <2>1 DEF IInv, TypeOK, LoopInv
<1>8. ProcInv'
  BY <1>1 DEF IInv, gc_end_locked, TypeOK, ProcInv, EpochOrder, dequeue
<1>9. ScanInv'
  <2>1. \A k \in Cores : min_epoch'[k] \in Nat /\ min_epoch[k] <= min_epoch'[k]
    BY DEF IInv, TypeOK, EpochOrder, ProcInv, gc_end_locked, dequeue
  <2>2. UNCHANGED <<wpc, gc_lock, scan_c, minfree, minepoch, global_epoch, nexttofree_epoch>>
    BY Zenon DEF gc_end_locked, worker_vars, scan
  <2>3. ScanInv /\ Scanned
    BY Zenon DEF IInv, TypeOK, Scanned
  <2> QED BY <2>1, <2>2, <2>3 DEF ScanInv, Scanned
<1>10. FreedInv'
  BY <1>1 DEF IInv, gc_end_locked, TypeOK, FreedInv, EpochOrder, ProcInv, dequeue
<1>11. RefsInv'
  BY Zenon, <1>1 DEF IInv, gc_end_locked, TypeOK, RefsInv
<1> QED BY Zenon, <1>3, <1>4, <1>5, <1>6, <1>7, <1>8, <1>9, <1>10, <1>11 DEF IInv

\* A lookup inside an epoch keeps the invariant.
LEMMA Keep_lookup ==
    ASSUME IInv, NEW p \in Procs, NEW o \in Objs, lookup(p, o)
    PROVE  IInv'
<1>1. UNCHANGED <<global_epoch, nexttofree_epoch, min_epoch, delayed, delayed_epoch,
                  proclist, epoch, depth, core, pc, wpc, i, freeing, gc_lock, scan_c,
                  minfree, minepoch, where, rcu_epoch, delayer>>
  BY Zenon DEF lookup, core_vars, handle, worker_vars, obj_vars, lists, scan
<1>2. Aside
  BY Zenon, <1>1 DEF Aside
<1>3. EpochOrder' /\ EpochLag' /\ LoopInv' /\ ProcInv' /\ SlotInv' /\ SlotMod' /\
      GlobalInv' /\ ScanInv' /\ ListInv' /\ FreeInv' /\ FreedInv' /\ NoneLost'
  BY Zenon, <1>1, <1>2, Frames DEF IInv
<1>4. TypeOK'
  BY Zenon, <1>1 DEF IInv, lookup, TypeOK
<1>5. RefsInv'
  BY Zenon, <1>1 DEF IInv, lookup, TypeOK, RefsInv
<1> QED BY Zenon, <1>3, <1>4, <1>5 DEF IInv

\* Unlinking an object keeps the invariant.
LEMMA Keep_unlink ==
    ASSUME IInv, NEW o \in Objs, unlink(o)
    PROVE  IInv'
<1>1. UNCHANGED <<global_epoch, nexttofree_epoch, min_epoch, delayed, delayed_epoch,
                  proclist, epoch, depth, core, pc, refs, wpc, i, freeing, gc_lock,
                  scan_c, minfree, minepoch, rcu_epoch, delayer>>
  BY Zenon DEF unlink, core_vars, proc_vars, worker_vars, lists, handle, scan
<1>2. Aside
  BY Zenon, <1>1 DEF Aside
<1>3. EpochOrder' /\ EpochLag' /\ LoopInv' /\ ProcInv' /\ SlotInv' /\ SlotMod' /\
      GlobalInv' /\ ScanInv'
  BY Zenon, <1>1, <1>2, Frames DEF IInv
<1>4. TypeOK'
  BY Zenon, <1>1 DEF IInv, unlink, TypeOK
<1>5. ListInv'
  BY <1>1 DEF IInv, unlink, TypeOK, ListInv
<1>6. FreeInv'
  BY <1>1 DEF IInv, unlink, TypeOK, FreeInv
<1>7. FreedInv'
  BY Zenon, <1>1 DEF IInv, unlink, TypeOK, FreedInv, EpochOrder
<1>8. NoneLost'
  BY <1>1 DEF IInv, unlink, TypeOK, NoneLost
<1>9. RefsInv'
  BY Zenon, <1>1 DEF IInv, unlink, TypeOK, RefsInv
<1> QED BY Zenon, <1>3, <1>4, <1>5, <1>6, <1>7, <1>8, <1>9 DEF IInv

\* Putting an object on the list of the current epoch (gc.cc:353-355) keeps it.
LEMMA Keep_gc_delayed ==
    ASSUME IInv, NEW o \in Objs, NEW c \in Cores, gc_delayed(o, c)
    PROVE  IInv'
<1>1. UNCHANGED <<global_epoch, nexttofree_epoch, min_epoch, delayed_epoch, proclist,
                  epoch, depth, core, pc, refs, wpc, i, freeing, gc_lock, scan_c,
                  minfree, minepoch>>
  BY Zenon DEF gc_delayed, proc_vars, worker_vars, handle, scan
<1>2. Aside
  BY Zenon, <1>1 DEF Aside
<1>3. EpochOrder' /\ EpochLag' /\ LoopInv' /\ ProcInv' /\ SlotInv' /\ SlotMod' /\
      GlobalInv' /\ ScanInv'
  BY Zenon, <1>1, <1>2, Frames DEF IInv
<1>4. TypeOK'
  <2>1. global_epoch % NEPOCH \in 0 .. NEPOCH - 1
    BY Zenon, ModRange DEF IInv, TypeOK
  <2>2. delayed' \in [Cores -> [0 .. NEPOCH - 1 -> SUBSET Objs]]
    <3>1. delayed \in [Cores -> [0 .. NEPOCH - 1 -> SUBSET Objs]]
      BY Zenon DEF IInv, TypeOK
    <3>2. delayed' = [delayed EXCEPT ![c] = [delayed[c] EXCEPT ![global_epoch % NEPOCH] = @ \union {o}]]
      BY Zenon DEF gc_delayed
    <3> QED BY Zenon, <2>1, <3>1, <3>2
  <2> QED BY Zenon, <2>2 DEF IInv, TypeOK, gc_delayed, core_vars, lists, proc_vars, handle, worker_vars, scan
<1>5. ListInv'
  <2> DEFINE s == global_epoch % NEPOCH
  <2>1. s \in 0 .. NEPOCH - 1
    BY Zenon, ModRange DEF IInv, TypeOK
  <2>2. \A d \in Cores : \A k \in 0 .. NEPOCH - 1 :
           delayed'[d][k] = IF d = c /\ k = s THEN delayed[c][s] \union {o} ELSE delayed[d][k]
    BY Zenon, <2>1 DEF IInv, TypeOK, gc_delayed
  <2>3. \A d \in Cores : \A k \in 0 .. NEPOCH - 1 : o \notin delayed[d][k]
    BY Zenon DEF IInv, ListInv, gc_delayed
  <2>4. /\ delayed_epoch[c][s] = global_epoch
        /\ where' = [where EXCEPT ![o] = "delayed"]
        /\ rcu_epoch' = [rcu_epoch EXCEPT ![o] = global_epoch]
        /\ delayer' = [delayer EXCEPT ![o] = c]
        /\ UNCHANGED <<wpc, i, freeing, delayed_epoch>>
    BY Zenon DEF gc_delayed, worker_vars, scan
  <2> HIDE DEF s
  <2>5. /\ ListInv
        /\ where \in [Objs -> {"linked", "unlinked", "delayed", "freed"}]
        /\ rcu_epoch \in [Objs -> Nat] /\ delayer \in [Objs -> Cores \union {NoCore}]
    BY Zenon DEF IInv, TypeOK
  <2> QED BY <2>1, <2>2, <2>3, <2>4, <2>5 DEF ListInv
<1>6. FreeInv'
  <2> DEFINE s == global_epoch % NEPOCH
  <2>1. s \in 0 .. NEPOCH - 1
    BY Zenon, ModRange DEF IInv, TypeOK
  <2>2. \A d \in Cores : \A k \in 0 .. NEPOCH - 1 :
           delayed'[d][k] = IF d = c /\ k = s THEN delayed[c][s] \union {o} ELSE delayed[d][k]
    BY Zenon, <2>1 DEF IInv, TypeOK, gc_delayed
  <2>3. \A d \in Cores : \A k \in 0 .. NEPOCH - 1 : o \notin delayed[d][k]
    BY Zenon DEF IInv, ListInv, gc_delayed
  <2>4. /\ delayed_epoch[c][s] = global_epoch
        /\ where' = [where EXCEPT ![o] = "delayed"]
        /\ rcu_epoch' = [rcu_epoch EXCEPT ![o] = global_epoch]
        /\ delayer' = [delayer EXCEPT ![o] = c]
        /\ UNCHANGED <<wpc, i, freeing, delayed_epoch>>
    BY Zenon DEF gc_delayed, worker_vars, scan
  <2>5. wpc[c] = "free" => i[c] % NEPOCH # s
    <3>1. global_epoch \in Nat /\ i[c] \in Nat
      BY Zenon DEF IInv, TypeOK
    <3>2. wpc[c] = "free" => i[c] < global_epoch /\ global_epoch < i[c] + NEPOCH
      BY DEF IInv, TypeOK, LoopInv, Locked, EpochOrder, GlobalInv, NEPOCH
    <3> QED BY Zenon, <3>1, <3>2, ModDistinct
  <2>6. \A d \in Cores : i[d] % NEPOCH \in 0 .. NEPOCH - 1
    BY Zenon, ModRange DEF IInv, TypeOK
  <2> HIDE DEF s
  <2>7. ASSUME NEW d \in Cores, wpc[d] = "free"
        PROVE  delayed'[d][i[d] % NEPOCH] = delayed[d][i[d] % NEPOCH]
    BY Zenon, <2>2, <2>5, <2>6, <2>7
  <2>8. ASSUME NEW d \in Cores, wpc[d] = "free"
        PROVE  {x \in delayed[d][i[d] % NEPOCH] : where'[x] = "delayed"} =
               {x \in delayed[d][i[d] % NEPOCH] : where[x] = "delayed"}
    <3>1. \A x \in delayed[d][i[d] % NEPOCH] : x \in Objs /\ x # o
      <4>1. delayed[d] \in [0 .. NEPOCH - 1 -> SUBSET Objs]
        BY Zenon DEF IInv, TypeOK
      <4> QED BY Zenon, <2>3, <2>6, <4>1
    <3>2. \A x \in Objs : x # o => where'[x] = where[x]
      BY Zenon, <2>4 DEF IInv, TypeOK
    <3> QED BY Zenon, <3>1, <3>2
  <2> QED BY Zenon, <2>4, <2>7, <2>8 DEF IInv, FreeInv
<1>7. FreedInv'
  BY <1>1 DEF IInv, gc_delayed, TypeOK, FreedInv, EpochOrder
<1>8. NoneLost'
  <2> DEFINE s == global_epoch % NEPOCH
  <2>1. s \in 0 .. NEPOCH - 1
    BY Zenon, ModRange DEF IInv, TypeOK
  <2>2. \A d \in Cores : \A k \in 0 .. NEPOCH - 1 :
           delayed'[d][k] = IF d = c /\ k = s THEN delayed[c][s] \union {o} ELSE delayed[d][k]
    BY Zenon, <2>1 DEF IInv, TypeOK, gc_delayed
  <2>3. \A d \in Cores : \A k \in 0 .. NEPOCH - 1 : o \notin delayed[d][k]
    BY Zenon DEF IInv, ListInv, gc_delayed
  <2>4. /\ delayed_epoch[c][s] = global_epoch
        /\ where' = [where EXCEPT ![o] = "delayed"]
        /\ rcu_epoch' = [rcu_epoch EXCEPT ![o] = global_epoch]
        /\ delayer' = [delayer EXCEPT ![o] = c]
        /\ UNCHANGED <<wpc, i, freeing, delayed_epoch>>
    BY Zenon DEF gc_delayed, worker_vars, scan
  <2> HIDE DEF s
  <2> SUFFICES ASSUME NEW x \in Objs, where'[x] = "delayed"
               PROVE  \E k \in 0 .. NEPOCH - 1 : /\ x \in delayed'[delayer'[x]][k]
                                                  /\ delayed_epoch'[delayer'[x]][k] = rcu_epoch'[x]
    BY Zenon DEF NoneLost
  <2>5. CASE x = o
    <3>1. delayer'[x] = c /\ rcu_epoch'[x] = global_epoch
      BY Zenon, <2>4, <2>5 DEF IInv, TypeOK
    <3>2. x \in delayed'[c][s]
      BY Zenon, <2>1, <2>2, <2>5
    <3> QED BY Zenon, <2>1, <2>4, <3>1, <3>2
  <2>6. CASE x # o
    <3>1. delayer'[x] = delayer[x] /\ rcu_epoch'[x] = rcu_epoch[x] /\ where[x] = "delayed"
      BY Zenon, <2>4, <2>6 DEF IInv, TypeOK
    <3>2. delayer[x] \in Cores
      BY Zenon, <3>1 DEF IInv, FreedInv
    <3>3. PICK k \in 0 .. NEPOCH - 1 : /\ x \in delayed[delayer[x]][k]
                                       /\ delayed_epoch[delayer[x]][k] = rcu_epoch[x]
      BY Zenon, <3>1 DEF IInv, NoneLost
    <3>4. x \in delayed'[delayer[x]][k]
      BY Zenon, <2>2, <3>2, <3>3
    <3> QED BY Zenon, <2>4, <3>1, <3>3, <3>4
  <2> QED BY Zenon, <2>5, <2>6
<1>9. RefsInv'
  BY <1>1 DEF IInv, gc_delayed, TypeOK, RefsInv, ProcInv
<1> QED BY Zenon, <1>3, <1>4, <1>5, <1>6, <1>7, <1>8, <1>9 DEF IInv

\* A worker that wakes up and moves min_epoch (gc.cc:261-264) keeps the invariant.
LEMMA Keep_gc_worker ==
    ASSUME IInv, NEW c \in Cores, gc_worker(c)
    PROVE  IInv'
<1>1. UNCHANGED <<global_epoch, nexttofree_epoch, delayed, delayed_epoch, proclist,
                  epoch, depth, core, pc, refs, freeing, gc_lock, scan_c, minfree,
                  minepoch, where, rcu_epoch, delayer>>
  BY Zenon DEF gc_worker, lists, proc_vars, scan, obj_vars, handle
<1>2. SlotMod' /\ GlobalInv' /\ NoneLost' /\ RefsInv'
  BY Zenon, <1>1, Frames DEF IInv
<1>3. TypeOK'
  BY Zenon, <1>1 DEF IInv, gc_worker, TypeOK
<1>4. EpochOrder'
  BY <1>1 DEF IInv, gc_worker, TypeOK, EpochOrder, LoopInv, Locked, ProcInv
<1>5. EpochLag'
  BY <1>1 DEF IInv, gc_worker, TypeOK, EpochLag, EpochOrder, ProcInv
<1>6. LoopInv'
  BY <1>1 DEF IInv, gc_worker, TypeOK, LoopInv, Locked, EpochOrder
<1>7. ProcInv'
  <2>1. /\ ProcInv /\ EpochOrder /\ global_epoch \in Nat
        /\ min_epoch \in [Cores -> Nat] /\ epoch \in [Procs -> Nat]
        /\ proclist \in [Cores -> SUBSET Procs]
    BY Zenon DEF IInv, TypeOK
  <2> QED BY <1>1, <2>1 DEF gc_worker, ProcInv, EpochOrder
<1>8. SlotInv'
  <2>1. \A d \in Cores : Lowest(d)' = Lowest(d)
    BY Zenon DEF IInv, TypeOK, gc_worker, Lowest, Locked, EpochOrder, LoopInv, core_vars, lists, worker_vars, scan
  <2> QED BY Zenon, <2>1 DEF IInv, gc_worker, SlotInv, core_vars, lists
<1>9. ScanInv'
  <2>1. /\ ScanInv /\ Scanned
        /\ wpc \in [Cores -> {"sleep", "loop", "free", "inc"} \union Scanning]
    BY ZenonT(60) DEF IInv, TypeOK, Scanned, Scanning
  <2>2. \A k \in Cores : min_epoch[k] <= global_epoch
    BY Zenon DEF IInv, EpochOrder
  <2> QED BY <1>1, <2>1, <2>2 DEF gc_worker, ScanInv, Scanning, Scanned
<1>10. ListInv'
  BY <1>1 DEF IInv, gc_worker, TypeOK, ListInv
<1>11. FreeInv'
  BY <1>1 DEF IInv, gc_worker, TypeOK, FreeInv
<1>12. FreedInv'
  BY <1>1 DEF IInv, gc_worker, TypeOK, FreedInv, EpochOrder
<1> QED BY Zenon, <1>2, <1>3, <1>4, <1>5, <1>6, <1>7, <1>8, <1>9, <1>10, <1>11, <1>12 DEF IInv

\* Taking the head of a list (gc.cc:226-229) keeps the invariant.
LEMMA Keep_do_gc_take ==
    ASSUME IInv, NEW c \in Cores, do_gc_take(c)
    PROVE  IInv'
<1>1. UNCHANGED <<global_epoch, nexttofree_epoch, min_epoch, delayed, delayed_epoch,
                  proclist, epoch, depth, core, pc, refs, i, gc_lock, scan_c, minfree,
                  minepoch, where, rcu_epoch, delayer>>
  BY Zenon DEF do_gc_take, core_vars, proc_vars, scan, obj_vars, lists, handle
<1>2. EpochOrder' /\ EpochLag' /\ ProcInv' /\ SlotMod' /\ GlobalInv' /\ FreedInv' /\
      NoneLost' /\ RefsInv'
  BY Zenon, <1>1, Frames DEF IInv
<1>3. TypeOK'
  <2>1. delayed[c][i[c] % NEPOCH] \in SUBSET Objs
    <3>1. i[c] % NEPOCH \in 0 .. NEPOCH - 1
      BY Zenon, ModRange DEF IInv, TypeOK
    <3>2. delayed[c] \in [0 .. NEPOCH - 1 -> SUBSET Objs]
      BY Zenon DEF IInv, TypeOK
    <3> QED BY Zenon, <3>1, <3>2
  <2> QED BY Zenon, <2>1 DEF IInv, TypeOK, do_gc_take, core_vars, lists, proc_vars, handle, scan, obj_vars
<1>4. LoopInv'
  BY Zenon, <1>1 DEF IInv, do_gc_take, TypeOK, LoopInv, Locked, EpochOrder
<1>5. SlotInv'
  <2>1. \A d \in Cores : Lowest(d)' = Lowest(d)
    BY Zenon DEF IInv, TypeOK, do_gc_take, Lowest, Locked, EpochOrder, LoopInv, core_vars, lists, worker_vars, scan
  <2> QED BY Zenon, <2>1 DEF IInv, do_gc_take, SlotInv, core_vars, lists
<1>6. ScanInv'
  <2>1. /\ ScanInv /\ Scanned
        /\ wpc \in [Cores -> {"sleep", "loop", "free", "inc"} \union Scanning]
    BY ZenonT(60) DEF IInv, TypeOK, Scanned, Scanning
  <2> QED BY <1>1, <2>1 DEF do_gc_take, ScanInv, Scanning, Scanned
<1>7. ListInv'
  BY <1>1 DEF IInv, do_gc_take, TypeOK, ListInv
<1>8. FreeInv'
  <2>1. i[c] % NEPOCH \in 0 .. NEPOCH - 1
    BY Zenon, ModRange DEF IInv, TypeOK
  <2>2. delayed[c][i[c] % NEPOCH] = {x \in delayed[c][i[c] % NEPOCH] : where[x] = "delayed"}
    BY <2>1 DEF IInv, TypeOK, ListInv, do_gc_take
  <2> QED BY ZenonT(60), <2>2 DEF IInv, TypeOK, FreeInv, do_gc_take, core_vars, lists, scan, obj_vars
<1> QED BY Zenon, <1>2, <1>3, <1>4, <1>5, <1>6, <1>7, <1>8 DEF IInv

\* Freeing one object of the list (gc.cc:200-211) keeps the invariant.
LEMMA Keep_gc_free ==
    ASSUME IInv, NEW c \in Cores, NEW o \in Objs, gc_free(c, o)
    PROVE  IInv'
<1>1. UNCHANGED <<global_epoch, nexttofree_epoch, min_epoch, delayed, delayed_epoch,
                  proclist, epoch, depth, core, pc, refs, wpc, i, gc_lock, scan_c,
                  minfree, minepoch, rcu_epoch, delayer>>
  BY Zenon DEF gc_free, core_vars, proc_vars, scan, lists, handle
<1>2. Aside
  BY Zenon, <1>1 DEF Aside
<1>3. EpochOrder' /\ EpochLag' /\ LoopInv' /\ ProcInv' /\ SlotInv' /\ SlotMod' /\
      GlobalInv' /\ ScanInv'
  BY Zenon, <1>1, <1>2, Frames DEF IInv
<1>4. TypeOK'
  BY Zenon, <1>1 DEF IInv, gc_free, TypeOK
<1>5. ListInv'
  <2> DEFINE s == i[c] % NEPOCH
  <2>1. s \in 0 .. NEPOCH - 1 /\ \A d \in Cores : i[d] % NEPOCH \in 0 .. NEPOCH - 1
    BY Zenon, ModRange DEF IInv, TypeOK
  <2>2. o \in delayed[c][s] /\ freeing[c] = {x \in delayed[c][s] : where[x] = "delayed"}
    BY Zenon DEF IInv, FreeInv, gc_free
  <2>3. /\ wpc[c] = "free" /\ o \in freeing[c]
        /\ freeing' = [freeing EXCEPT ![c] = @ \ {o}]
        /\ where' = [where EXCEPT ![o] = "freed"]
        /\ UNCHANGED <<delayed, delayed_epoch, wpc, i, rcu_epoch, delayer, min_epoch, global_epoch>>
    BY Zenon DEF gc_free, core_vars, lists
  <2>4. delayer[o] = c /\ rcu_epoch[o] = delayed_epoch[c][s]
    BY <2>1, <2>2 DEF IInv, ListInv
  <2>5. \A d \in Cores : \A k \in 0 .. NEPOCH - 1 : o \in delayed[d][k] => d = c /\ k = s
    BY <2>1, <2>4 DEF IInv, ListInv, SlotMod
  <2> HIDE DEF s
  <2>6. ASSUME NEW d \in Cores, NEW k \in 0 .. NEPOCH - 1, NEW x \in delayed[d][k], x # o
        PROVE  where'[x] = where[x]
    BY <2>3, <2>6 DEF IInv, TypeOK
  <2>7. where'[o] = "freed"
    BY Zenon, <2>3 DEF IInv, TypeOK
  <2>8. i[c] % NEPOCH = s
    BY Zenon DEF s
  <2> SUFFICES ASSUME NEW d \in Cores, NEW k \in 0 .. NEPOCH - 1, NEW x \in delayed[d][k]
               PROVE  /\ delayer[x] = d /\ rcu_epoch[x] = delayed_epoch[d][k]
                      /\ \/ where'[x] = "delayed"
                         \/ where'[x] = "freed" /\ wpc[d] = "free" /\ k = i[d] % NEPOCH
    BY <2>3 DEF ListInv
  <2>9. CASE x = o
    BY <2>3, <2>5, <2>7, <2>8, <2>9 DEF IInv, ListInv
  <2>10. CASE x # o
    <3>1. /\ delayer[x] = d /\ rcu_epoch[x] = delayed_epoch[d][k]
          /\ \/ where[x] = "delayed"
             \/ where[x] = "freed" /\ wpc[d] = "free" /\ k = i[d] % NEPOCH
      <4>1. ListInv
        BY Zenon DEF IInv
      <4> QED BY Zenon, <4>1, ListFact
    <3> QED BY Zenon, <2>6, <2>10, <3>1
  <2> QED BY Zenon, <2>9, <2>10
<1>6. FreeInv'
  <2> DEFINE s == i[c] % NEPOCH
  <2>1. s \in 0 .. NEPOCH - 1 /\ \A d \in Cores : i[d] % NEPOCH \in 0 .. NEPOCH - 1
    BY Zenon, ModRange DEF IInv, TypeOK
  <2>2. o \in delayed[c][s] /\ freeing[c] = {x \in delayed[c][s] : where[x] = "delayed"}
    BY Zenon DEF IInv, FreeInv, gc_free
  <2>3. /\ wpc[c] = "free" /\ o \in freeing[c]
        /\ freeing' = [freeing EXCEPT ![c] = @ \ {o}]
        /\ where' = [where EXCEPT ![o] = "freed"]
        /\ UNCHANGED <<delayed, delayed_epoch, wpc, i, rcu_epoch, delayer, min_epoch, global_epoch>>
    BY Zenon DEF gc_free, core_vars, lists
  <2>4. delayer[o] = c /\ rcu_epoch[o] = delayed_epoch[c][s]
    BY <2>1, <2>2 DEF IInv, ListInv
  <2>5. ASSUME NEW d \in Cores, d # c PROVE o \notin delayed[d][i[d] % NEPOCH]
    <3>1. ListInv /\ i[d] % NEPOCH \in 0 .. NEPOCH - 1 /\ delayer[o] # d
      BY Zenon, <2>1, <2>4, <2>5 DEF IInv
    <3> DEFINE k == i[d] % NEPOCH
    <3>2. k \in 0 .. NEPOCH - 1
      BY Zenon, <3>1
    <3> HIDE DEF k
    <3>3. o \in delayed[d][k] => delayer[o] = d
      BY <3>1, <3>2 DEF ListInv
    <3> QED BY Zenon, <3>1, <3>3 DEF k
  <2>6. ASSUME NEW d \in Cores, d # c
        PROVE  {x \in delayed[d][i[d] % NEPOCH] : where'[x] = "delayed"} =
               {x \in delayed[d][i[d] % NEPOCH] : where[x] = "delayed"}
    <3>1. /\ where \in [Objs -> {"linked", "unlinked", "delayed", "freed"}]
          /\ delayed \in [Cores -> [0 .. NEPOCH - 1 -> SUBSET Objs]]
      BY Zenon DEF IInv, TypeOK
    <3> QED BY <2>1, <2>3, <2>5, <2>6, <3>1
  <2>7. {x \in delayed[c][s] : where'[x] = "delayed"} =
        {x \in delayed[c][s] : where[x] = "delayed"} \ {o}
    BY <2>1, <2>3 DEF IInv, TypeOK
  <2>8. freeing' = [freeing EXCEPT ![c] = {x \in delayed[c][s] : where'[x] = "delayed"}]
    BY Zenon, <2>2, <2>3, <2>7 DEF IInv, TypeOK
  <2> QED BY <2>3, <2>6, <2>8 DEF IInv, TypeOK, FreeInv
<1>7. FreedInv'
  <2> DEFINE s == i[c] % NEPOCH
  <2>1. s \in 0 .. NEPOCH - 1 /\ \A d \in Cores : i[d] % NEPOCH \in 0 .. NEPOCH - 1
    BY Zenon, ModRange DEF IInv, TypeOK
  <2>2. o \in delayed[c][s] /\ freeing[c] = {x \in delayed[c][s] : where[x] = "delayed"}
    BY Zenon DEF IInv, FreeInv, gc_free
  <2>3. /\ wpc[c] = "free" /\ o \in freeing[c]
        /\ freeing' = [freeing EXCEPT ![c] = @ \ {o}]
        /\ where' = [where EXCEPT ![o] = "freed"]
        /\ UNCHANGED <<delayed, delayed_epoch, wpc, i, rcu_epoch, delayer, min_epoch, global_epoch>>
    BY Zenon DEF gc_free, core_vars, lists
  <2>4. delayer[o] = c /\ rcu_epoch[o] = delayed_epoch[c][s]
    BY <2>1, <2>2 DEF IInv, ListInv
  <2>5. delayed_epoch[c][s] = i[c] /\ i[c] < min_epoch[c]
    <3>1. i[c] \in Nat /\ Lowest(c) = i[c] /\ i[c] < i[c] + NEPOCH /\ i[c] <= i[c]
      BY <2>3 DEF IInv, TypeOK, Lowest, Locked, NEPOCH
    <3>2. delayed_epoch[c][i[c] % NEPOCH] = i[c]
      BY Zenon, <3>1 DEF IInv, SlotInv
    <3> QED BY Zenon, <2>3, <3>2 DEF IInv, LoopInv
  <2>6. rcu_epoch[o] < min_epoch[c] /\ min_epoch[c] <= global_epoch
    BY Zenon, <2>4, <2>5 DEF IInv, EpochOrder
  <2> HIDE DEF s
  <2> QED BY <2>3, <2>4, <2>6 DEF IInv, TypeOK, FreedInv
<1>8. NoneLost'
  BY <1>1 DEF IInv, gc_free, TypeOK, NoneLost
<1>9. RefsInv'
  BY <1>1 DEF IInv, gc_free, TypeOK, RefsInv, FreeInv
<1> QED BY Zenon, <1>3, <1>4, <1>5, <1>6, <1>7, <1>8, <1>9 DEF IInv

\* Recycling a list empties it, moves its epoch and touches no other list (gc.cc:234-235).
LEMMA RecycleLists ==
    ASSUME IInv, NEW c \in Cores, do_gc_recycle(c)
    PROVE  \A d \in Cores : \A k \in 0 .. NEPOCH - 1 :
              /\ delayed'[d][k] = IF d = c /\ k = i[c] % NEPOCH THEN {} ELSE delayed[d][k]
              /\ ~(d = c /\ k = i[c] % NEPOCH) => delayed_epoch'[d][k] = delayed_epoch[d][k]
<1>1. i[c] % NEPOCH \in 0 .. NEPOCH - 1
  BY Zenon, ModRange DEF IInv, TypeOK
<1> QED BY ZenonT(60), <1>1 DEF IInv, TypeOK, do_gc_recycle

\* Recycling the list for a later epoch (gc.cc:234-235) keeps the invariant.
LEMMA Keep_do_gc_recycle ==
    ASSUME IInv, NEW c \in Cores, do_gc_recycle(c)
    PROVE  IInv'
<1>1. UNCHANGED <<global_epoch, nexttofree_epoch, min_epoch, proclist, epoch, depth,
                  core, pc, refs, freeing, gc_lock, scan_c, minfree, minepoch, where,
                  rcu_epoch, delayer>>
  BY Zenon DEF do_gc_recycle, proc_vars, scan, obj_vars, handle
<1>2. EpochOrder' /\ EpochLag' /\ ProcInv' /\ GlobalInv' /\ FreedInv' /\ RefsInv'
  BY Zenon, <1>1, Frames DEF IInv
<1>3. TypeOK'
  <2>1. i[c] % NEPOCH \in 0 .. NEPOCH - 1 /\ NEPOCH \in Nat
    BY Zenon, ModRange DEF IInv, TypeOK, NEPOCH
  <2>2. delayed' \in [Cores -> [0 .. NEPOCH - 1 -> SUBSET Objs]]
    BY Zenon, <2>1 DEF IInv, TypeOK, do_gc_recycle
  <2>3. delayed_epoch' \in [Cores -> [0 .. NEPOCH - 1 -> Nat]]
    <3>1. /\ delayed_epoch \in [Cores -> [0 .. NEPOCH - 1 -> Nat]]
          /\ delayed_epoch' = [delayed_epoch EXCEPT ![c][i[c] % NEPOCH] = @ + NEPOCH]
      BY Zenon DEF IInv, TypeOK, do_gc_recycle
    <3>2. delayed_epoch[c][i[c] % NEPOCH] + NEPOCH \in Nat
      BY <2>1, <3>1
    <3> QED BY Zenon, <2>1, <3>1, <3>2
  <2>4. i[c] \in Nat /\ i[c] + 1 \in Nat
    <3>1. i[c] \in Nat
      BY Zenon DEF IInv, TypeOK
    <3> QED BY <3>1
  <2> QED BY ZenonT(60), <2>2, <2>3, <2>4 DEF IInv, TypeOK, do_gc_recycle, proc_vars, handle, scan, obj_vars
<1>4. LoopInv'
  BY <1>1 DEF IInv, do_gc_recycle, TypeOK, LoopInv, Locked, EpochOrder
<1>5. SlotInv'
  <2>1. /\ Lowest(c) = i[c] /\ Lowest(c)' = i[c] + 1
        /\ \A d \in Cores \ {c} : Lowest(d)' = Lowest(d)
    BY Zenon DEF IInv, TypeOK, do_gc_recycle, Lowest, Locked
  <2>2. ASSUME NEW e \in Nat, i[c] + 1 <= e, e < i[c] + 1 + NEPOCH
        PROVE  delayed_epoch'[c][e % NEPOCH] = e
    <3>1. CASE e = i[c] + NEPOCH
      <4>1. e % NEPOCH = i[c] % NEPOCH /\ i[c] % NEPOCH \in 0 .. NEPOCH - 1
        BY Zenon, <3>1, ModRange, ModStep DEF IInv, TypeOK
      <4>2. delayed_epoch[c][i[c] % NEPOCH] = i[c]
        <5>1. /\ i[c] \in Nat
              /\ \A k \in Nat : Lowest(c) <= k /\ k < Lowest(c) + NEPOCH
                                   => delayed_epoch[c][k % NEPOCH] = k
          BY Zenon DEF IInv, TypeOK, SlotInv
        <5>2. i[c] <= i[c] /\ i[c] < i[c] + NEPOCH
          BY <5>1 DEF NEPOCH
        <5> QED BY Zenon, <2>1, <5>1, <5>2
      <4> QED BY Zenon, <3>1, <4>1, <4>2 DEF IInv, TypeOK, do_gc_recycle
    <3>2. CASE e < i[c] + NEPOCH
      <4>1. e % NEPOCH # i[c] % NEPOCH
        BY <2>2, <3>2, ModDistinct DEF IInv, TypeOK
      <4>2. delayed_epoch[c][e % NEPOCH] = e
        BY <2>1, <2>2, <3>2 DEF IInv, TypeOK, SlotInv
      <4> QED BY <4>1, <4>2 DEF IInv, TypeOK, do_gc_recycle
    <3> QED BY <2>2, <3>1, <3>2 DEF IInv, TypeOK, NEPOCH
  <2>3. ASSUME NEW d \in Cores, d # c, NEW e \in Nat, Lowest(d) <= e, e < Lowest(d) + NEPOCH
        PROVE  delayed_epoch'[d][e % NEPOCH] = e
    BY Zenon, <2>3 DEF IInv, TypeOK, SlotInv, do_gc_recycle
  <2> QED BY Zenon, <2>1, <2>2, <2>3 DEF SlotInv
<1>6. SlotMod'
  <2>1. /\ i[c] % NEPOCH \in 0 .. NEPOCH - 1
        /\ \A n \in Nat : (n + NEPOCH) % NEPOCH = n % NEPOCH
    BY Zenon, ModRange, ModStep DEF IInv, TypeOK
  <2>2. delayed_epoch' = [delayed_epoch EXCEPT ![c][i[c] % NEPOCH] = @ + NEPOCH]
    BY Zenon DEF do_gc_recycle
  <2>3. SlotMod /\ delayed_epoch \in [Cores -> [0 .. NEPOCH - 1 -> Nat]]
    BY Zenon DEF IInv, TypeOK
  <2> QED BY <2>1, <2>2, <2>3 DEF SlotMod
<1>7. ScanInv'
  <2>1. /\ ScanInv /\ Scanned
        /\ wpc \in [Cores -> {"sleep", "loop", "free", "inc"} \union Scanning]
    BY ZenonT(60) DEF IInv, TypeOK, Scanned, Scanning
  <2> QED BY <1>1, <2>1 DEF do_gc_recycle, ScanInv, Scanning, Scanned
<1>8. ListInv'
  <2> DEFINE s == i[c] % NEPOCH
  <2>1. s \in 0 .. NEPOCH - 1
    BY Zenon, ModRange DEF IInv, TypeOK
  <2>2. \A d \in Cores : \A k \in 0 .. NEPOCH - 1 :
           /\ delayed'[d][k] = IF d = c /\ k = s THEN {} ELSE delayed[d][k]
           /\ ~(d = c /\ k = s) => delayed_epoch'[d][k] = delayed_epoch[d][k]
    BY Zenon, RecycleLists
  <2>3. /\ wpc[c] = "free" /\ freeing[c] = {}
        /\ i' = [i EXCEPT ![c] = @ + 1]
        /\ wpc' = [wpc EXCEPT ![c] = "loop"]
        /\ UNCHANGED <<where, rcu_epoch, delayer>>
    BY Zenon DEF do_gc_recycle, obj_vars
  <2>4. wpc'[c] = "loop" /\ \A d \in Cores \ {c} : wpc'[d] = wpc[d] /\ i'[d] = i[d]
    BY Zenon, <2>3 DEF IInv, TypeOK
  <2>5. i[c] % NEPOCH = s
    BY Zenon
  <2> HIDE DEF s
  <2> SUFFICES ASSUME NEW d \in Cores, NEW k \in 0 .. NEPOCH - 1, NEW x \in delayed'[d][k]
               PROVE  /\ delayer[x] = d /\ rcu_epoch[x] = delayed_epoch'[d][k]
                      /\ \/ where[x] = "delayed"
                         \/ where[x] = "freed" /\ wpc'[d] = "free" /\ k = i'[d] % NEPOCH
    BY <2>3 DEF ListInv
  <2>6. ~(d = c /\ k = s) /\ x \in delayed[d][k] /\ delayed_epoch'[d][k] = delayed_epoch[d][k]
    BY Zenon, <2>2
  <2>7. /\ delayer[x] = d /\ rcu_epoch[x] = delayed_epoch[d][k]
        /\ \/ where[x] = "delayed"
           \/ where[x] = "freed" /\ wpc[d] = "free" /\ k = i[d] % NEPOCH
    BY <2>6 DEF IInv, ListInv
  <2> QED BY Zenon, <2>4, <2>5, <2>6, <2>7
<1>9. FreeInv'
  BY <1>1 DEF IInv, do_gc_recycle, TypeOK, FreeInv
<1>10. NoneLost'
  <2> DEFINE s == i[c] % NEPOCH
  <2>1. s \in 0 .. NEPOCH - 1
    BY Zenon, ModRange DEF IInv, TypeOK
  <2>2. \A d \in Cores : \A k \in 0 .. NEPOCH - 1 :
           /\ delayed'[d][k] = IF d = c /\ k = s THEN {} ELSE delayed[d][k]
           /\ ~(d = c /\ k = s) => delayed_epoch'[d][k] = delayed_epoch[d][k]
    BY Zenon, RecycleLists
  <2>3. /\ wpc[c] = "free" /\ freeing[c] = {}
        /\ i' = [i EXCEPT ![c] = @ + 1]
        /\ wpc' = [wpc EXCEPT ![c] = "loop"]
        /\ UNCHANGED <<where, rcu_epoch, delayer>>
    BY Zenon DEF do_gc_recycle, obj_vars
  <2>4. \A x \in delayed[c][s] : where[x] # "delayed"
    BY Zenon, <2>3 DEF IInv, FreeInv
  <2> HIDE DEF s
  <2> SUFFICES ASSUME NEW x \in Objs, where[x] = "delayed"
               PROVE  \E k \in 0 .. NEPOCH - 1 : /\ x \in delayed'[delayer[x]][k]
                                                  /\ delayed_epoch'[delayer[x]][k] = rcu_epoch[x]
    BY Zenon, <2>3 DEF NoneLost
  <2>5. PICK k \in 0 .. NEPOCH - 1 : /\ x \in delayed[delayer[x]][k]
                                     /\ delayed_epoch[delayer[x]][k] = rcu_epoch[x]
    BY Zenon DEF IInv, NoneLost
  <2>6. delayer[x] \in Cores
    BY Zenon DEF IInv, FreedInv
  <2>7. ~(delayer[x] = c /\ k = s)
    BY Zenon, <2>4, <2>5
  <2> QED BY Zenon, <2>2, <2>5, <2>6, <2>7
<1> QED BY Zenon, <1>2, <1>3, <1>4, <1>5, <1>6, <1>7, <1>8, <1>9, <1>10 DEF IInv

\* Publishing nexttofree_epoch (gc.cc:242) keeps the invariant.
LEMMA Keep_do_gc_done ==
    ASSUME IInv, NEW c \in Cores, do_gc_done(c)
    PROVE  IInv'
<1>1. UNCHANGED <<global_epoch, min_epoch, delayed, delayed_epoch, proclist, epoch,
                  depth, core, pc, refs, i, freeing, gc_lock, scan_c, minfree, minepoch,
                  where, rcu_epoch, delayer>>
  BY Zenon DEF do_gc_done, lists, proc_vars, scan, obj_vars, handle
<1>2. EpochLag' /\ ProcInv' /\ SlotMod' /\ FreedInv' /\ NoneLost' /\ RefsInv'
  BY Zenon, <1>1, Frames DEF IInv
<1>3. TypeOK'
  BY Zenon, <1>1 DEF IInv, do_gc_done, TypeOK
<1>4. EpochOrder'
  BY <1>1 DEF IInv, do_gc_done, TypeOK, EpochOrder, LoopInv, Locked, ProcInv
<1>5. LoopInv'
  BY Zenon, <1>1 DEF IInv, do_gc_done, TypeOK, LoopInv, Locked, EpochOrder
<1>6. SlotInv'
  <2>1. \A d \in Cores : Lowest(d)' = Lowest(d)
    BY Zenon DEF IInv, TypeOK, do_gc_done, Lowest, Locked, EpochOrder, LoopInv, core_vars, lists, worker_vars, scan
  <2> QED BY Zenon, <2>1 DEF IInv, do_gc_done, SlotInv, core_vars, lists
<1>7. GlobalInv'
  BY <1>1 DEF IInv, do_gc_done, TypeOK, GlobalInv, LoopInv, Locked
<1>8. ScanInv'
  <2>1. /\ ScanInv /\ Scanned
        /\ wpc \in [Cores -> {"sleep", "loop", "free", "inc"} \union Scanning]
    BY ZenonT(60) DEF IInv, TypeOK, Scanned, Scanning
  <2>2. i[c] \in Nat /\ nexttofree_epoch[c] <= i[c]
    BY Zenon DEF IInv, TypeOK, LoopInv, Locked, do_gc_done
  <2> QED BY <1>1, <2>1, <2>2 DEF do_gc_done, ScanInv, Scanning, Scanned
<1>9. ListInv'
  BY <1>1 DEF IInv, do_gc_done, TypeOK, ListInv
<1>10. FreeInv'
  BY <1>1 DEF IInv, do_gc_done, TypeOK, FreeInv
<1> QED BY Zenon, <1>2, <1>3, <1>4, <1>5, <1>6, <1>7, <1>8, <1>9, <1>10 DEF IInv

\* Trying to take gc_lock (gc.cc:94-100) keeps the invariant.
LEMMA Keep_inc_begin ==
    ASSUME IInv, NEW c \in Cores, inc_begin(c)
    PROVE  IInv'
<1>1. UNCHANGED <<global_epoch, nexttofree_epoch, min_epoch, delayed, delayed_epoch,
                  proclist, epoch, depth, core, pc, refs, i, freeing, where, rcu_epoch,
                  delayer>>
  BY Zenon DEF inc_begin, core_vars, proc_vars, scan, obj_vars, lists, handle
<1>2. Aside
  BY ZenonT(60) DEF Aside, Locked, IInv, TypeOK, inc_begin
<1>3. EpochOrder' /\ EpochLag' /\ LoopInv' /\ ProcInv' /\ SlotInv' /\ SlotMod' /\
      GlobalInv' /\ ListInv' /\ FreeInv' /\ FreedInv' /\ NoneLost' /\ RefsInv'
  BY Zenon, <1>1, <1>2, Frames DEF IInv
<1>4. TypeOK'
  <2>1. gc_lock' \in Cores \union {NoCore} /\ scan_c' \in Nat /\ minfree' \in Nat /\ minepoch' \in Nat
    BY DEF IInv, TypeOK, inc_begin, scan
  <2>2. wpc' = [wpc EXCEPT ![c] = "cmp_free"] \/ wpc' = [wpc EXCEPT ![c] = "sleep"]
    BY Zenon DEF inc_begin
  <2> QED BY Zenon, <2>1, <2>2 DEF IInv, TypeOK, inc_begin, core_vars, lists, proc_vars, handle, obj_vars
<1>5. ScanInv'
  <2>1. CASE gc_lock = NoCore
    <3>1. \A d \in Cores : wpc[d] \notin Scanning
      BY Zenon, <2>1, CoreFacts DEF IInv, ScanInv
    <3>2. /\ gc_lock' = c /\ scan_c' = 0 /\ wpc'[c] = "cmp_free"
          /\ \A d \in Cores \ {c} : wpc'[d] = wpc[d]
      BY ZenonT(60), <2>1 DEF IInv, TypeOK, inc_begin
    <3>3. \A k \in Cores : ~(k < 0)
      BY CoreFacts
    <3> QED BY Zenon, <3>1, <3>2, <3>3, CoreFacts DEF ScanInv, Scanning
  <2>2. CASE gc_lock # NoCore
    <3>1. /\ wpc[c] \notin Scanning /\ wpc'[c] \notin Scanning
          /\ \A d \in Cores \ {c} : wpc'[d] = wpc[d]
          /\ UNCHANGED <<gc_lock, scan_c, minfree, minepoch, global_epoch, nexttofree_epoch, min_epoch>>
      BY Zenon, <2>2 DEF IInv, TypeOK, inc_begin, scan, core_vars, Scanning
    <3> QED BY Zenon, <3>1 DEF IInv, ScanInv
  <2> QED BY Zenon, <2>1, <2>2
<1> QED BY Zenon, <1>3, <1>4, <1>5 DEF IInv

\* The first read of nexttofree_epoch (gc.cc:103) keeps the invariant.
LEMMA Keep_scan_cmp_free ==
    ASSUME IInv, NEW c \in Cores, scan_cmp_free(c)
    PROVE  IInv'
<1>1. UNCHANGED <<global_epoch, nexttofree_epoch, min_epoch, delayed, delayed_epoch,
                  proclist, epoch, depth, core, pc, refs, i, freeing, gc_lock, scan_c,
                  minfree, minepoch, where, rcu_epoch, delayer>>
  BY Zenon DEF scan_cmp_free, core_vars, proc_vars, scan, obj_vars, lists, handle
<1>2. Aside
  BY Zenon DEF Aside, Locked, IInv, TypeOK, scan_cmp_free
<1>3. EpochOrder' /\ EpochLag' /\ LoopInv' /\ ProcInv' /\ SlotInv' /\ SlotMod' /\
      GlobalInv' /\ ListInv' /\ FreeInv' /\ FreedInv' /\ NoneLost' /\ RefsInv'
  BY Zenon, <1>1, <1>2, Frames DEF IInv
<1>4. TypeOK'
  BY Zenon, <1>1 DEF IInv, scan_cmp_free, TypeOK
<1>5. ScanInv'
  <2>1. /\ ScanInv /\ Scanned
        /\ wpc \in [Cores -> {"sleep", "loop", "free", "inc"} \union Scanning]
    BY ZenonT(60) DEF IInv, TypeOK, Scanned, Scanning
  <2>2. GlobalInv
    BY Zenon DEF IInv
  <2> QED BY <1>1, <2>1, <2>2 DEF scan_cmp_free, ScanInv, Scanning, Scanned, GlobalInv
<1> QED BY Zenon, <1>3, <1>4, <1>5 DEF IInv

\* The second read of nexttofree_epoch (gc.cc:104) keeps the invariant.
LEMMA Keep_scan_set_free ==
    ASSUME IInv, NEW c \in Cores, scan_set_free(c)
    PROVE  IInv'
<1>1. UNCHANGED <<global_epoch, nexttofree_epoch, min_epoch, delayed, delayed_epoch,
                  proclist, epoch, depth, core, pc, refs, i, freeing, gc_lock, scan_c,
                  minepoch, where, rcu_epoch, delayer>>
  BY Zenon DEF scan_set_free, core_vars, proc_vars, obj_vars, lists, handle
<1>2. Aside
  BY Zenon DEF Aside, Locked, IInv, TypeOK, scan_set_free
<1>3. EpochOrder' /\ EpochLag' /\ LoopInv' /\ ProcInv' /\ SlotInv' /\ SlotMod' /\
      GlobalInv' /\ ListInv' /\ FreeInv' /\ FreedInv' /\ NoneLost' /\ RefsInv'
  BY Zenon, <1>1, <1>2, Frames DEF IInv
<1>4. TypeOK'
  <2>1. scan_c \in Cores
    BY Zenon DEF IInv, scan_set_free, ScanInv, Scanning
  <2> QED BY Zenon, <1>1, <2>1 DEF IInv, scan_set_free, TypeOK
<1>5. ScanInv'
  <2>1. /\ ScanInv /\ Scanned
        /\ wpc \in [Cores -> {"sleep", "loop", "free", "inc"} \union Scanning]
    BY ZenonT(60) DEF IInv, TypeOK, Scanned, Scanning
  <2> QED BY <1>1, <2>1 DEF scan_set_free, ScanInv, Scanning, Scanned
<1> QED BY Zenon, <1>3, <1>4, <1>5 DEF IInv

\* The first read of min_epoch (gc.cc:106) keeps the invariant.
LEMMA Keep_scan_cmp_min ==
    ASSUME IInv, NEW c \in Cores, scan_cmp_min(c)
    PROVE  IInv'
<1>1. UNCHANGED <<global_epoch, nexttofree_epoch, min_epoch, delayed, delayed_epoch,
                  proclist, epoch, depth, core, pc, refs, i, freeing, gc_lock, minfree,
                  minepoch, where, rcu_epoch, delayer>>
  BY Zenon DEF scan_cmp_min, core_vars, proc_vars, obj_vars, lists, handle
<1>2. Aside
  BY ZenonT(60) DEF Aside, Locked, IInv, TypeOK, scan_cmp_min, NextScan
<1>3. EpochOrder' /\ EpochLag' /\ LoopInv' /\ ProcInv' /\ SlotInv' /\ SlotMod' /\
      GlobalInv' /\ ListInv' /\ FreeInv' /\ FreedInv' /\ NoneLost' /\ RefsInv'
  BY Zenon, <1>1, <1>2, Frames DEF IInv
<1>4. TypeOK'
  <2>1. scan_c' \in Nat
    <3>1. scan_c \in Nat /\ (scan_c' = scan_c \/ scan_c' = scan_c + 1)
      BY Zenon DEF IInv, TypeOK, scan_cmp_min
    <3> QED BY <3>1
  <2>2. wpc' \in {[wpc EXCEPT ![c] = v] : v \in {"set_min", "cmp_free", "decide"}}
    BY Zenon DEF scan_cmp_min, NextScan
  <2> QED BY ZenonT(60), <2>1, <2>2 DEF IInv, TypeOK, scan_cmp_min, core_vars, lists, proc_vars, handle, obj_vars
<1>5. ScanInv'
  <2>1. /\ scan_c \in Cores /\ gc_lock = c
        /\ \A d \in Cores \ {c} : wpc[d] \notin Scanning /\ wpc'[d] = wpc[d]
    BY DEF IInv, TypeOK, ScanInv, Scanning, scan_cmp_min
  <2>2. CASE min_epoch[scan_c] < minepoch
    <3>1. /\ wpc'[c] = "set_min" /\ wpc[c] = "cmp_min"
          /\ UNCHANGED <<gc_lock, scan_c, minfree, minepoch, global_epoch, nexttofree_epoch, min_epoch>>
      BY Zenon, <2>2 DEF IInv, TypeOK, scan_cmp_min, core_vars
    <3>2. minepoch + 1 >= global_epoch
      BY <2>1, <2>2 DEF IInv, TypeOK, EpochLag
    <3> QED BY Zenon, <2>1, <3>1, <3>2 DEF IInv, ScanInv, Scanning
  <2>3. CASE ~(min_epoch[scan_c] < minepoch)
    <3>1. /\ wpc'[c] = NextScan /\ scan_c' = scan_c + 1 /\ wpc[c] = "cmp_min"
          /\ UNCHANGED <<gc_lock, minfree, minepoch, global_epoch, nexttofree_epoch, min_epoch>>
      BY Zenon, <2>3 DEF IInv, TypeOK, scan_cmp_min, core_vars
    <3>2. /\ minepoch + 1 >= global_epoch => min_epoch[scan_c] + 1 >= global_epoch
          /\ minfree + 2 >= global_epoch => nexttofree_epoch[scan_c] + 2 >= global_epoch
      BY <2>1, <2>3, <3>1 DEF IInv, TypeOK, ScanInv, Scanning
    <3> QED BY Zenon, <2>1, <3>1, <3>2, CoreFacts DEF IInv, ScanInv, Scanning, NextScan
  <2> QED BY Zenon, <2>2, <2>3
<1> QED BY Zenon, <1>3, <1>4, <1>5 DEF IInv

\* The second read of min_epoch (gc.cc:107) keeps the invariant.
LEMMA Keep_scan_set_min ==
    ASSUME IInv, NEW c \in Cores, scan_set_min(c)
    PROVE  IInv'
<1>1. UNCHANGED <<global_epoch, nexttofree_epoch, min_epoch, delayed, delayed_epoch,
                  proclist, epoch, depth, core, pc, refs, i, freeing, gc_lock, minfree,
                  where, rcu_epoch, delayer>>
  BY Zenon DEF scan_set_min, core_vars, proc_vars, obj_vars, lists, handle
<1>2. Aside
  BY Zenon DEF Aside, Locked, IInv, TypeOK, scan_set_min, NextScan
<1>3. EpochOrder' /\ EpochLag' /\ LoopInv' /\ ProcInv' /\ SlotInv' /\ SlotMod' /\
      GlobalInv' /\ ListInv' /\ FreeInv' /\ FreedInv' /\ NoneLost' /\ RefsInv'
  BY Zenon, <1>1, <1>2, Frames DEF IInv
<1>4. TypeOK'
  <2>1. scan_c \in Cores /\ scan_c \in Nat
    BY Zenon, CoreFacts DEF IInv, ScanInv, Scanning, TypeOK, scan_set_min
  <2>2. minepoch' \in Nat /\ scan_c' \in Nat
    BY <2>1 DEF IInv, TypeOK, scan_set_min
  <2>3. wpc' \in {[wpc EXCEPT ![c] = v] : v \in {"cmp_free", "decide"}}
    BY Zenon DEF scan_set_min, NextScan
  <2> QED BY ZenonT(60), <1>1, <2>2, <2>3 DEF IInv, TypeOK
<1>5. ScanInv'
  <2>1. /\ scan_c \in Cores /\ gc_lock = c /\ wpc[c] = "set_min"
        /\ \A d \in Cores \ {c} : wpc[d] \notin Scanning /\ wpc'[d] = wpc[d]
        /\ wpc'[c] = NextScan /\ scan_c' = scan_c + 1 /\ minepoch' = min_epoch[scan_c]
        /\ UNCHANGED <<gc_lock, minfree, global_epoch, nexttofree_epoch, min_epoch>>
    BY DEF IInv, TypeOK, ScanInv, Scanning, scan_set_min, core_vars
  <2>2. /\ minfree + 2 >= global_epoch => nexttofree_epoch[scan_c] + 2 >= global_epoch
        /\ minepoch + 1 >= global_epoch
    BY Zenon, <2>1 DEF IInv, TypeOK, ScanInv, Scanning
  <2> QED BY Zenon, <2>1, <2>2, CoreFacts DEF IInv, ScanInv, Scanning, NextScan
<1> QED BY Zenon, <1>3, <1>4, <1>5 DEF IInv

\* Advancing the global epoch (gc.cc:110-117) keeps the invariant.
LEMMA Keep_inc_end ==
    ASSUME IInv, NEW c \in Cores, inc_end(c)
    PROVE  IInv'
<1>1. UNCHANGED <<nexttofree_epoch, min_epoch, delayed, delayed_epoch, proclist, epoch,
                  depth, core, pc, refs, i, freeing, where, rcu_epoch, delayer>>
  BY Zenon DEF inc_end, core_vars, proc_vars, obj_vars, lists, handle
<1>2. Aside
  BY Zenon DEF Aside, Locked, IInv, TypeOK, inc_end
<1>3. LoopInv' /\ SlotInv' /\ SlotMod' /\ ListInv' /\ FreeInv' /\ NoneLost' /\ RefsInv'
  BY Zenon, <1>1, <1>2, Frames DEF IInv
<1>4. TypeOK'
  BY <1>1, GCAssumption DEF IInv, inc_end, TypeOK, NoCore
<1>5. EpochOrder'
  BY <1>1 DEF IInv, inc_end, TypeOK, EpochOrder, LoopInv, Locked, ProcInv
<1>6. EpochLag'
  <2>1. MayAdvance => \A k \in Cores : /\ nexttofree_epoch[k] + 2 >= global_epoch
                                       /\ min_epoch[k] + 1 >= global_epoch
    BY Zenon, ScanResult DEF inc_end
  <2>2. /\ global_epoch' \in {global_epoch, global_epoch + 1}
        /\ global_epoch' # global_epoch => MayAdvance
        /\ UNCHANGED <<nexttofree_epoch, min_epoch, pc, epoch, core, proclist>>
    BY Zenon DEF inc_end, core_vars, proc_vars, handle
  <2>3. \A k \in Cores : global_epoch' <= min_epoch[k] + 2
    <3>1. EpochLag /\ Scanned
      BY Zenon DEF IInv, TypeOK, Scanned
    <3> QED BY <2>1, <2>2, <3>1 DEF EpochLag, Scanned
  <2>4. ASSUME NEW p \in Procs, pc[p] \in {"in", "end"} PROVE global_epoch' <= epoch[p] + 2
    <3>1. core[p] \in Cores /\ min_epoch[core[p]] <= epoch[p]
      BY Zenon, <2>4 DEF IInv, ProcInv
    <3>2. epoch[p] \in Nat /\ min_epoch[core[p]] \in Nat /\ global_epoch' \in Nat
      <4>1. epoch \in [Procs -> Nat] /\ Scanned
        BY Zenon DEF IInv, TypeOK, Scanned
      <4> QED BY <2>2, <2>4, <3>1, <4>1 DEF Scanned
    <3> QED BY <2>3, <3>1, <3>2
  <2> QED BY Zenon, <2>2, <2>3, <2>4 DEF EpochLag
<1>7. ProcInv'
  BY <1>1 DEF IInv, inc_end, TypeOK, ProcInv, EpochOrder
<1>8. GlobalInv'
  <2>1. MayAdvance => \A k \in Cores : /\ nexttofree_epoch[k] + 2 >= global_epoch
                                       /\ min_epoch[k] + 1 >= global_epoch
    BY Zenon, ScanResult DEF inc_end
  <2>2. /\ global_epoch' \in {global_epoch, global_epoch + 1}
        /\ global_epoch' # global_epoch => MayAdvance
        /\ UNCHANGED <<nexttofree_epoch, min_epoch, pc, epoch, core, proclist>>
    BY Zenon DEF inc_end, core_vars, proc_vars, handle
  <2>3. GlobalInv /\ Scanned
    BY Zenon DEF IInv, TypeOK, Scanned
  <2> QED BY <2>1, <2>2, <2>3 DEF GlobalInv, Scanned
<1>9. ScanInv'
  <2>1. wpc[c] = "decide" /\ wpc'[c] = "sleep" /\ gc_lock' = NoCore
        /\ \A d \in Cores \ {c} : wpc'[d] = wpc[d]
    BY Zenon DEF IInv, TypeOK, inc_end
  <2>2. \A d \in Cores : wpc'[d] \notin Scanning
    BY Zenon, <2>1 DEF IInv, ScanInv, Scanning
  <2> QED BY Zenon, <2>1, <2>2, CoreFacts DEF ScanInv
<1>10. FreedInv'
  BY <1>1 DEF IInv, inc_end, TypeOK, FreedInv, EpochOrder
<1> QED BY Zenon, <1>3, <1>4, <1>5, <1>6, <1>7, <1>8, <1>9, <1>10 DEF IInv
\* The initial state of initgc and of the gc_states (gc.cc:152-161, 311)
\* satisfies the invariant.
LEMMA InitInv == Init => IInv
<1> SUFFICES ASSUME Init PROVE IInv
  BY Zenon
<1>1. TypeOK
  BY GCAssumption DEF Init, TypeOK, Cores, NoCore, NEPOCH
<1>2. EpochOrder /\ EpochLag /\ GlobalInv /\ LoopInv
  BY GCAssumption DEF Init, EpochOrder, EpochLag, GlobalInv, LoopInv, Locked, Cores, NoCore, NEPOCH
<1>3. ProcInv /\ RefsInv
  BY Zenon DEF Init, ProcInv, RefsInv
<1>4. SlotInv /\ SlotMod
  <2>1. /\ \A c \in Cores : Lowest(c) = 0
        /\ \A c \in Cores : \A k \in 0 .. NEPOCH - 1 : delayed_epoch[c][k] = k
    BY Zenon DEF Init, Lowest, Locked
  <2>2. /\ \A e \in Nat : 0 <= e /\ e < 0 + NEPOCH => e \in 0 .. NEPOCH - 1
        /\ \A e \in 0 .. NEPOCH - 1 : e % NEPOCH = e
    BY DEF NEPOCH
  <2> QED BY Zenon, <2>1, <2>2 DEF SlotInv, SlotMod
<1>5. ScanInv
  BY GCAssumption DEF Init, ScanInv, Scanning, Cores, NoCore
<1>6. ListInv /\ FreeInv /\ FreedInv /\ NoneLost
  BY Zenon, GCAssumption DEF Init, ListInv, FreeInv, FreedInv, NoneLost, Cores, NEPOCH
<1> QED BY Zenon, <1>1, <1>2, <1>3, <1>4, <1>5, <1>6 DEF IInv

\* Every step of processes, removers and workers keeps the invariant.
LEMMA NextInv == IInv /\ [Next]_vars => IInv'
<1> SUFFICES ASSUME IInv, [Next]_vars PROVE IInv'
  BY Zenon
<1>1. ASSUME NEW p \in Procs, Process(p) PROVE IInv'
  BY Zenon, <1>1, Keep_gc_begin_epoch, Keep_gc_begin_locked, Keep_gc_end_epoch, Keep_gc_end_locked,
     Keep_lookup DEF Process, Leave
<1>2. ASSUME NEW c \in Cores, Worker(c) PROVE IInv'
  BY Zenon, <1>2, Keep_gc_worker, Keep_do_gc_take, Keep_gc_free, Keep_do_gc_recycle, Keep_do_gc_done,
     Keep_inc_begin, Keep_scan_cmp_free, Keep_scan_set_free, Keep_scan_cmp_min,
     Keep_scan_set_min, Keep_inc_end DEF Worker
<1>3. ASSUME Remove PROVE IInv'
  BY Zenon, <1>3, Keep_unlink, Keep_gc_delayed DEF Remove
<1>4. CASE UNCHANGED vars
  <2>1. UNCHANGED <<global_epoch, nexttofree_epoch, min_epoch, delayed, delayed_epoch, proclist,
                    epoch, depth, core, pc, refs, wpc, i, freeing, gc_lock, scan_c, minfree,
                    minepoch, where, rcu_epoch, delayer>>
    BY Zenon, <1>4 DEF vars, core_vars, lists, proc_vars, handle, worker_vars, scan, obj_vars
  <2>2. TypeOK'
    BY Zenon, <2>1 DEF IInv, TypeOK
  <2>3. Aside
    BY Zenon, <2>1 DEF Aside
  <2>4. /\ EpochOrder' /\ EpochLag' /\ LoopInv' /\ ProcInv' /\ SlotInv' /\ SlotMod'
        /\ GlobalInv' /\ ScanInv'
    BY Zenon, <2>1, <2>3, Frames DEF IInv
  <2>5. ListInv' /\ FreeInv' /\ FreedInv' /\ NoneLost' /\ RefsInv'
    BY Zenon, <2>1, <2>3, Frames DEF IInv
  <2> QED BY Zenon, <2>2, <2>4, <2>5 DEF IInv
<1> QED BY Zenon, <1>1, <1>2, <1>3, <1>4 DEF Next

\* The invariant holds in every reachable state.
LEMMA SpecInv == Spec => []IInv
<1> QED BY InitInv, NextInv, PTL DEF Spec


\* Type correctness of the reclamation scheme (gc.cc), for every number of
\* cores, processes and objects.
THEOREM TypeCorrect == Spec => []TypeOK
<1>1. IInv => TypeOK
  BY Zenon DEF IInv
<1> QED BY SpecInv, <1>1, PTL

\* The three counters stay in the order of the comment at gc.cc:56.
THEOREM EpochOrderHolds == Spec => []EpochOrder
<1>1. IInv => EpochOrder
  BY Zenon DEF IInv
<1> QED BY SpecInv, <1>1, PTL

\* gc_inc_global_epoch never leaves a process more than two epochs behind,
\* although it reads the counters of other cores twice and without their
\* locks (gc.cc:98-115).
THEOREM EpochLagHolds == Spec => []EpochLag
<1>1. IInv => EpochLag
  BY Zenon DEF IInv
<1> QED BY SpecInv, <1>1, PTL

\* gc_delayed's panic (gc.cc:345-350) is unreachable.
THEOREM SlotReadyHolds == Spec => []SlotReady
<1>1. IInv => SlotReady
  <2> SUFFICES ASSUME IInv, NEW c \in Cores, LockFree(c)
               PROVE  delayed_epoch[c][global_epoch % NEPOCH] = global_epoch
    BY Zenon DEF SlotReady
  <2>1. Lowest(c) <= global_epoch /\ global_epoch < Lowest(c) + NEPOCH
    BY DEF IInv, TypeOK, Lowest, Locked, LoopInv, EpochOrder, GlobalInv, NEPOCH
  <2> QED BY Zenon, <2>1 DEF IInv, TypeOK, SlotInv
<1> QED BY SpecInv, <1>1, PTL

\* No delayed object is dropped by a worker that recycles a list it read
\* before it gave lock_ up (gc.cc:226-235).
THEOREM NoneLostHolds == Spec => []NoneLost
<1>1. IInv => NoneLost
  BY Zenon DEF IInv
<1> QED BY SpecInv, <1>1, PTL

\* gc_free's assertion (gc.cc:201-207): what it frees is delayed, once, and
\* in an epoch not after the one being freed.
THEOREM FreeOnceHolds == Spec => []FreeOnce
<1>1. IInv => FreeOnce
  <2> SUFFICES ASSUME IInv, NEW c \in Cores, NEW o \in freeing[c]
               PROVE  where[o] = "delayed" /\ rcu_epoch[o] <= i[c]
    BY Zenon DEF FreeOnce
  <2>1. /\ wpc[c] = "free" /\ where[o] = "delayed"
        /\ o \in delayed[c][i[c] % NEPOCH]
    BY Zenon DEF IInv, FreeInv
  <2>2. i[c] % NEPOCH \in 0 .. NEPOCH - 1
    BY Zenon, ModRange DEF IInv, TypeOK
  <2>3. rcu_epoch[o] = delayed_epoch[c][i[c] % NEPOCH]
    <3> DEFINE k == i[c] % NEPOCH
    <3>1. k \in 0 .. NEPOCH - 1 /\ o \in delayed[c][k]
      BY Zenon, <2>1, <2>2
    <3> HIDE DEF k
    <3>2. rcu_epoch[o] = delayed_epoch[c][k]
      BY <3>1 DEF IInv, ListInv
    <3> QED BY Zenon, <3>2 DEF k
  <2>4. delayed_epoch[c][i[c] % NEPOCH] = i[c]
    <3>1. i[c] \in Nat /\ Lowest(c) = i[c] /\ i[c] < i[c] + NEPOCH /\ i[c] <= i[c]
      BY <2>1 DEF IInv, TypeOK, Lowest, Locked, NEPOCH
    <3> QED BY Zenon, <3>1 DEF IInv, SlotInv
  <2> QED BY <2>1, <2>3, <2>4 DEF IInv, TypeOK
<1> QED BY SpecInv, <1>1, PTL

\* What a reader found is not freed by the core on which it entered its epoch.
THEOREM LocalGraceHolds == Spec => []LocalGrace
<1>1. IInv => LocalGrace
  <2> SUFFICES ASSUME IInv, NEW p \in Procs, NEW o \in refs[p], where[o] = "freed"
               PROVE  delayer[o] # core[p]
    BY Zenon DEF LocalGrace
  <2>1. o \in Objs /\ pc[p] = "in" /\ epoch[p] <= rcu_epoch[o]
    BY Zenon DEF IInv, TypeOK, RefsInv
  <2>2. rcu_epoch[o] < min_epoch[delayer[o]] /\ delayer[o] \in Cores
    BY Zenon, <2>1 DEF IInv, FreedInv
  <2>3. core[p] \in Cores /\ min_epoch[core[p]] <= epoch[p]
    BY Zenon, <2>1 DEF IInv, ProcInv
  <2> QED BY <2>1, <2>2, <2>3 DEF IInv, TypeOK
<1> QED BY SpecInv, <1>1, PTL

=============================================================================
