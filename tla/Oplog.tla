------------------------------- MODULE Oplog --------------------------------
(***************************************************************************)
(* The per-core operation logs of ScaleFS (include/oplog.hh) as the        *)
(* metadata calls of kernel/sysfile.cc and fsync use them.  A log gathers  *)
(* its operations in loggers, one per core, kept in a small per-core cache *)
(* whose ways all logs share.  A call notes in the log and core it uses    *)
(* when it starts and when it ends, changes the directory in memory (its   *)
(* time stamp is read there), and pushes its operations.  fsync waits for  *)
(* every core that is inside a call which began early enough, collects the *)
(* loggers and merges what they hold up to its own time stamp.             *)
(*                                                                         *)
(* The operations merged are then written out by fsync (module             *)
(* MetadataLog); here operation_vec keeps them.  Every read of the time    *)
(* stamp counter returns a new value.                                      *)
(***************************************************************************)
EXTENDS Naturals, FiniteSets, Sequences, SequencesExt

CONSTANTS NCPU,      \* number of cores
          Logs,      \* the logs, one per mnode
          Ways,      \* the ways of a core's logger cache (CACHE_SLOTS)
          hash_way,  \* the way of each log
          Threads,   \* threads that make calls
          Calls,     \* the calls each of them makes
          Syncers,   \* threads in fsync
          Synced,    \* the logs they synchronize
          None,      \* no log, no holder
          MaxCalls,  \* bound on calls that change a directory
          MaxSyncs   \* bound on calls of synchronize_upto_tsc

Cpus == 0 .. NCPU - 1

\* A call on core cpu: whether it reads the clock for its start before it takes the
\* locks, the logs it locks, in increasing order of their mnums, and the logs it
\* appends to.
Link(l, cpu) == [cpu |-> cpu, early |-> FALSE, locks |-> <<l>>, adds |-> <<l>>]
Unlink(l, cpu) == Link(l, cpu)
InOrder(l, m, mnum) == IF mnum[l] < mnum[m] THEN <<l, m>> ELSE <<m, l>>
\* The rename of a file.  (That of a directory locks and appends to the logs of the
\* ancestors of mdnew as well; its barriers are the subject of MetadataLog.)
Rename(mdold, mdnew, mnum, cpu) ==
  [cpu |-> cpu, early |-> TRUE,
   locks |-> IF mdold = mdnew THEN <<mdnew>> ELSE InOrder(mdold, mdnew, mnum),
   adds |-> <<mdnew, mdold>>]
\* create logs in the new file, then in the directory, as a rename into the file would.
Create(md, mf, mnum, cpu) == Rename(md, mf, mnum, cpu)

NoCall == [cpu |-> 0, early |-> FALSE, locks |-> <<>>, adds |-> <<>>]

ASSUME OplogAssumption ==
  /\ NCPU \in Nat \ {0} /\ hash_way \in [Logs -> Ways]
  /\ None \notin Logs \cup Threads \cup Syncers /\ Threads \cap Syncers = {}
  /\ Synced \subseteq Logs
  /\ \A t \in Threads : \A c \in Calls[t] :
       /\ c.cpu \in Cpus /\ {c.locks, c.adds} \subseteq Seq(Logs)
       /\ c.locks # <<>> /\ Range(c.adds) = Range(c.locks)

VARIABLES tsc,            \* the time stamp counter, at its last read
          start_tsc, end_tsc,  \* of each log and core (mfs_start_tsc, mfs_end_tsc)
          tsc_lock,       \* holder of mfs_tsc_lock of each log and core
          obj, ops, way_lock,  \* of each core and way: the log, its logger, the holder of lock_
          cpus,           \* of each log: cores with a logger for it
          pending,        \* of each log: loggers taken from the caches
          operation_vec,  \* of each log: the operations applied
          synced_upto_tsc, last_synced_tsc,
          sync_lock,      \* holder of sync_spinlock_ of each log
          lock,           \* holder of mfs_log->lock of each log
          pc, call, k,    \* of each thread: the step, the call, a position in it
          start, stamp,   \* of each thread: tsc_val and tsc of sys_rename, create, ...
          log, max, i, seen, any,  \* of each syncer: the locals of synchronize_upto_tsc
          calls, syncs,   \* numbers of calls so far
          panic           \* an assertion has failed

stamps == <<start_tsc, end_tsc, tsc_lock>>
cache == <<obj, ops, way_lock, cpus>>
merged == <<pending, operation_vec, synced_upto_tsc, last_synced_tsc>>
locals == <<call, k, start, stamp>>
sync_locals == <<log, max, i, seen, any>>
vars == <<tsc, stamps, cache, merged, sync_lock, lock, pc, locals, sync_locals, calls, syncs, panic>>

Init ==
  /\ tsc = 0
  /\ start_tsc = [l \in Logs |-> [c \in Cpus |-> 0]]
  /\ end_tsc = start_tsc
  /\ tsc_lock = [l \in Logs |-> [c \in Cpus |-> None]]
  /\ obj = [c \in Cpus |-> [w \in Ways |-> None]]
  /\ ops = [c \in Cpus |-> [w \in Ways |-> <<>>]]
  /\ way_lock = obj
  /\ cpus = [l \in Logs |-> {}]
  /\ pending = [l \in Logs |-> <<>>]
  /\ operation_vec = pending
  /\ synced_upto_tsc = [l \in Logs |-> 0]
  /\ last_synced_tsc = synced_upto_tsc
  /\ sync_lock = [l \in Logs |-> None]
  /\ lock = sync_lock
  /\ pc = [t \in Threads \cup Syncers |-> "idle"]
  /\ call = [t \in Threads |-> NoCall]
  /\ k = [t \in Threads |-> 1]
  /\ start = [t \in Threads |-> 0]
  /\ stamp = start
  /\ log = [s \in Syncers |-> None]
  /\ max = [s \in Syncers |-> 0]
  /\ i = max
  /\ seen = max
  /\ any = [s \in Syncers |-> FALSE]
  /\ calls = 0 /\ syncs = 0 /\ panic = FALSE

get_tsc == tsc + 1
Goto(t, label) == pc' = [pc EXCEPT ![t] = label]

\* Mutant: the position is not reset after the last log.
Each_noreset(t, s, here, next) ==
  /\ k' = [k EXCEPT ![t] = @ + 1]
  /\ Goto(t, IF k[t] < Len(s) THEN here ELSE next)

\* Step k of the calls of t has been made for the log at position k of s.
Each(t, s, here, next) ==
  /\ k' = [k EXCEPT ![t] = IF @ < Len(s) THEN @ + 1 ELSE 1]
  /\ Goto(t, IF k[t] < Len(s) THEN here ELSE next)

-----------------------------------------------------------------------------
\* The calls that change a directory

\* A call begins; create and rename read the clock first.
call_begin(t) ==
  /\ pc[t] = "idle" /\ calls < MaxCalls
  /\ \E c \in Calls[t] :
       /\ call' = [call EXCEPT ![t] = c]
       /\ IF c.early THEN tsc' = get_tsc /\ start' = [start EXCEPT ![t] = tsc']
                     ELSE UNCHANGED <<tsc, start>>
  /\ calls' = calls + 1
  /\ Goto(t, "locks")
  /\ UNCHANGED <<stamps, cache, merged, sync_lock, lock, k, stamp, sync_locals, syncs, panic>>

metadata_op_lockguard(t) ==
  LET l == call[t].locks[k[t]] IN
  /\ pc[t] = "locks"
  /\ tsc_lock[l][call[t].cpu] = None
  /\ tsc_lock' = [tsc_lock EXCEPT ![l][call[t].cpu] = t]
  /\ Each(t, call[t].locks, "locks", IF call[t].early THEN "start" ELSE "clock")
  /\ UNCHANGED <<tsc, start_tsc, end_tsc, cache, merged, sync_lock, lock, call, start, stamp,
                 sync_locals, calls, syncs, panic>>

\* link and unlink read the clock under the lock.
read_clock(t) ==
  /\ pc[t] = "clock"
  /\ tsc' = get_tsc
  /\ start' = [start EXCEPT ![t] = tsc']
  /\ Goto(t, "start")
  /\ UNCHANGED <<stamps, cache, merged, sync_lock, lock, call, k, stamp, sync_locals,
                 calls, syncs, panic>>

\* The value at core c of the logs that a call locks.
Stamped(t, f, v) ==
  [l \in Logs |-> IF l \in Range(call[t].locks) THEN [f[l] EXCEPT ![call[t].cpu] = v] ELSE f[l]]

\* Both logs of a call in one step: a reader looks at one log.
metadata_op_start(t) ==
  /\ pc[t] = "start"
  /\ start_tsc' = Stamped(t, start_tsc, start[t])
  /\ Goto(t, "apply")
  /\ UNCHANGED <<tsc, end_tsc, tsc_lock, cache, merged, sync_lock, lock, locals,
                 sync_locals, calls, syncs, panic>>

\* The change of the directory in memory, which reads the clock under the lock of
\* the hash bucket, or its failure.
apply(t) ==
  /\ pc[t] = "apply"
  /\ \/ /\ tsc' = get_tsc
        /\ stamp' = [stamp EXCEPT ![t] = tsc']
        /\ Goto(t, "logger")
     \/ /\ Goto(t, "end")
        /\ UNCHANGED <<tsc, stamp>>
  /\ UNCHANGED <<stamps, cache, merged, sync_lock, lock, call, k, start, sync_locals,
                 calls, syncs, panic>>

\* The way of log l in the cache of core c, and whether another log is there.
Way(l) == hash_way[l]
Evicted(l, c) == obj[c][Way(l)] \notin {l, None}
CanEvict(l, c) == Evicted(l, c) => sync_lock[obj[c][Way(l)]] = None

\* Mutant: the core stays in the bitmap of the log that is evicted.
get_logger_stale(l, c, p) ==
  LET w == Way(l)
      cur == obj[c][w]
  IN
  /\ obj' = [obj EXCEPT ![c][w] = l]
  /\ cpus' = [cpus EXCEPT ![l] = @ \cup {c}]
  /\ IF Evicted(l, c)
     THEN /\ pending' = [pending EXCEPT ![cur] = Append(@, ops[c][w])]
          /\ ops' = [ops EXCEPT ![c][w] = p]
     ELSE ops' = [ops EXCEPT ![c][w] = @ \o p] /\ UNCHANGED pending
  /\ panic' = (panic \/ (cur = l /\ c \notin cpus[l]))

\* get_logger with the lock of the way held, and the push of the operations p.
\* A log found there gives up its logger, with its sync lock taken meanwhile.
get_logger(l, c, p) ==
  LET w == Way(l)
      cur == obj[c][w]
      set == [cpus EXCEPT ![l] = @ \cup {c}]
  IN
  /\ obj' = [obj EXCEPT ![c][w] = l]
  /\ IF Evicted(l, c)
     THEN /\ pending' = [pending EXCEPT ![cur] = Append(@, ops[c][w])]
          /\ ops' = [ops EXCEPT ![c][w] = p]
          /\ cpus' = [set EXCEPT ![cur] = @ \ {c}]
     ELSE /\ ops' = [ops EXCEPT ![c][w] = @ \o p]
          /\ cpus' = set
          /\ UNCHANGED pending
  /\ panic' = (panic \/ (cur = l /\ c \notin cpus[l]))

\* add_operation: the lock of the way; then the push, or the way is unlocked and
\* the thread tries again when the log to evict is being synchronized.
lock_way(t) ==
  LET w == Way(call[t].adds[k[t]]) IN
  /\ pc[t] = "logger"
  /\ way_lock[call[t].cpu][w] = None
  /\ way_lock' = [way_lock EXCEPT ![call[t].cpu][w] = t]
  /\ Goto(t, "push")
  /\ UNCHANGED <<tsc, stamps, obj, ops, cpus, merged, sync_lock, lock, locals, sync_locals,
                 calls, syncs, panic>>

add_operation(t) ==
  LET l == call[t].adds[k[t]] IN
  /\ pc[t] = "push"
  /\ CanEvict(l, call[t].cpu)
  /\ get_logger(l, call[t].cpu, <<[tsc |-> stamp[t], k |-> k[t]]>>)
  /\ way_lock' = [way_lock EXCEPT ![call[t].cpu][Way(l)] = None]
  /\ Each(t, call[t].adds, "logger", "end")
  /\ UNCHANGED <<tsc, stamps, operation_vec, synced_upto_tsc, last_synced_tsc, sync_lock, lock,
                 call, start, stamp, sync_locals, calls, syncs>>

\* Mutant: the thread waits for the log to evict with the way locked.
back_out_wait(t) == FALSE

back_out(t) ==
  LET l == call[t].adds[k[t]] IN
  /\ pc[t] = "push"
  /\ ~CanEvict(l, call[t].cpu)
  /\ way_lock' = [way_lock EXCEPT ![call[t].cpu][Way(l)] = None]
  /\ Goto(t, "logger")
  /\ UNCHANGED <<tsc, stamps, obj, ops, cpus, merged, sync_lock, lock, locals, sync_locals,
                 calls, syncs, panic>>

\* preload_oplog: a logger is set up with nothing in it.
preload_oplog(t) ==
  /\ pc[t] = "idle" /\ calls < MaxCalls
  /\ \E c \in Calls[t] : LET l == c.locks[1] IN
       /\ way_lock[c.cpu][Way(l)] = None
       /\ CanEvict(l, c.cpu)
       /\ get_logger(l, c.cpu, <<>>)
  /\ calls' = calls + 1
  /\ UNCHANGED <<tsc, stamps, way_lock, operation_vec, synced_upto_tsc, last_synced_tsc,
                 sync_lock, lock, pc, locals, sync_locals, syncs>>

\* The end of the call, with one read of the clock.  It is the last thing before the
\* lock guards are destroyed.
metadata_op_end(t) ==
  /\ pc[t] = "end"
  /\ tsc' = get_tsc
  /\ end_tsc' = Stamped(t, end_tsc, tsc')
  /\ tsc_lock' = Stamped(t, tsc_lock, None)
  /\ call' = [call EXCEPT ![t] = NoCall]
  /\ Goto(t, "idle")
  /\ UNCHANGED <<start_tsc, cache, merged, sync_lock, lock, k, start, stamp,
                 sync_locals, calls, syncs, panic>>

-----------------------------------------------------------------------------
\* fsync: the time stamp, the lock of the log, and synchronize_upto_tsc

fsync_begin(s) ==
  /\ pc[s] = "idle" /\ syncs < MaxSyncs
  /\ \E l \in Synced : log' = [log EXCEPT ![s] = l]
  /\ tsc' = get_tsc
  /\ max' = [max EXCEPT ![s] = tsc']
  /\ syncs' = syncs + 1
  /\ Goto(s, "lock")
  /\ UNCHANGED <<stamps, cache, merged, sync_lock, lock, locals, i, seen, any, calls, panic>>

\* A time already synchronized needs only the lock.
fsync_lock(s) ==
  /\ pc[s] = "lock"
  /\ lock[log[s]] = None
  /\ lock' = [lock EXCEPT ![log[s]] = s]
  /\ i' = [i EXCEPT ![s] = 0]
  /\ Goto(s, IF max[s] <= synced_upto_tsc[log[s]] THEN "guard" ELSE "read_start")
  /\ UNCHANGED <<tsc, stamps, cache, merged, sync_lock, locals, log, max, seen, any,
                 calls, syncs, panic>>

read_start(s) ==
  /\ pc[s] = "read_start"
  /\ seen' = [seen EXCEPT ![s] = start_tsc[log[s]][i[s]]]
  /\ Goto(s, "read_end")
  /\ UNCHANGED <<tsc, stamps, cache, merged, sync_lock, lock, locals, log, max, i, any,
                 calls, syncs, panic>>

\* Mutant: calls in flight are not waited for.
InFlight_never(s) == FALSE

\* The core seen is inside a call that may not have been logged yet.
InFlight(s) ==
  seen[s] # 0 /\ seen[s] <= max[s] /\ end_tsc[log[s]][i[s]] <= seen[s]

read_end(s) ==
  /\ pc[s] = "read_end"
  /\ ~InFlight(s)
  /\ i' = [i EXCEPT ![s] = @ + 1]
  /\ Goto(s, IF i[s] + 1 < NCPU THEN "read_start" ELSE "sync")
  /\ UNCHANGED <<tsc, stamps, cache, merged, sync_lock, lock, locals, log, max, seen, any,
                 calls, syncs, panic>>

sync_acquire(s) ==
  /\ pc[s] \in {"guard", "sync"}
  /\ sync_lock[log[s]] = None
  /\ sync_lock' = [sync_lock EXCEPT ![log[s]] = s]
  /\ i' = [i EXCEPT ![s] = 0]
  /\ any' = [any EXCEPT ![s] = FALSE]
  /\ Goto(s, IF pc[s] = "sync" THEN "gather" ELSE "synced")
  /\ UNCHANGED <<tsc, stamps, cache, merged, lock, locals, log, max, seen, calls, syncs, panic>>

\* One core of the loop over cpus_: its logger moves to pending_ and its way is
\* freed.  The loop is repeated until it meets no core.
gather(s) ==
  LET l == log[s]
      c == i[s]
      w == Way(l)
      found == c \in cpus[l]
      again == any[s] \/ found
  IN
  /\ pc[s] = "gather"
  /\ IF found
     THEN /\ way_lock[c][w] = None
          /\ panic' = (panic \/ obj[c][w] # l)
          /\ pending' = [pending EXCEPT ![l] = Append(@, ops[c][w])]
          /\ ops' = [ops EXCEPT ![c][w] = <<>>]
          /\ cpus' = [cpus EXCEPT ![l] = @ \ {c}]
          /\ obj' = [obj EXCEPT ![c][w] = None]
     ELSE UNCHANGED <<panic, pending, ops, cpus, obj>>
  /\ IF c + 1 < NCPU
     THEN /\ i' = [i EXCEPT ![s] = @ + 1]
          /\ any' = [any EXCEPT ![s] = again]
          /\ UNCHANGED pc
     ELSE /\ i' = [i EXCEPT ![s] = 0]
          /\ any' = [any EXCEPT ![s] = FALSE]
          /\ Goto(s, IF again THEN "gather" ELSE "finish")
  /\ UNCHANGED <<tsc, stamps, way_lock, operation_vec, synced_upto_tsc, last_synced_tsc,
                 sync_lock, lock, locals, log, max, seen, calls, syncs>>

\* The operations of the pending loggers of l up to time m.
Upto(l, m) == {o \in UNION {Range(p) : p \in Range(pending[l])} : o.tsc <= m}

\* The merges of the sorted loggers: in the order of the time stamps; the sort is not
\* stable, so equal ones come in any order.
Merges(l, m) ==
  {s \in SetToSeqs(Upto(l, m)) : \A a, b \in DOMAIN s : a < b => s[a].tsc <= s[b].tsc}

\* What is left of the loggers; those that are empty are removed.
Left(l, m) ==
  SelectSeq([j \in DOMAIN pending[l] |-> SelectSeq(pending[l][j], LAMBDA o : o.tsc > m)],
            LAMBDA p : p # <<>>)

flush_finish_max_timestamp(l, m) ==
  \E s \in Merges(l, m) :
    /\ panic' = (panic \/ m <= synced_upto_tsc[l]
                       \/ (s # <<>> /\ (s[1].tsc < synced_upto_tsc[l] \/ s[1].tsc < last_synced_tsc[l])))
    /\ operation_vec' = [operation_vec EXCEPT ![l] = @ \o s]
    /\ last_synced_tsc' = [last_synced_tsc EXCEPT ![l] = IF s = <<>> THEN @ ELSE s[Len(s)].tsc]
    /\ pending' = [pending EXCEPT ![l] = IF s = <<>> THEN @ ELSE Left(l, m)]

sync_finish(s) ==
  /\ pc[s] = "finish"
  /\ flush_finish_max_timestamp(log[s], max[s])
  /\ synced_upto_tsc' = [synced_upto_tsc EXCEPT ![log[s]] = max[s]]
  /\ Goto(s, "synced")
  /\ UNCHANGED <<tsc, stamps, cache, sync_lock, lock, locals, sync_locals, calls, syncs>>

\* The guard is destroyed, the log unlocked.
fsync_end(s) ==
  /\ pc[s] = "synced"
  /\ sync_lock' = [sync_lock EXCEPT ![log[s]] = None]
  /\ lock' = [lock EXCEPT ![log[s]] = None]
  /\ Goto(s, "idle")
  /\ UNCHANGED <<tsc, stamps, cache, merged, locals, sync_locals, calls, syncs, panic>>

-----------------------------------------------------------------------------
Step(t) ==
  \/ metadata_op_lockguard(t) \/ read_clock(t) \/ metadata_op_start(t) \/ apply(t)
  \/ lock_way(t) \/ add_operation(t) \/ back_out(t) \/ metadata_op_end(t)

Sync(s) ==
  \/ fsync_lock(s) \/ read_start(s) \/ read_end(s) \/ sync_acquire(s) \/ gather(s)
  \/ sync_finish(s) \/ fsync_end(s)

Next ==
  \/ \E t \in Threads : call_begin(t) \/ preload_oplog(t) \/ Step(t)
  \/ \E s \in Syncers : fsync_begin(s) \/ Sync(s)

Spec == Init /\ [][Next]_vars

\* Every thread goes on, and a syncer that spins for the lock of a way gets it if the
\* lock is released again and again.
FairSpec ==
  /\ Spec
  /\ \A t \in Threads : WF_vars(Step(t))
  /\ \A s \in Syncers : WF_vars(Sync(s)) /\ SF_vars(gather(s))

-----------------------------------------------------------------------------
Op == [tsc : Nat, k : 1 .. 2]

\* Types; a call works on one or two logs, and its position never leaves them.
TypeOK ==
  /\ tsc \in Nat
  /\ start_tsc \in [Logs -> [Cpus -> Nat]] /\ end_tsc \in [Logs -> [Cpus -> Nat]]
  /\ tsc_lock \in [Logs -> [Cpus -> Threads \cup {None}]]
  /\ obj \in [Cpus -> [Ways -> Logs \cup {None}]]
  /\ ops \in [Cpus -> [Ways -> Seq(Op)]]
  /\ way_lock \in [Cpus -> [Ways -> Threads \cup {None}]]
  /\ cpus \in [Logs -> SUBSET Cpus]
  /\ pending \in [Logs -> Seq(Seq(Op))]
  /\ operation_vec \in [Logs -> Seq(Op)]
  /\ synced_upto_tsc \in [Logs -> Nat] /\ last_synced_tsc \in [Logs -> Nat]
  /\ sync_lock \in [Logs -> Syncers \cup {None}] /\ lock \in [Logs -> Syncers \cup {None}]
  /\ k \in [Threads -> 1 .. 2]
  /\ start \in [Threads -> Nat] /\ stamp \in [Threads -> Nat]
  /\ log \in [Syncers -> Logs \cup {None}]
  /\ max \in [Syncers -> Nat] /\ i \in [Syncers -> 0 .. NCPU] /\ seen \in [Syncers -> Nat]

\* The assertions of oplog.hh and scalefs.hh hold: a cached logger is in the bitmap
\* and the other way round, operations are applied in the order of their time
\* stamps, none comes after the log has been synchronized beyond it, and no time is
\* synchronized twice.
NoPanic == ~panic

\* The operations of log l that are performed but not yet in operation_vec: in a
\* pending logger, in the cache, or still to be pushed by the call that made them.
Unpushed(t) ==
  IF pc[t] \in {"logger", "push"} THEN k[t] .. Len(call[t].adds) ELSE {}
Due(l) ==
  UNION {Range(p) : p \in Range(pending[l])}
  \cup UNION {Range(ops[c][Way(l)]) : c \in {d \in Cpus : obj[d][Way(l)] = l}}
  \cup UNION {{[tsc |-> stamp[t], k |-> n] : n \in {m \in Unpushed(t) : call[t].adds[m] = l}} : t \in Threads}

\* The oplog behaves as one log per node that is applied in order, without loggers,
\* caches or stamps: synchronize_upto_tsc moves exactly the operations that took effect
\* by its time, those of calls still in progress included, and each of them once.
Abstract == INSTANCE OrderedLog
  WITH now <- tsc, due <- [l \in Logs |-> Due(l)], vec <- operation_vec,
       upto <- synced_upto_tsc, MaxAdds <- 2
Ordered == Abstract!Spec

\* fsync always gets through synchronize_upto_tsc.
SyncReturns == \A s \in Syncers : []<>(pc[s] = "idle")
=============================================================================
