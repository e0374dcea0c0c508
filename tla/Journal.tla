------------------------------ MODULE Journal ------------------------------
(***************************************************************************)
(* The physical journals of ScaleFS (kernel/scalefs.cc, include/scalefs.hh)*)
(*                                                                         *)
(* Every core has an on-disk journal, a commit queue and an apply queue of *)
(* transactions.  fsync puts a transaction on the queue of its core and    *)
(* flushes that queue; sync flushes every queue and applies it.  Two       *)
(* transactions in different queues that change a common inode or bitmap   *)
(* block are ordered by dependencies.  A crash may come between any two    *)
(* block writes; recovery replays the committed transactions.              *)
(*                                                                         *)
(* A block's contents are the number of the transaction that wrote them    *)
(* (transactions are numbered by enq_tsc, commits by commit_tsc).          *)
(***************************************************************************)
EXTENDS Naturals, Sequences, FiniteSets, FiniteSetsExt, SequencesExt, TLC

CONSTANTS NCPU,       \* journals
          Threads,    \* processes in fsync or sync
          Calls,      \* the calls they make: core, and "fsync" or "sync"
          Clean,      \* whether they call with nothing to write, too
          Blocks,     \* disk blocks (numbers)
          MaxBlocks,  \* bound on the blocks of a transaction
          JSize,      \* PHYS_JOURNAL_SIZE in blocks, the skip block included
          MaxTxn,     \* bound on the number of transactions
          MaxCrash,   \* bound on the number of crashes
          CrashIn     \* the phases they come in

ASSUME JournalAssumption == /\ NCPU \in Nat \ {0}
                            /\ Blocks \subseteq Nat
                            /\ JSize \in Nat /\ MaxTxn \in Nat /\ MaxCrash \in Nat
                            /\ Calls \subseteq (0 .. NCPU - 1) \X {"fsync", "sync"}
                            /\ Clean \in BOOLEAN
                            /\ CrashIn \subseteq {"run", "recover", "init"}

Cpus == 0 .. NCPU - 1
NoThread == "none"

VARIABLES
    disk,        \* per block: the transaction whose contents are at home
    jr,          \* per journal: its blocks 1 .. JSize - 1
    skip,        \* per journal: the timestamp in its skip block
    cq, aq,      \* per journal: tx_commit_queue and tx_apply_queue
    off,         \* per journal: current_off
    committed,   \* per journal: committed_trans_tsc
    applied,     \* per journal: applied_trans_tsc
    last_applied_commit_tsc,
    blocknum_to_queue,  \* per block: queue and number of its last writer
    insert_lock, journal_lock, remove_lock, ilock,  \* per journal: holder
    pc, kind, cpu, mine, fq, cur, stack, ret,       \* per thread
    enq_tsc, commit_tsc,   \* the clock, for each of its two uses
    phase,       \* run | recover | init
    rq,          \* recovered transactions still to be written home
    icpu,        \* the journal that init_journal works on
    crashes,
    pending,     \* transactions without a commit block (history)
    acked        \* blocks and writers whose fsync or sync returned (history)

onDisk == <<disk, jr, skip>>
queues == <<cq, aq>>
tscs == <<committed, applied, last_applied_commit_tsc>>
locks == <<insert_lock, journal_lock, remove_lock, ilock>>
thread == <<pc, kind, cpu, mine, fq, cur, stack, ret>>
clocks == <<enq_tsc, commit_tsc>>
boot == <<phase, rq, icpu, crashes>>
history == <<pending, acked>>
vars == <<onDisk, queues, off, tscs, blocknum_to_queue, locks, thread, clocks, boot, history>>

-----------------------------------------------------------------------------
(* The on-disk journal *)

Zero == [k |-> "zero"]
Start(t, bs) == [k |-> "start", ts |-> t, bs |-> bs]
Data(v) == [k |-> "data", v |-> v]
Commit(t) == [k |-> "commit", ts |-> t]

\* A transaction: the block versions w that it writes, its enqueue number,
\* that of the last one merged into it, its commit number, the transactions
\* of other queues it has to follow.
NoTxn == [w |-> <<>>, enq |-> 0, last |-> 0, commit |-> 0, deps |-> {}]
Size(t) == Cardinality(DOMAIN t.w)
BlockSeq(t) == SetToSortSeq(DOMAIN t.w, <)

\* The queue that thread t is applying, and up to which transaction.
DepCpu(t) == Last(stack[t])[1]
DepTsc(t) == Last(stack[t])[2]

\* While apply_trans_on_disk or reset_journal writes the skip block, the offset
\* is 0; it is read without the ilock under which it is changed.
current_offset(c) ==
    IF \E t \in Threads : pc[t] \in {"skip_block", "resetting"} /\ DepCpu(t) = c THEN 0 ELSE off[c]

\* Mutant of fits_in_journal: only the data and start blocks are counted.
fits_in_journal_short(n, c) == current_offset(c) + n + 1 <= JSize

\* Start and commit block and, always, an address block are allowed for.
fits_in_journal(n, c) == current_offset(c) + n + 3 <= JSize

\* Mutant of JournalWrites: the commit block is written with the others.
JournalWrites_all(t, c) ==
    {<<off[c], Start(t.commit, BlockSeq(t))>>} \union
    {<<off[c] + i, Data(t.w[BlockSeq(t)[i]])>> : i \in 1 .. Size(t)} \union
    {<<off[c] + Size(t) + 1, Commit(t.commit)>>}

\* The blocks written before the commit block: location and contents.
JournalWrites(t, c) ==
    {<<off[c], Start(t.commit, BlockSeq(t))>>} \union
    {<<off[c] + i, Data(t.w[BlockSeq(t)[i]])>> : i \in 1 .. Size(t)}

\* Journal c after the writes ws.
Written(c, ws) == [o \in 1 .. JSize - 1 |->
    IF \E w \in ws : w[1] = o THEN (CHOOSE w \in ws : w[1] = o)[2] ELSE jr[c][o]]

\* The transaction that starts at offset o, if it is complete.
Complete(j, o, ts) ==
    /\ o < JSize
    /\ j[o].k = "start" /\ j[o].ts >= ts
    /\ LET e == o + Len(j[o].bs) + 1
       IN  e < JSize /\ j[e] = Commit(j[o].ts)

\* recover_journal: the scan from the first block stops at the first
\* transaction that is incomplete or older than the one before.
Scan(j, upto) ==
    LET from[o \in 1 .. JSize, ts \in 0 .. MaxTxn] ==
          IF ~Complete(j, o, ts) THEN {}
          ELSE LET bs == j[o].bs
                   w == [b \in Range(bs) |->
                           LET x == j[o + (CHOOSE i \in DOMAIN bs : bs[i] = b)]
                           IN  IF x.k = "data" THEN x.v ELSE 0]
               IN  (IF j[o].ts > upto THEN {[ts |-> j[o].ts, w |-> w]} ELSE {})
                     \union from[o + Len(bs) + 2, j[o].ts]
    IN  from[1, 0]

\* What recovery finds in all journals.
Found == UNION {Scan(jr[c], skip[c]) : c \in Cpus}

\* The block contents after transactions ts are written in commit order.
Replay(ts) == [b \in Blocks |->
    LET s == {t \in ts : b \in DOMAIN t.w}
    IN  IF s = {} THEN disk[b] ELSE (CHOOSE t \in s : \A u \in s : u.ts <= t.ts).w[b]]

\* What the disk would hold after a crash and a complete recovery.
Recovered == Replay(Found)

-----------------------------------------------------------------------------
Init ==
    /\ disk = [b \in Blocks |-> 0]
    /\ jr = [c \in Cpus |-> [o \in 1 .. JSize - 1 |-> Zero]]
    /\ skip = [c \in Cpus |-> 0]
    /\ off = [c \in Cpus |-> 1]
    /\ enq_tsc = 0 /\ commit_tsc = 0
    /\ phase = "run" /\ rq = {} /\ crashes = 0 /\ acked = {}
    /\ cq = [c \in Cpus |-> <<>>] /\ aq = [c \in Cpus |-> <<>>]
    /\ committed = [c \in Cpus |-> 0] /\ applied = [c \in Cpus |-> 0]
    /\ last_applied_commit_tsc = [c \in Cpus |-> 0]
    /\ blocknum_to_queue = [b \in Blocks |-> <<NCPU, 0>>]
    /\ insert_lock = [c \in Cpus |-> NoThread] /\ journal_lock = [c \in Cpus |-> NoThread]
    /\ remove_lock = [c \in Cpus |-> NoThread] /\ ilock = [c \in Cpus |-> NoThread]
    /\ pc = [t \in Threads |-> "idle"] /\ kind = [t \in Threads |-> "fsync"]
    /\ cpu = [t \in Threads |-> 0] /\ fq = [t \in Threads |-> 0]
    /\ mine = [t \in Threads |-> {}] /\ cur = [t \in Threads |-> NoTxn]
    /\ stack = [t \in Threads |-> <<>>] /\ ret = [t \in Threads |-> "unlock"]
    /\ pending = {} /\ icpu = 0

-----------------------------------------------------------------------------
(* fsync and sync: enqueue *)

goto(t, l) == pc' = [pc EXCEPT ![t] = l]

\* The last writers of blocks B, if they went to another queue.
Deps(B, c) == {blocknum_to_queue[b] : b \in B} \ {<<q, n>> \in {NCPU, c} \X (0 .. MaxTxn) : TRUE}

\* Mutant of NewTxn: last_group_txn_tsc is not set.
NewTxn_nolast(n, B, c) == [NoTxn EXCEPT !.w = [b \in B |-> n], !.enq = n, !.deps = Deps(B, c)]

NewTxn(n, B, c) ==
    [NoTxn EXCEPT !.w = [b \in B |-> n], !.enq = n, !.last = n, !.deps = Deps(B, c)]

\* add_transaction_to_queue by a thread on core c, up to the release of the
\* 2-phase locks of the blocks B (taken since before B was changed).
enqueue(t, c, k, B) ==
    /\ phase = "run" /\ pc[t] = "idle"
    /\ insert_lock[c] = NoThread
    /\ enq_tsc < MaxTxn
    /\ LET n == enq_tsc + 1 IN
       /\ enq_tsc' = n
       /\ cur' = [cur EXCEPT ![t] = NewTxn(n, B, c)]
       /\ blocknum_to_queue' = [b \in Blocks |-> IF b \in B THEN <<c, n>> ELSE blocknum_to_queue[b]]
       /\ mine' = [mine EXCEPT ![t] = {<<b, n>> : b \in B}]
       /\ pending' = pending \union {[n |-> n, cpu |-> c, blocks |-> B]}
    /\ insert_lock' = [insert_lock EXCEPT ![c] = t]
    /\ cpu' = [cpu EXCEPT ![t] = c] /\ kind' = [kind EXCEPT ![t] = k]
    /\ goto(t, "push")
    /\ UNCHANGED <<onDisk, queues, off, tscs, journal_lock, remove_lock, ilock, fq, stack, ret,
                   commit_tsc, boot, acked>>

\* ... and the push onto the commit queue, under tx_commit_queue_lock.
push(t) ==
    LET c == cpu[t] IN
    /\ pc[t] = "push"
    /\ \A u \in Threads : pc[u] \in {"merge", "merged"} => fq[u] # c
    /\ cq' = [cq EXCEPT ![c] = Append(@, cur[t])]
    /\ cur' = [cur EXCEPT ![t] = NoTxn]
    /\ insert_lock' = [insert_lock EXCEPT ![c] = NoThread]
    /\ fq' = [fq EXCEPT ![t] = IF kind[t] = "sync" THEN 0 ELSE c]
    /\ goto(t, "lock")
    /\ UNCHANGED <<onDisk, aq, off, tscs, blocknum_to_queue, journal_lock, remove_lock, ilock, kind,
                   cpu, mine, stack, ret, clocks, boot, history>>

\* A call that finds nothing dirty only flushes.
flush_only(t, c, k) ==
    /\ phase = "run" /\ pc[t] = "idle"
    /\ cpu' = [cpu EXCEPT ![t] = c] /\ kind' = [kind EXCEPT ![t] = k]
    /\ fq' = [fq EXCEPT ![t] = IF k = "sync" THEN 0 ELSE c]
    /\ goto(t, "lock")
    /\ UNCHANGED <<onDisk, queues, off, tscs, blocknum_to_queue, locks, mine, cur, stack, ret,
                   clocks, boot, history>>

\* flush_transaction_queue takes the journal_lock of queue fq[t].
lock_journal(t) ==
    /\ pc[t] = "lock"
    /\ journal_lock[fq[t]] = NoThread
    /\ journal_lock' = [journal_lock EXCEPT ![fq[t]] = t]
    /\ goto(t, "front")
    /\ UNCHANGED <<onDisk, queues, off, tscs, blocknum_to_queue, insert_lock, remove_lock, ilock,
                   kind, cpu, mine, fq, cur, stack, ret, clocks, boot, history>>

-----------------------------------------------------------------------------
(* commit_all_transactions *)

\* Mutant of front: a transaction of another thread is left to it.
front_mine(t) ==
    LET c == fq[t] IN
    /\ pc[t] = "front"
    /\ IF cq[c] = <<>> \/ \A p \in mine[t] : p[2] # Head(cq[c]).enq
       THEN goto(t, "unlock")
       ELSE goto(t, IF fits_in_journal(Size(Head(cq[c])), c) THEN "deps" ELSE "apply")
    /\ ret' = [ret EXCEPT ![t] = IF cq[c] = <<>> THEN "unlock" ELSE "recheck"]
    /\ UNCHANGED <<onDisk, queues, off, tscs, blocknum_to_queue, locks, kind, cpu, mine, fq, cur,
                   stack, clocks, boot, history>>

\* Look at the front of the queue; an over-full journal is applied first.
front(t) ==
    LET c == fq[t] IN
    /\ pc[t] = "front"
    /\ IF cq[c] = <<>>
       THEN /\ goto(t, IF kind[t] = "sync" THEN "apply" ELSE "unlock")
            /\ ret' = [ret EXCEPT ![t] = "unlock"]
       ELSE /\ goto(t, IF fits_in_journal(Size(Head(cq[c])), c) THEN "deps" ELSE "apply")
            /\ ret' = [ret EXCEPT ![t] = "recheck"]
    /\ UNCHANGED <<onDisk, queues, off, tscs, blocknum_to_queue, locks, kind, cpu, mine, fq, cur,
                   stack, clocks, boot, history>>

\* assert(fits_in_journal(...)) after the journal was applied.
recheck(t) ==
    LET c == fq[t] IN
    /\ pc[t] = "recheck"
    /\ goto(t, IF fits_in_journal(Size(Head(cq[c])), c) THEN "deps" ELSE "assert_fits")
    /\ UNCHANGED <<onDisk, queues, off, tscs, blocknum_to_queue, locks, kind, cpu, mine, fq, cur,
                   stack, ret, clocks, boot, history>>

\* Wait until the transactions of other queues that come first are committed.
wait_for_commit(t) ==
    LET c == fq[t] IN
    /\ pc[t] = "deps"
    /\ \A d \in Head(cq[c]).deps : committed[d[1]] >= d[2]
    /\ goto(t, "take")
    /\ UNCHANGED <<onDisk, queues, off, tscs, blocknum_to_queue, locks, kind, cpu, mine, fq, cur,
                   stack, ret, clocks, boot, history>>

\* Transaction b merged into a.
Join(a, b) == [a EXCEPT !.w = b.w @@ @, !.last = b.last, !.commit = b.commit]

\* Take the front of the queue, ...
take(t) ==
    LET c == fq[t] IN
    /\ pc[t] = "take"
    /\ cur' = [cur EXCEPT ![t] = Head(cq[c])]
    /\ cq' = [cq EXCEPT ![c] = Tail(@)]
    /\ goto(t, "merge")
    /\ UNCHANGED <<onDisk, aq, off, tscs, blocknum_to_queue, locks, kind, cpu, mine, fq, stack, ret,
                   clocks, boot, history>>

\* ... then those behind it without dependencies on other queues, as far as
\* the journal has room; the offset is read anew for each of them, ...
merge(t) ==
    LET c == fq[t]
        joins == /\ cq[c] # <<>>
                 /\ Head(cq[c]).deps = {}
                 /\ fits_in_journal(Size(cur[t]) + Size(Head(cq[c])), c)
    IN
    /\ pc[t] = "merge"
    /\ IF joins
       THEN /\ cur' = [cur EXCEPT ![t] = Join(@, Head(cq[c]))]
            /\ cq' = [cq EXCEPT ![c] = Tail(@)]
            /\ goto(t, "merged") /\ UNCHANGED commit_tsc
       ELSE /\ commit_tsc' = commit_tsc + 1
            /\ cur' = [cur EXCEPT ![t].commit = commit_tsc + 1]
            /\ goto(t, "write") /\ UNCHANGED cq
    /\ UNCHANGED <<onDisk, aq, off, tscs, blocknum_to_queue, locks, kind, cpu, mine, fq, stack, ret,
                   enq_tsc, boot, history>>

\* ... and once more for the assertion that the merged transaction fits.
merge_check(t) ==
    /\ pc[t] = "merged"
    /\ goto(t, IF fits_in_journal(Size(cur[t]), fq[t]) THEN "merge" ELSE "assert_fits")
    /\ UNCHANGED <<onDisk, queues, off, tscs, blocknum_to_queue, locks, kind, cpu, mine, fq, cur,
                   stack, ret, clocks, boot, history>>

\* write_journal_transaction_blocks: start and data blocks are in flight;
\* update_offset asserts that the journal is not overrun.
write_blocks(t) ==
    LET c == fq[t] IN
    /\ pc[t] = "write"
    /\ ilock[c] = NoThread
    /\ ilock' = [ilock EXCEPT ![c] = t]
    /\ goto(t, IF off[c] + Size(cur[t]) + 1 <= JSize THEN "writing" ELSE "assert_offset")
    /\ UNCHANGED <<onDisk, queues, off, tscs, blocknum_to_queue, insert_lock, journal_lock,
                   remove_lock, kind, cpu, mine, fq, cur, stack, ret, clocks, boot, history>>

\* They are on the disk (flushed) before the commit block is written.
flush_blocks(t) ==
    LET c == fq[t] IN
    /\ pc[t] = "writing"
    /\ jr' = [jr EXCEPT ![c] = Written(c, JournalWrites(cur[t], c))]
    /\ off' = [off EXCEPT ![c] = @ + Size(cur[t]) + 1]
    /\ goto(t, "commit")
    /\ UNCHANGED <<disk, skip, queues, tscs, blocknum_to_queue, locks, kind, cpu, mine, fq, cur,
                   stack, ret, clocks, boot, history>>

write_commit_block(t) ==
    LET c == fq[t] IN
    /\ pc[t] = "commit"
    /\ ilock' = [ilock EXCEPT ![c] = NoThread]
    /\ IF off[c] + 1 <= JSize
       THEN /\ jr' = [jr EXCEPT ![c][off[c]] = Commit(cur[t].commit)]
            /\ off' = [off EXCEPT ![c] = @ + 1]
            /\ pending' = {p \in pending : ~(p.cpu = c /\ p.n \in cur[t].enq .. cur[t].last)}
            /\ goto(t, "notify")
       ELSE goto(t, "assert_offset") /\ UNCHANGED <<jr, off, pending>>
    /\ UNCHANGED <<disk, skip, queues, tscs, blocknum_to_queue, insert_lock, journal_lock,
                   remove_lock, kind, cpu, mine, fq, cur, stack, ret, clocks, boot, acked>>

notify_commit(t) ==
    LET c == fq[t] IN
    /\ pc[t] = "notify"
    /\ IF cur[t].last > committed[c]
       THEN committed' = [committed EXCEPT ![c] = cur[t].last] /\ goto(t, "queue")
       ELSE goto(t, "assert_tsc") /\ UNCHANGED committed
    /\ UNCHANGED <<onDisk, queues, off, applied, last_applied_commit_tsc, blocknum_to_queue, locks,
                   kind, cpu, mine, fq, cur, stack, ret, clocks, boot, history>>

\* The committed transaction moves to the apply queue.
push_apply_queue(t) ==
    LET c == fq[t] IN
    /\ pc[t] = "queue"
    /\ aq' = [aq EXCEPT ![c] = Append(@, cur[t])]
    /\ cur' = [cur EXCEPT ![t] = NoTxn]
    /\ goto(t, "front")
    /\ UNCHANGED <<onDisk, cq, off, tscs, blocknum_to_queue, locks, kind, cpu, mine, fq, stack, ret,
                   clocks, boot, history>>

-----------------------------------------------------------------------------
(* apply_all_transactions *)

\* Continue with stack s, or return.
next_dep(t, s) == /\ stack' = [stack EXCEPT ![t] = s]
                  /\ goto(t, IF s = <<>> THEN ret[t] ELSE "dep")

apply_all_transactions(t) ==
    LET c == fq[t] IN
    /\ pc[t] = "apply"
    /\ remove_lock[c] = NoThread
    /\ next_dep(t, IF aq[c] = <<>> THEN <<>> ELSE <<<<c, Last(aq[c]).enq>>>>)
    /\ UNCHANGED <<onDisk, queues, off, tscs, blocknum_to_queue, locks, kind, cpu, mine, fq, cur,
                   ret, clocks, boot, history>>

\* Somebody has applied what we want.
dep_applied(t) ==
    /\ pc[t] = "dep"
    /\ applied[DepCpu(t)] >= DepTsc(t)
    /\ next_dep(t, Front(stack[t]))
    /\ UNCHANGED <<onDisk, queues, off, tscs, blocknum_to_queue, locks, kind, cpu, mine, fq, cur,
                   ret, clocks, boot, history>>

\* Mutant of Unapplied: nested dependencies are ignored.
Unapplied_none(x) == {}

\* The dependencies of transaction x that are not applied yet.
Unapplied(x) == {d \in x.deps : applied[d[1]] < d[2]}

\* The first i transactions of queue s merged into one.
Merged(s) ==
    LET m[i \in DOMAIN s] == IF i = 1 THEN s[1] ELSE Join(m[i-1], s[i])
    IN  m

\* Take the front of the apply queue, and those behind it without
\* dependencies; first what the front depends on.  An empty queue is retried.
dep_take(t) ==
    LET d == DepCpu(t)
        q == aq[d]
        n == Max({i \in DOMAIN q : \A j \in 2 .. i : q[j].deps = {}})
    IN
    /\ pc[t] = "dep"
    /\ remove_lock[d] = NoThread
    /\ applied[d] < DepTsc(t)
    /\ q # <<>>
    /\ IF Head(q).enq > DepTsc(t)
       THEN goto(t, "assert_tsc") /\ UNCHANGED <<aq, cur, stack, remove_lock>>
       ELSE IF Unapplied(Head(q)) # {}
       THEN /\ next_dep(t, stack[t] \o SetToSeq(Unapplied(Head(q))))
            /\ UNCHANGED <<aq, cur, remove_lock>>
       ELSE /\ cur' = [cur EXCEPT ![t] = Merged(q)[n]]
            /\ aq' = [aq EXCEPT ![d] = SubSeq(q, n + 1, Len(q))]
            /\ remove_lock' = [remove_lock EXCEPT ![d] = t]
            /\ goto(t, "home") /\ UNCHANGED stack
    /\ UNCHANGED <<onDisk, cq, off, tscs, blocknum_to_queue, insert_lock, journal_lock, ilock,
                   kind, cpu, mine, fq, ret, clocks, boot, history>>

\* The writes to the home locations are in flight ...
write_home(t) ==
    /\ pc[t] = "home"
    /\ ilock[DepCpu(t)] = NoThread
    /\ ilock' = [ilock EXCEPT ![DepCpu(t)] = t]
    /\ goto(t, "homing")
    /\ UNCHANGED <<onDisk, queues, off, tscs, blocknum_to_queue, insert_lock, journal_lock,
                   remove_lock, kind, cpu, mine, fq, cur, stack, ret, clocks, boot, history>>

\* ... and done.
flush_home(t) ==
    /\ pc[t] = "homing"
    /\ disk' = cur[t].w @@ disk
    /\ goto(t, "skip_block")
    /\ UNCHANGED <<jr, skip, queues, off, tscs, blocknum_to_queue, locks, kind, cpu, mine, fq, cur,
                   stack, ret, clocks, boot, history>>

\* The skip block, notify_apply, last_applied_commit_tsc.
write_skip_block(t) ==
    LET d == DepCpu(t) IN
    /\ pc[t] = "skip_block"
    /\ skip' = [skip EXCEPT ![d] = cur[t].commit]
    /\ ilock' = [ilock EXCEPT ![d] = NoThread]
    /\ IF cur[t].last > applied[d] /\ cur[t].commit > last_applied_commit_tsc[d]
       THEN /\ applied' = [applied EXCEPT ![d] = cur[t].last]
            /\ last_applied_commit_tsc' = [last_applied_commit_tsc EXCEPT ![d] = cur[t].commit]
            /\ goto(t, "applied")
       ELSE goto(t, "assert_tsc") /\ UNCHANGED <<applied, last_applied_commit_tsc>>
    /\ cur' = [cur EXCEPT ![t] = NoTxn]
    /\ UNCHANGED <<disk, jr, queues, off, committed, blocknum_to_queue, insert_lock, journal_lock,
                   remove_lock, kind, cpu, mine, fq, stack, ret, clocks, boot, history>>

\* The stack after an iteration on its top.
Popped(t) == IF applied[DepCpu(t)] >= DepTsc(t) THEN Front(stack[t]) ELSE stack[t]

\* With transactions left in the apply queue the journal is kept.
dep_next(t) ==
    LET d == DepCpu(t) IN
    /\ pc[t] = "applied"
    /\ IF aq[d] # <<>>
       THEN /\ remove_lock' = [remove_lock EXCEPT ![d] = NoThread]
            /\ next_dep(t, Popped(t))
       ELSE goto(t, "reset") /\ UNCHANGED <<remove_lock, stack>>
    /\ UNCHANGED <<onDisk, queues, off, tscs, blocknum_to_queue, insert_lock, journal_lock, ilock,
                   kind, cpu, mine, fq, cur, ret, clocks, boot, history>>

\* The journal is empty again: offset 0, and a new skip block ...
reset_start(t) ==
    LET d == DepCpu(t) IN
    /\ pc[t] = "reset"
    /\ ilock[d] = NoThread
    /\ ilock' = [ilock EXCEPT ![d] = t]
    /\ goto(t, "resetting")
    /\ UNCHANGED <<onDisk, queues, off, tscs, blocknum_to_queue, insert_lock, journal_lock,
                   remove_lock, kind, cpu, mine, fq, cur, stack, ret, clocks, boot, history>>

\* ... that is written at that offset.
reset_journal(t) ==
    LET d == DepCpu(t) IN
    /\ pc[t] = "resetting"
    /\ off' = [off EXCEPT ![d] = 1]
    /\ skip' = [skip EXCEPT ![d] = last_applied_commit_tsc[d]]
    /\ ilock' = [ilock EXCEPT ![d] = NoThread]
    /\ remove_lock' = [remove_lock EXCEPT ![d] = NoThread]
    /\ next_dep(t, Popped(t))
    /\ UNCHANGED <<disk, jr, queues, tscs, blocknum_to_queue, insert_lock, journal_lock,
                   kind, cpu, mine, fq, cur, ret, clocks, boot, history>>

\* The end of flush_transaction_queue; sync goes on to the next queue.
unlock_journal(t) ==
    /\ pc[t] = "unlock"
    /\ journal_lock' = [journal_lock EXCEPT ![fq[t]] = NoThread]
    /\ IF kind[t] = "sync" /\ fq[t] < NCPU - 1
       THEN /\ fq' = [fq EXCEPT ![t] = @ + 1] /\ goto(t, "lock")
            /\ UNCHANGED <<mine, acked>>
       ELSE /\ acked' = acked \union mine[t] /\ mine' = [mine EXCEPT ![t] = {}]
            /\ goto(t, "idle") /\ UNCHANGED fq
    /\ UNCHANGED <<onDisk, queues, off, tscs, blocknum_to_queue, insert_lock, remove_lock, ilock,
                   kind, cpu, cur, stack, ret, clocks, boot, pending>>

-----------------------------------------------------------------------------
(* Crash and recovery *)

First(ts) == CHOOSE t \in ts : \A u \in ts : t.ts <= u.ts

\* The home writes in flight.
HomeWrites ==
    IF phase = "recover" /\ rq # {} THEN {<<b, First(rq).w[b]>> : b \in DOMAIN First(rq).w}
    ELSE UNION {{<<b, cur[t].w[b]>> : b \in DOMAIN cur[t].w} :
                  t \in {u \in Threads : pc[u] = "homing"}}

\* The journal writes in flight: journal, offset, contents.
LogWrites == UNION {{<<fq[t], w[1], w[2]>> : w \in JournalWrites(cur[t], fq[t])} :
                      t \in {u \in Threads : pc[u] = "writing"}}

\* Memory is as after a boot.
reboot ==
    /\ cq' = [c \in Cpus |-> <<>>] /\ aq' = [c \in Cpus |-> <<>>]
    /\ committed' = [c \in Cpus |-> 0] /\ applied' = [c \in Cpus |-> 0]
    /\ last_applied_commit_tsc' = [c \in Cpus |-> 0]
    /\ blocknum_to_queue' = [b \in Blocks |-> <<NCPU, 0>>]
    /\ insert_lock' = [c \in Cpus |-> NoThread] /\ journal_lock' = [c \in Cpus |-> NoThread]
    /\ remove_lock' = [c \in Cpus |-> NoThread] /\ ilock' = [c \in Cpus |-> NoThread]
    /\ pc' = [t \in Threads |-> "idle"] /\ kind' = [t \in Threads |-> "fsync"]
    /\ cpu' = [t \in Threads |-> 0] /\ fq' = [t \in Threads |-> 0]
    /\ mine' = [t \in Threads |-> {}] /\ cur' = [t \in Threads |-> NoTxn]
    /\ stack' = [t \in Threads |-> <<>>] /\ ret' = [t \in Threads |-> "unlock"]
    /\ pending' = {} /\ icpu' = 0

\* Any of the writes in flight may have reached the disk.
crash ==
    /\ crashes < MaxCrash /\ phase \in CrashIn
    /\ crashes' = crashes + 1
    /\ \E hs \in SUBSET HomeWrites, ls \in SUBSET LogWrites :
         /\ disk' = [b \in Blocks |-> IF \E h \in hs : h[1] = b
                                      THEN (CHOOSE h \in hs : h[1] = b)[2] ELSE disk[b]]
         /\ jr' = [c \in Cpus |-> Written(c, {<<w[2], w[3]>> : w \in {x \in ls : x[1] = c}})]
    /\ UNCHANGED <<skip, clocks, acked>>
    /\ phase' = "recover" /\ rq' = Found'
    /\ off' = [c \in Cpus |-> 0]
    /\ reboot

\* recover_scalefs: write the transactions back in commit order, ...
recover_txn ==
    /\ phase = "recover" /\ rq # {}
    /\ disk' = First(rq).w @@ disk
    /\ rq' = rq \ {First(rq)}
    /\ UNCHANGED <<jr, skip, queues, off, tscs, blocknum_to_queue, locks, thread, clocks, phase,
                   icpu, crashes, history>>

recover_done ==
    /\ phase = "recover" /\ rq = {}
    /\ phase' = "init"
    /\ UNCHANGED <<onDisk, queues, off, tscs, blocknum_to_queue, locks, thread, clocks, rq, icpu,
                   crashes, history>>

\* ... then init_journal of each journal: a skip block with timestamp 0, ...
init_skip ==
    /\ phase = "init" /\ off[icpu] = 0
    /\ skip' = [skip EXCEPT ![icpu] = 0]
    /\ off' = [off EXCEPT ![icpu] = 1]
    /\ UNCHANGED <<disk, jr, queues, tscs, blocknum_to_queue, locks, thread, clocks, boot, history>>

\* ... and zeros, block by block.
init_zero ==
    /\ phase = "init" /\ off[icpu] \in 1 .. JSize - 1
    /\ jr' = [jr EXCEPT ![icpu][off[icpu]] = Zero]
    /\ IF off[icpu] + 1 < JSize
       THEN off' = [off EXCEPT ![icpu] = @ + 1] /\ UNCHANGED <<icpu, phase>>
       ELSE /\ off' = [off EXCEPT ![icpu] = 1]
            /\ icpu' = IF icpu + 1 < NCPU THEN icpu + 1 ELSE 0
            /\ phase' = IF icpu + 1 < NCPU THEN "init" ELSE "run"
    /\ UNCHANGED <<disk, skip, queues, tscs, blocknum_to_queue, locks, thread, clocks, rq, crashes,
                   history>>

-----------------------------------------------------------------------------
Commit_all(t) == \/ front(t) \/ recheck(t) \/ wait_for_commit(t) \/ take(t) \/ merge(t)
                 \/ merge_check(t) \/ write_blocks(t) \/ flush_blocks(t) \/ write_commit_block(t)
                 \/ notify_commit(t) \/ push_apply_queue(t)

Apply_all(t) == \/ apply_all_transactions(t) \/ dep_applied(t) \/ dep_take(t) \/ write_home(t)
                \/ flush_home(t) \/ write_skip_block(t) \/ dep_next(t)
                \/ reset_start(t) \/ reset_journal(t)

\* The rest of a call that has begun.
Step(t) == push(t) \/ lock_journal(t) \/ Commit_all(t) \/ Apply_all(t) \/ unlock_journal(t)

Call(t) == \E x \in Calls :
    \/ \E B \in SUBSET Blocks : Cardinality(B) \in 1 .. MaxBlocks /\ enqueue(t, x[1], x[2], B)
    \/ Clean /\ flush_only(t, x[1], x[2])

Recovery == recover_txn \/ recover_done \/ init_skip \/ init_zero

Next == (\E t \in Threads : Call(t) \/ Step(t)) \/ crash \/ Recovery

Spec == Init /\ [][Next]_vars

-----------------------------------------------------------------------------
(* Properties *)

Asserts == {"assert_fits", "assert_offset", "assert_tsc"}
Versions == [Blocks -> 0 .. MaxTxn]

TypeOK ==
    /\ disk \in Versions
    /\ skip \in [Cpus -> 0 .. MaxTxn]
    /\ \A c \in Cpus : \A x \in Range(cq[c]) \union Range(aq[c]) :
          DOMAIN x.w \subseteq Blocks /\ x.enq <= x.last /\ x.last <= enq_tsc
    /\ off \in [Cpus -> 0 .. JSize]
    /\ committed \in [Cpus -> 0 .. MaxTxn] /\ applied \in [Cpus -> 0 .. MaxTxn]
    /\ pc \in [Threads -> {"idle", "push", "lock", "front", "recheck", "deps", "take", "merge",
                           "merged", "write", "writing", "commit", "notify", "queue", "apply",
                           "dep", "home", "homing", "skip_block", "applied", "reset", "resetting", "unlock"} \union Asserts]
    /\ phase \in {"run", "recover", "init"}

\* No assertion of the commit and apply paths fails.
NoPanic == \A t \in Threads : pc[t] \notin Asserts

\* The blocks that a crash now would leave, after recovery: from the moment
\* journals are cleared, recovery is complete.
StableImage == IF phase = "init" THEN disk ELSE Recovered

\* The journals implement an atomic durable store: what a crash would leave
\* changes only by whole transactions, in the order of their updates of each
\* block, and what fsync or sync returned for stays.
Store == INSTANCE StableStore WITH image <- StableImage
Implements == Store!Spec

\* The updates of a block keep their order, in whatever queues and by whatever
\* threads they are handled: a transaction gets its commit block after the
\* earlier ones on its blocks, and no home location goes back to an older version.
UpdateOrder ==
    [][phase = "run" /\ phase' = "run" =>
         /\ \A p \in pending \ pending', q \in pending' : p.blocks \cap q.blocks # {} => p.n < q.n
         /\ \A b \in Blocks : disk'[b] >= disk[b]]_vars

\* What fsync or sync has returned for would survive a crash now.
AckedDurable == Store!AckedDurable

\* After recovery the disk holds what fsync synchronized to it.
RecoveredDurable == phase = "init" => \A p \in acked : disk[p[1]] >= p[2]
=============================================================================
