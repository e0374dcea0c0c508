---------------------------- MODULE MetadataLog ----------------------------
(***************************************************************************)
(* How ScaleFS brings metadata operations to the disk (kernel/scalefs.cc,  *)
(* kernel/sysfile.cc, kernel/file.cc).  create, link and rename change the *)
(* directories in memory only and append an operation to the metadata log  *)
(* of every directory or file concerned.  fsync processes the log of one   *)
(* node, and the logs of other nodes as far as that one depends on them,   *)
(* into transactions that a per-core journal makes durable (module         *)
(* Journal).  A rename of a directory puts a barrier in the logs of all    *)
(* ancestors of its new place, so that no combination of renames and       *)
(* fsyncs leaves a loop of directories on the disk                         *)
(* (NOTES.dir-rename-fsync).                                               *)
(*                                                                         *)
(* A system call is one step: it holds the tsc locks of all logs it        *)
(* appends to, and synchronize_upto_tsc waits for the calls in progress    *)
(* before it merges the per-core loggers of a log in timestamp order.      *)
(* The calls named in Kinds are made; unlink and the absorption of links   *)
(* by unlinks are not modelled.                                            *)
(***************************************************************************)
EXTENDS Naturals, FiniteSets, Sequences, SequencesExt, Bags

CONSTANTS Dirs, Files,  \* the mnodes: directories and files
          Root,         \* the root directory
          Names,        \* names of directory entries, ".." apart
          None,         \* no node, no lock holder
          CPUs,         \* a thread runs fsync on each of these cores
          Synced,       \* the nodes that fsync is called for
          Kinds,        \* the calls made: "create", "link", "rename", "replace"
          Trees,        \* the directory trees on the disk at boot
          MaxOps,       \* bound on system calls that change directories
          MaxFsync      \* bound on calls of fsync

Nodes == Dirs \cup Files
AllNames == Names \cup {".."}

ASSUME RootAssumption == Root \in Dirs
ASSUME DisjointAssumption == Dirs \cap Files = {} /\ None \notin Nodes \cup CPUs
ASSUME TreesAssumption ==
  \A t \in Trees : /\ t \in [Dirs -> [AllNames -> Nodes \cup {None}]]
                   /\ t[Root][".."] = Root

VARIABLES mem,       \* the directories in memory (mdir::map_)
          used,      \* the mnodes allocated so far
          clock,     \* the time stamp counter, at the last system call
          dir_rename_lock,  \* held for ever by a rename that waits for itself
          log,       \* operation_vec of the mfs_logical_log of each node
          lock,      \* the holder of mfs_log->lock of each node
          inums,     \* the nodes in mnum_to_inum: those that have an inode
          cache,     \* the directories as of the transactions formed
          queue,     \* transactions not yet committed, in the order they were formed
          disk,      \* the directories as of the transactions committed
          pc,        \* where the fsync of each core is
          call,      \* its arguments; alone: no other fsync ran meanwhile
          pending,   \* pending_stack
          renames,   \* rename_stack
          barriers,  \* rename_barrier_stack
          fsyncs,    \* number of calls of fsync so far
          panic      \* the kind of assertion that has failed, or "no"

calls == <<mem, used, clock, dir_rename_lock>>
stacks == <<pending, renames, barriers>>
vars == <<calls, log, lock, inums, cache, queue, disk, pc, call, stacks, fsyncs, panic>>

-----------------------------------------------------------------------------
\* Directory trees

Linked(t) == UNION {{t[d][x] : x \in Names} : d \in Dirs} \ {None}

Init ==
  /\ mem \in Trees
  /\ used = Linked(mem) \cup {Root}
  /\ clock = 0
  /\ log = [n \in Nodes |-> <<>>]
  /\ lock = [n \in Nodes |-> None]
  /\ dir_rename_lock = FALSE
  /\ inums = used
  /\ cache = mem
  /\ queue = <<>>
  /\ disk = cache
  /\ pc = [c \in CPUs |-> "idle"]
  /\ call = [c \in CPUs |-> [node |-> None, tsc |-> 0, alone |-> TRUE]]
  /\ pending = [c \in CPUs |-> <<>>]
  /\ renames = [c \in CPUs |-> <<>>]
  /\ barriers = [c \in CPUs |-> <<>>]
  /\ fsyncs = 0
  /\ panic = "no"

\* d and the directories above it in memory, along the entries "..".
Ancestors(d) ==
  LET up[k \in 0..Cardinality(Dirs)] ==
        IF k = 0 THEN {d} ELSE up[k-1] \cup {mem[e][".."] : e \in up[k-1]}
  IN  up[Cardinality(Dirs)]

-----------------------------------------------------------------------------
(***************************************************************************)
(* The system calls.  Each takes the next time stamp and appends to logs.  *)
(***************************************************************************)
Syscall == /\ panic = "no"
           /\ clock < MaxOps
           /\ clock' = clock + 1
           /\ UNCHANGED <<lock, inums, cache, queue, disk, pc, call, stacks, fsyncs, panic>>

\* Mutant: a new operation is put before the ones already in the log.
add_to_metadata_log_front(ops) == log' = [n \in Nodes |-> ops[n] \o log[n]]

add_to_metadata_log(ops) == log' = [n \in Nodes |-> log[n] \o ops[n]]

Link(n, x) == [op |-> "link", ts |-> clock', node |-> n, name |-> x]

create(d, x, n) ==
  /\ "create" \in Kinds
  /\ Syscall
  /\ mem[d][x] = None
  /\ used' = used \cup {n}
  /\ UNCHANGED dir_rename_lock
  /\ mem' = [e \in Dirs |-> IF e = n THEN [mem[e] EXCEPT ![".."] = d]
                            ELSE IF e = d THEN [mem[e] EXCEPT ![x] = n]
                            ELSE mem[e]]
  /\ add_to_metadata_log([e \in Nodes |->
       IF e = n THEN <<[op |-> "create", ts |-> clock', node |-> n, parent |-> d]>>
       ELSE IF e = d THEN <<Link(n, x)>> ELSE <<>>])

sys_link(f, d, x) ==
  /\ "link" \in Kinds
  /\ Syscall
  /\ f \in Linked(mem)
  /\ mem[d][x] = None
  /\ mem' = [mem EXCEPT ![d][x] = f]
  /\ UNCHANGED <<used, dir_rename_lock>>
  /\ add_to_metadata_log([e \in Nodes |-> IF e = d THEN <<Link(f, x)>> ELSE <<>>])

\* Mutant: renames leave no barriers.
BarrierDirs_none(n, s, d) == {}

\* The directories whose logs get a barrier when n moves from s to d.
BarrierDirs(n, s, d) == IF n \in Dirs /\ s # d THEN Ancestors(d) ELSE {}

\* What sys_rename logs for moving n from s/old to d/new: the barriers have the
\* time stamp of the rename, and come before the two parts of the rename.
RenameOps(n, s, old, d, new) ==
  LET part(kind) == <<[op |-> kind, ts |-> clock', node |-> n,
                       src |-> s, name |-> old, dst |-> d, newname |-> new]>>
      barrier(e) == <<[op |-> "barrier", ts |-> clock', parent |-> mem[e][".."]]>>
  IN  [e \in Nodes |-> (IF e \in BarrierDirs(n, s, d) THEN barrier(e) ELSE <<>>)
                       \o (IF e = d THEN part("rename_link") ELSE <<>>)
                       \o (IF e = s THEN part("rename_unlink") ELSE <<>>)]

\* The tsc locks that sys_rename takes when n moves from s to d: that of d, that
\* of s, and for a directory those of the ancestors of d, whether s is one or not.
mnode_mnums(n, s, d) ==
  SetToBag({d}) (+) SetToBag({s} \ {d})
                (+) SetToBag(IF n \in Dirs /\ s # d THEN Ancestors(d) \ {d} ELSE {})

\* A directory is not moved below itself; dir_rename_lock makes the check and
\* the move one step.  With a lock in mnode_mnums twice the call waits for itself
\* and keeps dir_rename_lock; calls on other cores, which have tsc locks of their
\* own, go on.  An existing file may be replaced by another one; what becomes of a
\* replaced directory is left open by the code (chainhash.hh).
sys_rename(s, old, d, new) ==
  LET n == mem[s][old]
      roadblock == mem[d][new]
  IN  /\ "rename" \in Kinds
      /\ Syscall
      /\ n # None /\ roadblock # n
      /\ roadblock # None => "replace" \in Kinds /\ {n, roadblock} \subseteq Files
      /\ n \in Dirs /\ s # d => ~dir_rename_lock /\ n \notin Ancestors(d)
      /\ UNCHANGED used
      /\ IF \E e \in Dirs : CopiesIn(e, mnode_mnums(n, s, d)) > 1
           THEN /\ dir_rename_lock' = TRUE
                /\ UNCHANGED <<mem, log>>
           ELSE /\ mem' = [e \in Dirs |->
                     [x \in AllNames |-> IF <<e, x>> = <<d, new>> THEN n
                                         ELSE IF <<e, x>> = <<s, old>> THEN None
                                         ELSE IF <<e, x>> = <<n, "..">> THEN d
                                         ELSE mem[e][x]]]
                /\ add_to_metadata_log(RenameOps(n, s, old, d, new))
                /\ UNCHANGED dir_rename_lock

-----------------------------------------------------------------------------
(***************************************************************************)
(* Applying operations: each op->apply forms a transaction.                *)
(***************************************************************************)
\* dirlink does nothing when the name is taken.
dirlink(t, d, x, n) == IF t[d][x] = None THEN [t EXCEPT ![d][x] = n] ELSE t

add_dir_entry(t, d, x, n) == dirlink(t, d, x, n)

remove_dir_entry(t, d, x) == [t EXCEPT ![d][x] = None]

\* The inode of the parent is allocated too, for the entry "..".
mfs_create(t, o) == IF o.node \in Dirs THEN dirlink(t, o.node, "..", o.parent) ELSE t

\* Mutant: the moved directory keeps its "..".
mfs_rename_link_dotdot(t, o) == add_dir_entry(t, o.dst, o.newname, o.node)

mfs_rename_link(t, o) ==
  LET linked == add_dir_entry(t, o.dst, o.newname, o.node)
  IN  IF o.node \in Dirs /\ o.src # o.dst
        THEN [linked EXCEPT ![o.node][".."] = o.dst]
        ELSE linked

\* Mutant: the new name is removed from the old directory.
mfs_rename_unlink_newname(t, o) == remove_dir_entry(t, o.src, o.newname)

mfs_rename_unlink(t, o) == remove_dir_entry(t, o.src, o.name)

\* Both parts of a rename are in one transaction.
mfs_rename(t, o) == mfs_rename_unlink(mfs_rename_link(t, o), o)

\* Mutant: the entries removed are in a transaction of their own, ahead of the
\* entries set.
add_op_to_transaction_queue_split(c, o, t, touched) ==
  LET changed == {e \in Dirs \X AllNames : cache[e[1]][e[2]] # t[e[1]][e[2]]}
      removed == {e \in changed : t[e[1]][e[2]] = None}
      trans(E) == [cpu |-> c, ts |-> o.ts, touched |-> touched,
                   entries |-> [e \in E |-> t[e[1]][e[2]]]]
  IN  /\ cache' = t
      /\ queue' = queue \o <<trans(removed), trans(changed \ removed)>>

\* The transaction of core c that takes the directories to t; touched: the nodes
\* whose inode blocks it locks, which order transactions.
add_op_to_transaction_queue(c, o, t, touched) ==
  LET changed == {e \in Dirs \X AllNames : cache[e[1]][e[2]] # t[e[1]][e[2]]}
      trans == [cpu |-> c, ts |-> o.ts, touched |-> touched,
                entries |-> [e \in changed |-> t[e[1]][e[2]]]]
  IN  /\ cache' = t
      /\ queue' = Append(queue, trans)

-----------------------------------------------------------------------------
(***************************************************************************)
(* fsync of core c: process_metadata_log works on the top of the pending   *)
(* stack until that is empty, then flush_transaction_queue commits what    *)
(* the core has queued.                                                    *)
(***************************************************************************)
Active(c) == pc[c] # "idle"

file_mnode_fsync(c, n) ==
  /\ panic = "no"
  /\ pc[c] = "idle"
  /\ fsyncs < MaxFsync
  /\ fsyncs' = fsyncs + 1
  /\ pc' = [pc EXCEPT ![c] = "loop"]
  /\ call' = [e \in CPUs |->
       IF e = c THEN [node |-> n, tsc |-> clock, alone |-> \A b \in CPUs : ~Active(b)]
       ELSE [call[e] EXCEPT !.alone = @ /\ ~Active(e)]]
  /\ pending' = [pending EXCEPT ![c] = <<[mnum |-> n, max_tsc |-> clock, count |-> "all"]>>]
  /\ UNCHANGED <<calls, log, lock, inums, cache, queue, disk, renames, barriers, panic>>

pm(c) == Last(pending[c])
mfs_log(c) == log[pm(c).mnum]
op(c) == Head(mfs_log(c))

\* process_metadata_log takes the lock of the log on top of the pending stack.
process_start(c) ==
  /\ panic = "no"
  /\ pc[c] = "loop" /\ pending[c] # <<>>
  /\ lock[pm(c).mnum] = None
  /\ lock' = [lock EXCEPT ![pm(c).mnum] = c]
  /\ pc' = [pc EXCEPT ![c] = "ops"]
  /\ UNCHANGED <<calls, log, inums, cache, queue, disk, call, stacks, fsyncs, panic>>

\* Mutant: an operation at the time stamp of the call is left for later.
AtOp_before(c, kinds) ==
  /\ panic = "no"
  /\ pc[c] = "ops"
  /\ mfs_log(c) # <<>>
  /\ op(c).op \in kinds
  /\ \/ pm(c).count = "all" /\ op(c).ts < pm(c).max_tsc
     \/ pm(c).count = "create" /\ op(c).op = "create"

\* process_ops_from_oplog is about to look at an operation of one of these
\* kinds; with a count of 1 it only looks for the create operation.
AtOp(c, kinds) ==
  /\ panic = "no"
  /\ pc[c] = "ops"
  /\ mfs_log(c) # <<>>
  /\ op(c).op \in kinds
  /\ \/ pm(c).count = "all" /\ op(c).ts <= pm(c).max_tsc
     \/ pm(c).count = "create" /\ op(c).op = "create"

\* The operation is removed from the log, and the loop goes on.
Erase(c, k) == /\ log' = [log EXCEPT ![pm(c).mnum] = SubSeq(@, k + 1, Len(@))]
               /\ pc' = [pc EXCEPT ![c] = "ops"]
               /\ UNCHANGED <<calls, lock, inums, disk, call, fsyncs, panic>>

\* process_ops_from_oplog returns and the lock of the log is released.
Return(c, next) == /\ lock' = [lock EXCEPT ![pm(c).mnum] = None]
                   /\ pc' = [pc EXCEPT ![c] = next]
                   /\ UNCHANGED <<calls, inums, disk, call, fsyncs, panic>>

Push(stack, c, e) == [stack EXCEPT ![c] = Append(@, e)]
Pop(stack, c) == [stack EXCEPT ![c] = Front(@)]

Panic(kind) ==
  /\ panic' = kind
  /\ UNCHANGED <<calls, log, lock, inums, cache, queue, disk, pc, call, stacks, fsyncs>>

\* The nodes that a create operation gives an inode, if they have none.
Created(o) == IF o.node \in Dirs THEN {o.node, o.parent} ELSE {o.node}

\* alloc_inode_for_mnode puts the inodes in mnum_to_inum, where others see them ...
process_create(c) ==
  /\ AtOp(c, {"create"})
  /\ inums' = inums \cup Created(op(c))
  /\ pc' = [pc EXCEPT ![c] = "create"]
  /\ UNCHANGED <<calls, log, lock, cache, queue, disk, call, stacks, fsyncs, panic>>

\* ... before the locks of their blocks are taken and the transaction is formed.
process_create_apply(c) ==
  /\ panic = "no"
  /\ pc[c] = "create"
  /\ add_op_to_transaction_queue(c, op(c), mfs_create(cache, op(c)), Created(op(c)))
  /\ Erase(c, 1)
  /\ UNCHANGED stacks

\* A link: the directory and the node have to have inodes.
mfs_link(c) ==
  IF {pm(c).mnum, op(c).node} \subseteq inums
    THEN /\ add_op_to_transaction_queue(c, op(c),
              add_dir_entry(cache, pm(c).mnum, op(c).name, op(c).node),
              {pm(c).mnum, op(c).node})
         /\ Erase(c, 1)
         /\ UNCHANGED stacks
    ELSE Panic("inode")

\* Mutant: a link does not wait.
process_link_early(c) == AtOp(c, {"link"}) /\ mfs_link(c)

\* A link waits for the inode of the node that it links ...
process_link(c) ==
  /\ AtOp(c, {"link"})
  /\ op(c).node \in inums
  /\ mfs_link(c)

\* ... and has its create operation processed, if need be.
process_link_pending(c) ==
  /\ AtOp(c, {"link"})
  /\ op(c).node \notin inums
  /\ pending' = Push(pending, c,
                   [mnum |-> op(c).node, max_tsc |-> op(c).ts, count |-> "create"])
  /\ Return(c, "loop")
  /\ UNCHANGED <<log, cache, queue, renames, barriers>>

\* The barrier at hand, and whether this fsync has processed its ancestors.
Barrier(c) == [mnum |-> pm(c).mnum, ts |-> op(c).ts]
BarrierDone(c) == barriers[c] # <<>> /\ Last(barriers[c]) = Barrier(c)

\* A barrier at the root, or with its ancestors processed, is dropped.
process_barrier(c) ==
  /\ AtOp(c, {"barrier"})
  /\ IF pm(c).mnum = Root
       THEN UNCHANGED barriers
       ELSE BarrierDone(c) /\ barriers' = Pop(barriers, c)
  /\ Erase(c, 1)
  /\ UNCHANGED <<cache, queue, pending, renames>>

\* Otherwise the log of its parent comes first, up to the same time stamp.
process_barrier_pending(c) ==
  /\ AtOp(c, {"barrier"})
  /\ pm(c).mnum # Root
  /\ ~BarrierDone(c)
  /\ barriers' = Push(barriers, c, Barrier(c))
  /\ pending' = Push(pending, c,
                   [mnum |-> op(c).parent, max_tsc |-> op(c).ts, count |-> "all"])
  /\ Return(c, "loop")
  /\ UNCHANGED <<log, cache, queue, renames>>

\* The nodes that have to have inodes in mfs_rename_link, which locks their blocks.
Renamed(o) == {o.node, o.src, o.dst}

\* A rename within one directory: both parts are next to each other in its log.
process_rename_same(c) ==
  /\ AtOp(c, {"rename_link"})
  /\ op(c).src = op(c).dst
  /\ IF Renamed(op(c)) \subseteq inums
       THEN /\ add_op_to_transaction_queue(c, op(c), mfs_rename(cache, op(c)), Renamed(op(c)))
            /\ Erase(c, 2)
            /\ UNCHANGED stacks
       ELSE Panic("inode")

\* One part of a rename between directories.  The first time, the other
\* part's log comes next; when that part is met, the pair is complete.
process_rename(c) ==
  LET o == op(c)
      pair == renames[c] # <<>> /\ Last(renames[c]).ts = o.ts
      other == IF o.op = "rename_link" THEN o.src ELSE o.dst
  IN  /\ AtOp(c, {"rename_link", "rename_unlink"})
      /\ o.src # o.dst
      /\ renames' = Push(renames, c, [src |-> o.src, dst |-> o.dst, ts |-> o.ts])
      /\ pending' = IF pair THEN pending
                    ELSE Push(pending, c, [mnum |-> other, max_tsc |-> o.ts, count |-> "all"])
      /\ Return(c, IF pair THEN "pair" ELSE "loop")
      /\ UNCHANGED <<log, cache, queue, barriers>>

\* RET_DONE: nothing left to do in this log.  If another fsync has applied the
\* rename this one went after, its entry is taken off the rename stack.  (The
\* code reads the top of the stack even when it is empty; the garbage it finds
\* there is taken not to be the time stamp of a rename.)
process_done(c) ==
  /\ pc[c] = "ops"
  /\ ~AtOp(c, {"create", "link", "barrier", "rename_link", "rename_unlink"})
  /\ panic = "no"
  /\ pending' = Pop(pending, c)
  /\ renames' = IF /\ renames[c] # <<>>
                   /\ Last(renames[c]).ts = pm(c).max_tsc
                   /\ pm(c).mnum \in {Last(renames[c]).src, Last(renames[c]).dst}
                THEN Pop(renames, c) ELSE renames
  /\ Return(c, "loop")
  /\ UNCHANGED <<log, cache, queue, barriers>>

rm(c) == Last(renames[c])

\* apply_rename_pair: the two topmost entries must be of one rename; lock the
\* log of the source directory ...
apply_rename_pair_src(c) ==
  /\ panic = "no"
  /\ pc[c] = "pair"
  /\ IF Last(Front(renames[c])).ts # rm(c).ts
       THEN Panic("pair")
       ELSE /\ lock[rm(c).src] = None
            /\ lock' = [lock EXCEPT ![rm(c).src] = c]
            /\ pc' = [pc EXCEPT ![c] = "pair_dst"]
            /\ UNCHANGED <<calls, log, inums, cache, queue, disk, call, stacks, fsyncs, panic>>

\* ... then that of the destination directory, and apply both parts in one
\* transaction if they are still at the front of their logs.
apply_rename_pair_dst(c) ==
  LET src == rm(c).src
      dst == rm(c).dst
      ready == /\ log[src] # <<>> /\ log[dst] # <<>>
               /\ Head(log[dst]).op = "rename_link" /\ Head(log[src]).op = "rename_unlink"
               /\ Head(log[dst]).ts = rm(c).ts /\ Head(log[src]).ts = rm(c).ts
  IN  /\ panic = "no"
      /\ pc[c] = "pair_dst"
      /\ lock[dst] = None
      /\ IF ready /\ ~(Renamed(Head(log[dst])) \subseteq inums)
           THEN Panic("inode")
           ELSE /\ IF ready
                     THEN /\ add_op_to_transaction_queue(c, Head(log[dst]),
                               mfs_rename(cache, Head(log[dst])), Renamed(Head(log[dst])))
                          /\ log' = [log EXCEPT ![src] = Tail(@), ![dst] = Tail(@)]
                     ELSE UNCHANGED <<log, cache, queue>>
                /\ lock' = [lock EXCEPT ![src] = None]
                /\ renames' = [renames EXCEPT ![c] = Front(Front(@))]
                /\ pending' = Pop(pending, c)
                /\ pc' = [pc EXCEPT ![c] = "loop"]
                /\ UNCHANGED <<calls, inums, disk, call, barriers, fsyncs, panic>>

\* The end of process_metadata_log: the stacks must be empty.
process_end(c) ==
  /\ panic = "no"
  /\ pc[c] = "loop" /\ pending[c] = <<>>
  /\ IF renames[c] # <<>> \/ barriers[c] # <<>>
       THEN Panic("stack")
       ELSE /\ pc' = [pc EXCEPT ![c] = "flush"]
            /\ UNCHANGED <<calls, log, lock, inums, cache, queue, disk, call, stacks, fsyncs, panic>>

Mine(c) == {i \in DOMAIN queue : queue[i].cpu = c}

\* flush_transaction_queue commits the transactions of core c in order, each
\* after those of other cores that it depends on (module Journal).
flush_transaction_queue(c) ==
  /\ panic = "no"
  /\ pc[c] = "flush"
  /\ \E i \in Mine(c) :
       /\ \A j \in 1..(i-1) : /\ queue[j].cpu # c
                              /\ queue[j].touched \cap queue[i].touched = {}
       /\ disk' = [d \in Dirs |-> [x \in AllNames |->
                      IF <<d, x>> \in DOMAIN queue[i].entries THEN queue[i].entries[<<d, x>>]
                      ELSE disk[d][x]]]
       /\ queue' = RemoveAt(queue, i)
  /\ UNCHANGED <<calls, log, lock, inums, cache, pc, call, stacks, fsyncs, panic>>

fsync_return(c) ==
  /\ panic = "no"
  /\ pc[c] = "flush" /\ Mine(c) = {}
  /\ pc' = [pc EXCEPT ![c] = "idle"]
  /\ call' = [call EXCEPT ![c] = [node |-> None, tsc |-> 0, alone |-> TRUE]]
  /\ UNCHANGED <<calls, log, lock, inums, cache, queue, disk, stacks, fsyncs, panic>>

Thread(c) == \/ \E n \in used \cap Synced : file_mnode_fsync(c, n)
             \/ process_start(c)
             \/ process_create(c) \/ process_create_apply(c)
             \/ process_link(c) \/ process_link_pending(c)
             \/ process_barrier(c) \/ process_barrier_pending(c)
             \/ process_rename_same(c) \/ process_rename(c) \/ process_done(c)
             \/ apply_rename_pair_src(c) \/ apply_rename_pair_dst(c)
             \/ process_end(c) \/ flush_transaction_queue(c) \/ fsync_return(c)

Next == \/ \E d \in used \cap Dirs, x \in Names, n \in Nodes \ used : create(d, x, n)
        \/ \E f \in Files, d \in used \cap Dirs, x \in Names : sys_link(f, d, x)
        \/ \E s, d \in used \cap Dirs, x, y \in Names : sys_rename(s, x, d, y)
        \/ \E c \in CPUs : Thread(c)

Spec == Init /\ [][Next]_vars

-----------------------------------------------------------------------------
(***************************************************************************)
(* Properties                                                              *)
(***************************************************************************)
Directories == [Dirs -> [AllNames -> Nodes \cup {None}]]
Locks == [Nodes -> CPUs \cup {None}]

\* Type invariant: the trees are functions of directories and names, a log is
\* sorted by time stamps of past calls, and a thread in process_ops_from_oplog
\* or apply_rename_pair holds the lock of the log it works on.
TypeOK ==
  /\ {mem, cache, disk} \subseteq Directories
  /\ Linked(mem) \subseteq used /\ inums \subseteq used /\ used \subseteq Nodes
  /\ dir_rename_lock \in BOOLEAN /\ panic \in {"no", "inode", "pair", "stack"}
  /\ lock \in Locks
  /\ \A n \in Nodes : \A i \in DOMAIN log[n] :
       /\ log[n][i].ts \in 1..clock
       /\ i > 1 => log[n][i-1].ts <= log[n][i].ts
  /\ pc \in [CPUs -> {"idle", "loop", "ops", "create", "pair", "pair_dst", "flush"}]
  /\ \A c \in CPUs : /\ pc[c] \in {"ops", "create"} => lock[pm(c).mnum] = c
                     /\ pc[c] = "pair_dst" => lock[rm(c).src] = c

\* The theorem of NOTES.dir-rename-fsync: whatever has been renamed and synced,
\* and wherever a crash comes, the directories on the disk form no loop (every
\* set of directories has one that no other of the set contains).
NoOrphanLoop ==
  \A S \in SUBSET Dirs \ {{}} :
    \E n \in S : \A d \in S, x \in Names : disk[d][x] # n

\* A directory on the disk has one name, and a ".." that leads nowhere but to the
\* directory it is in, whenever it is made, moved or synced: mfs_rename_link and
\* mfs_rename_unlink move both in one transaction.  (A new directory may be on the
\* disk without a "..": create_dir publishes its inode before it sets the entry.)
OneParent ==
  \A n \in Dirs :
    LET places == {p \in Dirs \X Names : disk[p[1]][p[2]] = n}
    IN  Cardinality(places) <= 1 /\ \A p \in places : disk[n][".."] \in {p[1], None}

\* The name in its own directory that an operation sets, and what it sets it to.
SetsName(o) == CASE o.op = "link" -> {<<o.name, o.node>>}
                 [] o.op = "rename_link" -> {<<o.newname, o.node>>}
                 [] o.op = "rename_unlink" -> {<<o.name, None>>}
                 [] OTHER -> {}

\* No operation is lost, applied twice or out of order by concurrent fsyncs:
\* an entry in memory is what the last operation in the log of its directory
\* made it, else the last transaction in the queues, else the disk.
NothingLost ==
  \A d \in Dirs, x \in Names :
    LET logged == {i \in DOMAIN log[d] :
                     \E v \in Nodes \cup {None} : <<x, v>> \in SetsName(log[d][i])}
        queued == {i \in DOMAIN queue : <<d, x>> \in DOMAIN queue[i].entries}
    IN  CASE logged # {} -> <<x, mem[d][x]>> \in SetsName(log[d][Max(logged)])
          [] logged = {} /\ queued # {} -> mem[d][x] = queue[Max(queued)].entries[<<d, x>>]
          [] OTHER -> mem[d][x] = disk[d][x]

Reachable(t) ==
  LET down[k \in 0..Cardinality(Dirs)] ==
        IF k = 0 THEN {Root}
        ELSE down[k-1] \cup
             (UNION {{t[d][x] : x \in Names} : d \in down[k-1] \cap Dirs} \ {None})
  IN  down[Cardinality(Dirs)]

\* "no combination of rename() and fsync() will ever render the file
\* unreachable" (sysfile.cc): what a path leads to on the disk, and is not
\* unlinked in memory, never becomes unreachable on the disk.
StaysReachable ==
  [][disk' # disk => Reachable(disk) \cap (Linked(mem) \cup {Root}) \subseteq Reachable(disk')]_vars

Returning(c) == pc[c] = "flush" /\ Mine(c) = {}

\* All operations of n up to tsc have been committed.
Durable(n, tsc) ==
  /\ \A i \in DOMAIN log[n] : log[n][i].ts > tsc
  /\ \A i \in DOMAIN queue :
       queue[i].ts <= tsc => n \notin queue[i].touched

\* fsync of a directory "synchronizes the in-memory state of the directory's
\* inode and the directory's contents" (sysfile.cc) as of the call.
FsyncDurable == \A c \in CPUs : Returning(c) => Durable(call[c].node, call[c].tsc)

\* The same for a fsync that no other fsync overlaps.
LoneFsyncDurable ==
  \A c \in CPUs : Returning(c) /\ call[c].alone => Durable(call[c].node, call[c].tsc)

\* An operation finds what it relies on, however the fsyncs of two cores meet in
\* the logs: the nodes it names have inodes (the assertions of get_inode and
\* mfs_rename_link), and the two entries on top of the rename stack are of one
\* rename (the assertions of apply_rename_pair).
OperationsApply == panic \notin {"inode", "pair"}

\* The assertions at the end of process_metadata_log hold too:
\* assert(rename_barrier_stack.empty()) and assert(rename_stack.empty()).
AssertionsHold == panic = "no"

\* A rename that passes the checks of sys_rename is carried out: it does not wait
\* for a lock that it holds, and all later moves of directories with it.
RenamesProceed == ~dir_rename_lock

=============================================================================
