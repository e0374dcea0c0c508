------------------------------- MODULE Shell --------------------------------
(***************************************************************************)
(* Processes that share a pipe, as a shell and its children do: fork       *)
(* copies the descriptors, exit closes them, and what one process does may *)
(* wake, orphan or reap another.  init (bootproc) calls wait for ever; the *)
(* other processes make any system calls in any order.                     *)
(***************************************************************************)
EXTENDS Proc, Pipe

CONSTANTS first,     \* the process that has opened the pipe
          Calls,     \* the system calls that each process makes
          Sizes,     \* numbers of bytes that read and write are called with
          Killable   \* the processes that are killed

vars == <<cv_vars, proc_vars, pipe_vars>>

Users == Procs \ {bootproc, worker}

ASSUME ShellAssumption ==
  /\ bootproc \in Procs /\ worker \in Procs \ {bootproc} /\ first \in Users
  /\ PIPESIZE \in Nat /\ Sizes \subseteq Nat \ {0} /\ Killable \subseteq Users
  /\ {lock, lock_close} \subseteq Spins
  /\ {empty, full} \cup {cv(p) : p \in Procs} \subseteq Cvs
  /\ Cvs \cap (Spins \cup {plock(p) : p \in Procs}) = {} /\ None \notin Procs \cup Cvs
  /\ Calls[worker] = {}
  /\ {"empty", "full"} \cap Procs = {}

\* init sleeps in wait; first, its child, runs.
Init ==
  /\ holder = [l \in Locks |-> None]
  /\ waiters = [c \in Cvs |-> IF c = cv(bootproc) THEN <<bootproc>> ELSE <<>>]
  /\ oncv = [p \in Procs |-> IF p = bootproc THEN cv(p) ELSE None]
  /\ state = [p \in Procs |-> CASE p = bootproc -> "SLEEPING"
                                [] p \in {worker, first} -> "RUNNING"
                                [] OTHER -> "UNUSED"]
  /\ killed = [p \in Procs |-> FALSE]
  /\ pc = [p \in Procs |-> IF p = bootproc THEN "swtch" ELSE "user"]
  /\ frame = [p \in Procs |->
       IF p = bootproc THEN [NoFrame EXCEPT !.cv = cv(p), !.lks = <<plock(p)>>, !.ret = "rewait"]
                       ELSE NoFrame]
  /\ panic = FALSE
  /\ parent = [p \in Procs |-> IF p = first THEN bootproc ELSE None]
  /\ childq = [p \in Procs |-> IF p = bootproc THEN <<first>> ELSE <<>>]
  /\ kid = [p \in Procs |-> 1]
  /\ wakeupinit = [p \in Procs |-> FALSE]
  /\ exiting = {}
  /\ PipeInit
  /\ fds = [p \in Procs |-> IF p = first THEN {"r", "w"} ELSE {}]

\* fork: the table of files is copied.
fork(p, q) ==
  /\ q \in Users
  /\ doclone(p, q)
  /\ fds' = [fds EXCEPT ![q] = fds[p]]
  /\ UNCHANGED <<ring, arg, pos>>

\* exit: ftable.reset() closes the files.
exit_files(p) ==
  /\ pc[p] = "exit_files"
  /\ close_fds(p, {"r", "w"}, "exit")
  /\ UNCHANGED proc_vars

\* The system calls of a process; one that has been killed exits (trap.cc).
Running(p) == pc[p] = "user" /\ state[p] = "RUNNING"
May(p, call) == Running(p) /\ call \in Calls[p] /\ (killed[p] => call = "exit")
Syscall(p) ==
  \/ \E q \in Procs : May(p, "fork") /\ fork(p, q)
  \/ \E n \in Sizes : May(p, "write") /\ write_call(p, n) /\ UNCHANGED proc_vars
  \/ \E n \in Sizes : May(p, "read") /\ read_call(p, n) /\ UNCHANGED proc_vars
  \/ \E e \in fds[p] : May(p, IF e = "r" THEN "close_r" ELSE "close_w") /\ close_fds(p, {e}, "user") /\ UNCHANGED proc_vars
  \/ May(p, "wait") /\ wait_lock(p) /\ UNCHANGED pipe_vars
  \/ \E q \in Killable \ {p} : May(p, "kill") /\ kill(p, q) /\ UNCHANGED pipe_vars
  \/ May(p, "exit") /\ exit_call(p) /\ UNCHANGED pipe_vars

Kernel(p) ==
  \/ CondvarStep(p) /\ UNCHANGED <<proc_vars, pipe_vars>>
  \/ ProcStep(p) /\ UNCHANGED pipe_vars
  \/ PipeStep(p) /\ UNCHANGED proc_vars
  \/ exit_files(p)
  \/ reader_onzero(p) /\ UNCHANGED proc_vars

Next ==
  \/ \E p \in Procs : Syscall(p) \/ Kernel(p)

Spec == Init /\ [][Next]_vars

\* A process in the kernel goes on, and takes a spin lock that stays free; init calls
\* wait for ever.  Nothing is assumed of the calls that the other processes make.
Steps(p) == Kernel(p) \/ (p = bootproc /\ Syscall(p))
FairSpec == Spec /\ \A p \in Procs : WF_vars(Steps(p))

-----------------------------------------------------------------------------
\* Types; the ring never holds more than PIPESIZE bytes, and no call moves more bytes
\* than it was asked for.
TypeOK ==
  /\ holder \in [Locks -> Procs \cup {None}]
  /\ \A c \in Cvs : Range(waiters[c]) \subseteq Procs
  /\ oncv \in [Procs -> Cvs \cup {None}]
  /\ state \in [Procs -> {"UNUSED", "SLEEPING", "RUNNABLE", "RUNNING", "ZOMBIE", "FREED"}]
  /\ killed \in [Procs -> BOOLEAN]
  /\ parent \in [Procs -> Procs \cup {None}]
  /\ nread <= nwrite /\ nwrite <= nread + PIPESIZE
  /\ \A p \in Procs : fds[p] \subseteq {"r", "w"} /\ pos[p] <= arg[p]

\* No panic: a lock is released by its holder only, a process goes to sleep once, and
\* the scheduler is never handed a process in the wrong state.
NoPanic == ~panic

\* The locks that sleep takes again are released by its callers, also when they leave
\* by the exception of a killed process: no process is in user space, or dead, with a
\* spin lock held.
UserHoldsNothing == \A l \in Locks : holder[l] # None => pc[holder[l]] \notin {"user", "dead"}

\* Somebody is about to wake those who sleep on c.
Waking(c) == \E r \in Procs : frame[r].cv = c /\ pc[r] \in {"wake", "wake_loop"}

\* A reader sleeps although there are bytes or the write end is closed, a writer although
\* there is room, and the wake-up is not on its way.
MissedPipe(p) ==
  \/ /\ oncv[p] = empty /\ (~Empty \/ ~writeopen)
     /\ ~Waking(empty) /\ ~\E r \in Procs : pc[r] = "write_loop" /\ pos[r] > 0
  \/ /\ oncv[p] = full /\ ~Full
     /\ ~Waking(full) /\ ~\E r \in Procs : pc[r] = "read_loop" /\ pos[r] > 0

\* The same for a parent in wait that has a dead child; init may still be woken by the
\* process that hands the child over.
MissedChild(p) ==
  /\ oncv[p] = cv(p)
  /\ \E q \in Range(childq[p]) : state[q] = "ZOMBIE"
  /\ ~Waking(cv(p))
  /\ ~(p = bootproc /\ \E r \in Procs : wakeupinit[r] /\ pc[r] # "exit_zombie")

\* No wake-up is lost: nobody sleeps on a pipe or in wait when what they wait for has
\* happened, unless somebody is about to wake them.
NoLostWakeup == \A p \in Procs : ~MissedPipe(p) /\ ~MissedChild(p)

\* The bytes read are the bytes written, in order: none is lost, repeated or overwritten
\* before it is read.
InOrder == got = [j \in 1 .. nread |-> j]

\* q is in the list s in one place.
Once(q, s) == \E i \in DOMAIN s : \A j \in DOMAIN s : s[j] = q <=> j = i

\* A process that has not been reaped is in the list of its parent, once, and in no
\* other (except while an exiting parent hands it over), and its parent is alive.
ChildrenKept ==
  \A q \in Users : state[q] \notin {"UNUSED", "FREED"} =>
    /\ state[parent[q]] \notin {"ZOMBIE", "FREED"}
    /\ \/ \E r \in Procs : pc[r] = "adopt" /\ frame[r].who = q
       \/ \A r \in Procs : IF r = parent[q] THEN Once(q, childq[r]) ELSE q \notin Range(childq[r])

\* A dead process whose parent is init, from the start or by its parent's exit, is
\* freed in the end.
Orphan(q) == state[q] = "ZOMBIE" /\ parent[q] = bootproc
OrphansReaped == \A q \in Users : []<>~Orphan(q)

\* A read ends once the write end, which is never opened again, is closed.
Reading(p) == pc[p] # "user" /\ arg[p] > 0 /\ "r" \in fds[p]
ReadsEnd == \A p \in Users : []<>(writeopen \/ ~Reading(p))
=============================================================================
