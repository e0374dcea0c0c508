------------------------------ MODULE ShellInv ------------------------------
(***************************************************************************)
(* The inductive invariant behind the safety properties of Shell: who      *)
(* holds which lock (LInv), who is whose child (KInv), and why nobody      *)
(* sleeps for nothing (IOInv, PipeWake, ChildWake).                        *)
(***************************************************************************)
EXTENDS Shell

\* A list without duplicates, and its elements.
Distinct(s) == \A i, j \in 1 .. Len(s) : s[i] = s[j] => i = j
InList(q, s) == \E i \in 1 .. Len(s) : s[i] = q

\* The locks that p holds at a label, apart from those of a call in progress.
LocksAt(p, label, f) ==
  CASE label \in {"scan", "rewait", "exit_init", "exit_zombie"} -> {plock(p)}
    [] label \in {"adopt", "exit_self", "kill_end"} -> {plock(f.who)}
    [] label \in {"read_loop", "write_loop", "io_done"} -> {lock}
    [] label \in {"read_empty", "write_full", "read_woken", "write_woken", "io_killed"} ->
         {lock, lock_close}
    [] label = "closed" -> {lock_close}
    [] OTHER -> {}

\* The locks that p holds at a label.
Holds(p, label, f) ==
  CASE label = "sleep" -> LocksAt(p, f.ret, f)
    [] label = "enqueue" -> {f.cv}
    [] label = "relock" -> LocksAt(p, f.ret, f) \ Range(f.lks)
    [] label = "wake" -> LocksAt(p, f.ret, f)
    [] label = "wake_loop" -> LocksAt(p, f.ret, f) \cup {f.cv}
    [] OTHER -> LocksAt(p, label, f)

\* The locks that p holds by the place where it is.
HoldsNow(p) == Holds(p, pc[p], frame[p])

\* Those are the locks that it holds.
LockInv == \A p \in Procs, l \in Locks : holder[l] = p <=> l \in HoldsNow(p)

\* The labels inside sleep and inside wake_all, and the others.
InSleep == {"sleep", "enqueue", "swtch", "relock"}
InWake == {"wake", "wake_loop"}
Plain == {"user", "dead", "forkret", "scan", "rewait", "wait", "exit_files", "exit", "adopt",
          "exit_parent", "exit_self", "exit_init", "exit_zombie", "kill_end",
          "write_lock", "write_loop", "write_full", "write_woken", "read_loop", "read_empty",
          "read_woken", "io_done", "io_killed", "close_r", "close_w", "closed"}

\* The calls of sleep: by wait, on the variable of the process, and by read and write.
SleepFrame(p, label, f) ==
  \/ f.ret = "rewait" /\ f.cv = cv(p) /\ f.lks = <<plock(p)>> /\ p \notin Killable
  \/ /\ f.ret \in {"read_woken", "write_woken"} /\ f.exc = "io_killed"
     /\ f.cv = IF f.ret = "read_woken" THEN empty ELSE full
     /\ f.lks = <<lock, lock_close>> \/ (label = "relock" /\ f.lks = <<lock_close>>)

\* The calls of wake_all: by exit, kill, read or write, and the close of the write end.
WakeFrame(p, f) ==
  \/ f.ret \in {"exit_init", "exit_zombie"} /\ f.cv \in Cvs /\ p \in Users
  \/ f.ret = "kill_end" /\ f.cv \in Cvs /\ f.who \in Procs
  \/ f.ret = "io_done" /\ f.cv \in {empty, full}
  \/ f.ret = "closed" /\ f.cv = empty

\* Where a process may be with which frame.
FrameOK(p, label, f) ==
  /\ DOMAIN f = {"cv", "lks", "who", "ret", "exc"}
  /\ label \in InSleep \cup InWake \cup Plain
  /\ label \in InSleep => SleepFrame(p, label, f)
  /\ label \in InWake => WakeFrame(p, f)
  /\ label \notin InSleep => f.exc \in {"user", "exit"}
  /\ f.exc = "exit" => p \in Users
  /\ label \in {"adopt", "exit_parent", "exit_self", "kill_end"} => f.who \in Procs
  /\ label \in {"scan", "rewait", "wait"} => p \notin Killable
  /\ label \in {"exit_files", "exit", "adopt", "exit_parent", "exit_self", "exit_init", "exit_zombie", "dead"} => p \in Users

\* The state of a process goes with the place where it is.
StateOK(p) ==
  \/ pc[p] = "swtch" /\ state[p] = "SLEEPING" /\ oncv[p] = frame[p].cv
  \/ pc[p] \in {"swtch", "forkret"} /\ state[p] = "RUNNABLE" /\ oncv[p] = None
  \/ pc[p] = "dead" /\ state[p] \in {"ZOMBIE", "FREED"} /\ oncv[p] = None
  \/ pc[p] = "user" /\ state[p] = "UNUSED" /\ p \in Users /\ oncv[p] = None
  \/ pc[p] \notin {"swtch", "forkret", "dead"} /\ state[p] = "RUNNING" /\ oncv[p] = None

\* The lists of waiters hold those who sleep there, once each.
WaitersInv ==
  \A c \in Cvs : /\ waiters[c] \in Seq(Procs) /\ Distinct(waiters[c])
                 /\ \A p \in Procs : InList(p, waiters[c]) <=> oncv[p] = c

\* Types of the variables of Condvar.
CoreType ==
  /\ holder \in [Locks -> Procs \cup {None}]
  /\ DOMAIN waiters = Cvs
  /\ oncv \in [Procs -> Cvs \cup {None}]
  /\ state \in [Procs -> {"UNUSED", "SLEEPING", "RUNNABLE", "RUNNING", "ZOMBIE", "FREED"}]
  /\ killed \in [Procs -> BOOLEAN]
  /\ DOMAIN pc = Procs /\ DOMAIN frame = Procs

\* The invariant of the locks.
LInv ==
  /\ CoreType /\ LockInv /\ WaitersInv /\ panic = FALSE
  /\ \A p \in Procs : FrameOK(p, pc[p], frame[p]) /\ StateOK(p) /\ (killed[p] => p \in Killable)

-----------------------------------------------------------------------------
\* q has been forked and not been reaped.
Alive(q) == state[q] \notin {"UNUSED", "FREED"}

\* p has handed its children over.
LeavingLabel == {"exit_parent", "exit_self", "exit_init", "exit_zombie", "dead"}
Leaving(p) ==
  pc[p] \in LeavingLabel \/ (pc[p] \in InWake /\ frame[p].ret \in LeavingLabel)

\* p is in exit or on its way there.
InExit(p) == Leaving(p) \/ pc[p] \in {"exit_files", "exit", "adopt"} \/ frame[p].exc = "exit"

\* r hands q over to init.
HandsOver(r, q) == pc[r] = "adopt" /\ frame[r].who = q

\* Types of the variables of Proc.
FamilyType ==
  /\ parent \in [Procs -> Procs \cup {None}]
  /\ childq \in [Procs -> Seq(Users)]
  /\ kid \in [Procs -> Nat \ {0}]
  /\ exiting \subseteq Users

\* The children in a list are alive and know their parent, and none is there twice.
Children ==
  \A r \in Procs : /\ Distinct(childq[r])
                   /\ \A q \in Users : InList(q, childq[r]) => parent[q] = r /\ Alive(q)

\* A child that is handed over is still its parent's.
Adopted ==
  \A r \in Procs : pc[r] = "adopt" =>
    /\ frame[r].who \in Users /\ parent[frame[r].who] = r /\ Alive(frame[r].who)
    /\ ~InList(frame[r].who, childq[r])

\* A process that is not reaped has a parent that is not dead and knows it.
Parents ==
  \A q \in Users : Alive(q) =>
    /\ parent[q] \in Procs /\ parent[q] # q
    /\ state[parent[q]] \in {"SLEEPING", "RUNNABLE", "RUNNING"}
    /\ InList(q, childq[parent[q]]) \/ HandsOver(parent[q], q)

\* exit in order: nobody leaves with children, a parent does not exit with its child.
Exits ==
  /\ \A p \in Procs : Leaving(p) => Len(childq[p]) = 0
  /\ \A p \in Procs : InExit(p) => p \in exiting
  /\ \A p \in exiting : state[p] # "UNUSED"
  /\ \A q \in exiting : state[q] \notin {"UNUSED", "ZOMBIE", "FREED"} => parent[q] \notin exiting
  /\ \A p \in Procs : pc[p] \in {"exit_parent", "exit_self"} => frame[p].who = parent[p]

\* The invariant of the families.
KInv == FamilyType /\ Children /\ Adopted /\ Parents /\ Exits

-----------------------------------------------------------------------------
\* p is in read or write.
IOLabel == {"write_lock", "write_loop", "write_full", "write_woken", "read_loop", "read_empty",
            "read_woken", "io_done", "io_killed"}
InIO(p) == pc[p] \in IOLabel \/ (pc[p] \in InSleep \cup InWake /\ frame[p].ret \in IOLabel)

\* Types of the descriptors and of the arguments of read and write; outside of them
\* nothing has been moved.
IOInv ==
  /\ DOMAIN fds = Procs /\ DOMAIN arg = Procs /\ DOMAIN pos = Procs
  /\ \A p \in Procs : /\ fds[p] \subseteq {"r", "w"}
                      /\ arg[p] \in Sizes \cup {0} /\ pos[p] \in 0 .. arg[p]
                      /\ ~InIO(p) => pos[p] = 0

\* The two things the locks of exit and wait do not allow for: a parent and its child that
\* exit at the same time, and a process in wait that is killed.
Orderly == ~JointExit /\ \A p \in Killable : "wait" \notin Calls[p]

\* No write is larger than the ring.
SmallWrites == \A n \in Sizes : n <= PIPESIZE

\* p sleeps on c, or is entered in the list of c next.
Sleeps(p, c) == oncv[p] = c \/ (pc[p] = "enqueue" /\ frame[p].cv = c)

\* A writer has all the bytes of the ring to wake the readers for, a reader has made room.
Wrote(r) == pc[r] = "write_loop" /\ pos[r] > 0 /\ nwrite - nread <= pos[r]
HasRead(r) == pc[r] = "read_loop" /\ pos[r] > 0

\* Who decides to sleep on the pipe has a reason until the lock of the condition variable
\* is taken; from there on the reason holds or a wake-up is on its way.
PipeDecides ==
  \A p \in Procs :
    /\ pc[p] = "read_empty" => Empty
    /\ pc[p] = "write_full" => Full
    /\ pc[p] = "sleep" /\ frame[p].cv = empty => Empty /\ writeopen
    /\ pc[p] = "sleep" /\ frame[p].cv = full => Full
PipeSleeps ==
  \A p \in Procs :
    /\ Sleeps(p, empty) => (Empty /\ writeopen) \/ Waking(empty) \/ \E r \in Procs : Wrote(r)
    /\ Sleeps(p, full) => Full \/ Waking(full) \/ \E r \in Procs : HasRead(r)
PipeWake == PipeDecides /\ PipeSleeps

\* q has begun to wake its parent, under its own lock, or is dead.
Announced(q) ==
  \/ state[q] = "ZOMBIE" \/ pc[q] \in {"exit_init", "exit_zombie"}
  \/ pc[q] \in InWake /\ frame[q].ret \in {"exit_init", "exit_zombie"}

\* An exiting process has still to wake init.
WillWakeInit(r) == wakeupinit[r] /\ pc[r] # "exit_zombie"

\* The children of p that have been scanned, and all of them, are not at their end.
QuietKids(p) == \A i \in 1 .. Len(childq[p]) : i < kid[p] => ~Announced(childq[p][i])
AllQuiet(p) == \A q \in Users : InList(q, childq[p]) => ~Announced(q)

\* The same for wait: no child that has been scanned announces its end during the scan,
\* nor does any after the scan, until the lock of the condition variable is taken.
ChildWake ==
  /\ wakeupinit \in [Procs -> BOOLEAN]
  /\ \A p \in Procs :
    /\ pc[p] # "scan" => kid[p] = 1
    /\ pc[p] = "scan" => QuietKids(p)
    /\ pc[p] = "sleep" /\ frame[p].cv = cv(p) => AllQuiet(p)
    /\ Sleeps(p, cv(p)) => \/ AllQuiet(p) \/ Waking(cv(p))
                           \/ p = bootproc /\ \E r \in Procs : WillWakeInit(r)
    /\ wakeupinit[p] /\ pc[p] \in InWake /\ frame[p].ret = "exit_zombie" => frame[p].cv = cv(bootproc)
=============================================================================
