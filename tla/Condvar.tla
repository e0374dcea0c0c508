------------------------------ MODULE Condvar -------------------------------
(***************************************************************************)
(* Spin locks, condition variables and the states of processes             *)
(* (kernel/condvar.cc, kernel/sched.cc, kernel/spinlock.cc).  A process    *)
(* that sleeps gives up the locks it is given, waits in the list of the    *)
(* condition variable, and takes the locks again when it is woken; if it   *)
(* has been killed it then leaves by an exception.  Any runnable process   *)
(* may be the next one a core runs.                                        *)
(*                                                                         *)
(* Other modules model the callers: they set pc and frame to call sleep    *)
(* or wake_all, and go on at the label that the frame names.  Sleeping     *)
(* with a timeout is not modelled.                                         *)
(***************************************************************************)
EXTENDS Naturals, Sequences, Functions

CONSTANTS Procs,  \* the processes
          Cvs,    \* the condition variables; each names its own lock, too
          Spins,  \* the locks of other objects
          None    \* no process, no condition variable

plock(p) == <<"proc", p>>
Locks == {plock(p) : p \in Procs} \cup Cvs \cup Spins

VARIABLES holder,   \* the holder of each lock
          waiters,  \* the processes asleep on each condition variable
          oncv,     \* what each process sleeps on
          state,    \* UNUSED, SLEEPING, RUNNABLE, RUNNING, ZOMBIE, FREED
          killed,
          pc,       \* where each process is
          frame,    \* the arguments of the call it is in
          panic     \* the kernel has panicked

cv_vars == <<holder, waiters, oncv, state, killed, pc, frame, panic>>

\* cv: the condition variable; lks: the locks to give up; who: another process
\* concerned; ret, exc: where to go on, also by exception.
NoFrame == [cv |-> None, lks |-> <<>>, who |-> None, ret |-> "user", exc |-> "user"]

Free(l) == holder[l] = None
Goto(p, label) == pc' = [pc EXCEPT ![p] = label]

\* Some locks are released and some acquired by p; releasing a lock it does not hold
\* is a panic.
Locking(p, rel, acq) ==
  /\ holder' = [l \in Locks |-> IF l \in acq THEN p ELSE IF l \in rel THEN None ELSE holder[l]]
  /\ panic' = (panic \/ \E l \in rel : holder[l] # p)

\* Calls of condvar::sleep and condvar::wake_all
Sleep(p, cv, lks, ret, exc) ==
  /\ frame' = [frame EXCEPT ![p].cv = cv, ![p].lks = lks, ![p].ret = ret, ![p].exc = exc]
  /\ Goto(p, "sleep")
WakeAll(p, cv, callerproc, ret) ==
  /\ frame' = [frame EXCEPT ![p].cv = cv, ![p].who = callerproc, ![p].ret = ret]
  /\ Goto(p, "wake")

-----------------------------------------------------------------------------
\* condvar::sleep_to: the lock of the condition variable is taken before the
\* caller's locks are given up.
sleep_to(p) ==
  LET f == frame[p] IN
  /\ pc[p] = "sleep"
  /\ Free(f.cv)
  /\ Locking(p, Range(f.lks), {f.cv})
  /\ Goto(p, "enqueue")
  /\ UNCHANGED <<waiters, oncv, state, killed, frame>>

\* The lock of the process is taken, and released by the next process of the core
\* (sched, post_swtch); under it nobody sees the steps between.
sleep_enqueue(p) ==
  LET cv == frame[p].cv IN
  /\ pc[p] = "enqueue"
  /\ Free(plock(p))
  /\ holder' = [holder EXCEPT ![cv] = None]
  /\ panic' = (panic \/ oncv[p] # None \/ state[p] # "RUNNING")
  /\ waiters' = [waiters EXCEPT ![cv] = <<p>> \o @]
  /\ oncv' = [oncv EXCEPT ![p] = cv]
  /\ state' = [state EXCEPT ![p] = "SLEEPING"]
  /\ Goto(p, "swtch")
  /\ UNCHANGED <<killed, frame>>

\* A core picks a runnable process; a new one starts in user space.
resume(p) ==
  /\ pc[p] \in {"swtch", "forkret"}
  /\ state[p] = "RUNNABLE"
  /\ state' = [state EXCEPT ![p] = "RUNNING"]
  /\ Goto(p, IF pc[p] = "swtch" THEN "relock" ELSE "user")
  /\ UNCHANGED <<holder, waiters, oncv, killed, frame, panic>>

\* The rest of sleep_to: the caller's locks, one after the other, then killed.
sleep_relock(p) ==
  LET f == frame[p] IN
  /\ pc[p] = "relock"
  /\ Free(f.lks[1])
  /\ Locking(p, {}, {f.lks[1]})
  /\ IF Len(f.lks) > 1
     THEN frame' = [frame EXCEPT ![p].lks = Tail(@)] /\ UNCHANGED pc
     ELSE Goto(p, IF killed[p] THEN f.exc ELSE f.ret) /\ frame' = [frame EXCEPT ![p] = NoFrame]
  /\ UNCHANGED <<waiters, oncv, state, killed>>

-----------------------------------------------------------------------------
\* condvar::wake_all; callerproc is the process whose lock the caller holds.
wake_all(p) ==
  LET cv == frame[p].cv IN
  /\ pc[p] = "wake"
  /\ Free(cv)
  /\ Locking(p, {}, {cv})
  /\ Goto(p, "wake_loop")
  /\ UNCHANGED <<waiters, oncv, state, killed, frame>>

wake_one(p) ==
  LET cv == frame[p].cv
      q == Head(waiters[cv])
  IN
  /\ pc[p] = "wake_loop"
  /\ waiters[cv] # <<>>
  /\ q = frame[p].who \/ Free(plock(q))
  /\ panic' = (panic \/ state[q] # "SLEEPING" \/ oncv[q] # cv)
  /\ waiters' = [waiters EXCEPT ![cv] = Tail(@)]
  /\ oncv' = [oncv EXCEPT ![q] = None]
  /\ state' = [state EXCEPT ![q] = "RUNNABLE"]
  /\ UNCHANGED <<holder, killed, pc, frame>>

wake_return(p) ==
  LET f == frame[p] IN
  /\ pc[p] = "wake_loop"
  /\ waiters[f.cv] = <<>>
  /\ Locking(p, {f.cv}, {})
  /\ frame' = [frame EXCEPT ![p].cv = None, ![p].ret = "user"]
  /\ Goto(p, f.ret)
  /\ UNCHANGED <<waiters, oncv, state, killed>>

CondvarStep(p) ==
  \/ sleep_to(p) \/ sleep_enqueue(p) \/ resume(p) \/ sleep_relock(p)
  \/ wake_all(p) \/ wake_one(p) \/ wake_return(p)
=============================================================================
