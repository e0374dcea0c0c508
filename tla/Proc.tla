-------------------------------- MODULE Proc --------------------------------
(***************************************************************************)
(* fork, exit, wait and kill (kernel/proc.cc).  A process keeps its        *)
(* children in childq until it reaps them; an exiting process passes its   *)
(* children to bootproc.  The fields of a process are protected by its     *)
(* lock, and a parent waits for its children on a condition variable of    *)
(* its own.                                                                *)
(***************************************************************************)
EXTENDS Condvar

CONSTANTS bootproc,   \* init
          JointExit   \* whether a parent and its child may exit at the same time

VARIABLES parent, childq,  \* of each process
          kid,             \* of each process in wait: position in childq
          wakeupinit,      \* of each process in exit
          exiting          \* the processes that have called exit

proc_vars == <<parent, childq, kid, wakeupinit, exiting>>

\* The condition variable of process p
cv(p) == <<"cv", p>>

-----------------------------------------------------------------------------
\* doclone: the child q is entered in childq and, last, made runnable (addrun).
doclone(p, q) ==
  /\ pc[p] = "user" /\ state[q] = "UNUSED"
  /\ Free(plock(p))
  /\ parent' = [parent EXCEPT ![q] = p]
  /\ childq' = [childq EXCEPT ![p] = Append(@, q)]
  /\ state' = [state EXCEPT ![q] = "RUNNABLE"]
  /\ Goto(q, "forkret")
  /\ UNCHANGED <<holder, waiters, oncv, killed, frame, panic, kid, wakeupinit, exiting>>

-----------------------------------------------------------------------------
\* wait(-1), from user space and in its loop: the scan of the children under the lock of the process
wait_lock(p) ==
  /\ Free(plock(p))
  /\ Locking(p, {}, {plock(p)})
  /\ Goto(p, "scan")
  /\ UNCHANGED <<waiters, oncv, state, killed, frame, proc_vars>>

\* A list without its element number i
erase(s, i) == SubSeq(s, 1, i - 1) \o SubSeq(s, i + 1, Len(s))

\* One child, under its lock; a zombie is removed and freed.
wait_scan(p) ==
  LET q == childq[p][kid[p]] IN
  /\ pc[p] = "scan"
  /\ kid[p] <= Len(childq[p])
  /\ Free(plock(q))
  /\ IF state[q] = "ZOMBIE"
     THEN /\ childq' = [childq EXCEPT ![p] = erase(@, kid[p])]
          /\ state' = [state EXCEPT ![q] = "FREED"]
          /\ Locking(p, {plock(p)}, {})
          /\ kid' = [kid EXCEPT ![p] = 1]
          /\ Goto(p, "user")
     ELSE /\ kid' = [kid EXCEPT ![p] = @ + 1]
          /\ UNCHANGED <<childq, state, holder, panic, pc>>
  /\ UNCHANGED <<waiters, oncv, killed, frame, parent, wakeupinit, exiting>>

wait_sleep(p) ==
  /\ pc[p] = "scan"
  /\ kid[p] > Len(childq[p])
  /\ IF childq[p] = <<>> \/ killed[p]
     THEN Locking(p, {plock(p)}, {}) /\ Goto(p, "user") /\ UNCHANGED frame
     ELSE Sleep(p, cv(p), <<plock(p)>>, "rewait", "user") /\ UNCHANGED <<holder, panic>>
  /\ kid' = [kid EXCEPT ![p] = 1]
  /\ UNCHANGED <<waiters, oncv, state, killed, parent, childq, wakeupinit, exiting>>

\* Mutant: the lock is kept for the next scan, which takes it again.
wait_again_hold(p) ==
  /\ pc[p] = "rewait"
  /\ Goto(p, "wait")
  /\ UNCHANGED <<holder, panic, waiters, oncv, state, killed, frame, proc_vars>>

wait_again(p) ==
  /\ pc[p] = "rewait"
  /\ Locking(p, {plock(p)}, {})
  /\ Goto(p, "wait")
  /\ UNCHANGED <<waiters, oncv, state, killed, frame, proc_vars>>

-----------------------------------------------------------------------------
\* Bounds on the environment, unless JointExit: p does not call exit while its parent
\* or a child of it is in exit.
MayExit(p) ==
  \/ JointExit
  \/ /\ ~(parent[p] \in exiting /\ state[parent[p]] # "ZOMBIE")
     /\ \A q \in Procs : parent[q] = p /\ q \in exiting => state[q] \in {"ZOMBIE", "FREED"}

exit_call(p) ==
  /\ pc[p] = "user" /\ p # bootproc
  /\ MayExit(p)
  /\ exiting' = exiting \cup {p}
  /\ Goto(p, "exit_files")
  /\ UNCHANGED <<holder, waiters, oncv, state, killed, frame, panic, parent, childq, kid, wakeupinit>>

\* After the files are closed: a child is locked, then bootproc.
exit_pop(p) ==
  LET q == Head(childq[p]) IN
  /\ pc[p] = "exit"
  /\ childq[p] # <<>>
  /\ Free(plock(q))
  /\ Locking(p, {}, {plock(q)})
  /\ childq' = [childq EXCEPT ![p] = Tail(@)]
  /\ frame' = [frame EXCEPT ![p].who = q]
  /\ Goto(p, "adopt")
  /\ UNCHANGED <<waiters, oncv, state, killed, parent, kid, wakeupinit, exiting>>

\* Mutant: the child keeps its old parent.
exit_adopt_noparent(p) ==
  LET q == frame[p].who IN
  /\ pc[p] = "adopt"
  /\ Free(plock(bootproc))
  /\ Locking(p, {plock(q)}, {})
  /\ childq' = [childq EXCEPT ![bootproc] = Append(@, q)]
  /\ wakeupinit' = [wakeupinit EXCEPT ![p] = @ \/ state[q] = "ZOMBIE"]
  /\ frame' = [frame EXCEPT ![p] = NoFrame]
  /\ Goto(p, "exit")
  /\ UNCHANGED <<waiters, oncv, state, killed, parent, kid, exiting>>

exit_adopt(p) ==
  LET q == frame[p].who IN
  /\ pc[p] = "adopt"
  /\ Free(plock(bootproc))
  /\ Locking(p, {plock(q)}, {})
  /\ parent' = [parent EXCEPT ![q] = bootproc]
  /\ childq' = [childq EXCEPT ![bootproc] = Append(@, q)]
  /\ wakeupinit' = [wakeupinit EXCEPT ![p] = @ \/ state[q] = "ZOMBIE"]
  /\ frame' = [frame EXCEPT ![p] = NoFrame]
  /\ Goto(p, "exit")
  /\ UNCHANGED <<waiters, oncv, state, killed, kid, exiting>>

\* The parent is read, then locked, then the process itself is locked and the lock
\* of whoever is the parent by then is released.
exit_read_parent(p) ==
  /\ pc[p] = "exit"
  /\ childq[p] = <<>>
  /\ frame' = [frame EXCEPT ![p].who = parent[p]]
  /\ Goto(p, "exit_parent")
  /\ UNCHANGED <<holder, waiters, oncv, state, killed, panic, proc_vars>>

exit_lock_parent(p) ==
  /\ pc[p] = "exit_parent"
  /\ Free(plock(frame[p].who))
  /\ Locking(p, {}, {plock(frame[p].who)})
  /\ Goto(p, "exit_self")
  /\ UNCHANGED <<waiters, oncv, state, killed, frame, proc_vars>>

exit_lock_self(p) ==
  /\ pc[p] = "exit_self"
  /\ Free(plock(p))
  /\ Locking(p, {plock(parent[p])}, {plock(p)})
  /\ WakeAll(p, cv(parent[p]), None, IF wakeupinit[p] THEN "exit_init" ELSE "exit_zombie")
  /\ UNCHANGED <<waiters, oncv, state, killed, proc_vars>>

exit_wake_init(p) ==
  /\ pc[p] = "exit_init"
  /\ WakeAll(p, cv(bootproc), None, "exit_zombie")
  /\ UNCHANGED <<holder, waiters, oncv, state, killed, panic, proc_vars>>

\* The next process of the core releases the lock (post_swtch).
exit_zombie(p) ==
  /\ pc[p] = "exit_zombie"
  /\ holder' = [holder EXCEPT ![plock(p)] = None]
  /\ panic' = (panic \/ state[p] # "RUNNING" \/ holder[plock(p)] # p)
  /\ state' = [state EXCEPT ![p] = "ZOMBIE"]
  /\ wakeupinit' = [wakeupinit EXCEPT ![p] = FALSE]
  /\ Goto(p, "dead")
  /\ UNCHANGED <<waiters, oncv, killed, frame, parent, childq, kid, exiting>>

-----------------------------------------------------------------------------
\* kill: the lock of q is held while everyone who sleeps with q is woken.
kill(p, q) ==
  /\ pc[p] = "user"
  /\ state[q] \notin {"UNUSED", "FREED"}
  /\ Free(plock(q))
  /\ killed' = [killed EXCEPT ![q] = TRUE]
  /\ IF state[q] = "SLEEPING"
     THEN Locking(p, {}, {plock(q)}) /\ WakeAll(p, oncv[q], q, "kill_end")
     ELSE UNCHANGED <<holder, panic, frame, pc>>
  /\ UNCHANGED <<waiters, oncv, state, proc_vars>>

kill_end(p) ==
  /\ pc[p] = "kill_end"
  /\ Locking(p, {plock(frame[p].who)}, {})
  /\ frame' = [frame EXCEPT ![p] = NoFrame]
  /\ Goto(p, "user")
  /\ UNCHANGED <<waiters, oncv, state, killed, proc_vars>>

ProcStep(p) ==
  \/ (pc[p] = "wait" /\ wait_lock(p)) \/ wait_scan(p) \/ wait_sleep(p) \/ wait_again(p)
  \/ exit_pop(p) \/ exit_adopt(p) \/ exit_read_parent(p) \/ exit_lock_parent(p)
  \/ exit_lock_self(p) \/ exit_wake_init(p) \/ exit_zombie(p) \/ kill_end(p)
=============================================================================
