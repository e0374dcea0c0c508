---------------------------- MODULE ShellProofs -----------------------------
(***************************************************************************)
(* The wake-ups of wait, and the theorems about the composition of         *)
(* processes, condition variables and pipes, for any number of processes   *)
(* and any mix of system calls.                                            *)
(***************************************************************************)
EXTENDS ShellStepProofs

\* Who scans its children, or decides to sleep in wait, holds its own lock.
LEMMA WaitHolds ==
  ASSUME LInv, NEW r \in Procs, pc[r] = "scan" \/ (pc[r] = "sleep" /\ frame[r].cv = cv(r))
  PROVE  plock(r) \in HoldsNow(r)
<1>1. CASE pc[r] = "scan"
  BY ZenonT(60), <1>1 DEF HoldsNow, Holds, LocksAt
<1>2. CASE pc[r] = "sleep" /\ frame[r].cv = cv(r)
  <2>1. SleepFrame(r, "sleep", frame[r])
    BY Zenon, <1>2, Here DEF FrameOK, InSleep
  <2>2. frame[r].ret = "rewait"
    BY ZenonT(60), <1>2, <2>1, CvNames DEF SleepFrame
  <2> QED
    BY ZenonT(60), <1>2, <2>2 DEF HoldsNow, Holds, LocksAt
<1> QED
  BY Zenon, <1>1, <1>2

\* So does who has announced its end and is not dead yet.
LEMMA AnnouncedHolds ==
  ASSUME LInv, NEW q \in Procs, Announced(q), state[q] # "ZOMBIE"
  PROVE  plock(q) \in HoldsNow(q)
BY Zenon DEF Announced, InWake, HoldsNow, Holds, LocksAt

\* A step of another process leaves the children of r alone, or r is in user space,
\* or r neither scans them nor decides to sleep, and they are as quiet as before or
\* a wake-up is on its way.
Undisturbed(r) ==
  \/ pc[r] = "user"
  \/ childq'[r] = childq[r] /\ \A q \in Users : InList(q, childq[r]) /\ Announced(q)' => Announced(q)
  \/ /\ plock(r) \notin HoldsNow(r)
     /\ (AllQuiet(r) => AllQuiet(r)') \/ Waking(cv(r))' \/ (r = bootproc /\ \E s \in Procs : WillWakeInit(s)')

\* ChildWake for a process that is undisturbed.
LEMMA ChildFrame ==
  ASSUME LInv, KInv, ChildWake, KeepsSleepers, NEW m \in Procs, Moves(m),
         \A r \in Procs \ {m} : Undisturbed(r) /\ kid'[r] = kid[r] /\ wakeupinit'[r] = wakeupinit[r],
         wakeupinit' \in [Procs -> BOOLEAN],
         pc'[m] # "scan" => kid'[m] = 1, pc'[m] = "scan" => QuietKids(m)',
         pc'[m] = "sleep" /\ frame'[m].cv = cv(m) => AllQuiet(m)',
         Sleeps(m, cv(m))' => (AllQuiet(m) => AllQuiet(m)'),
         wakeupinit'[m] /\ pc'[m] \in InWake /\ frame'[m].ret = "exit_zombie" => frame'[m].cv = cv(bootproc),
         WillWakeInit(m) => WillWakeInit(m)' \/ \A r \in Procs : ~Sleeps(r, cv(bootproc))'
  PROVE  ChildWake'
<1>1. \A r \in Procs :
        /\ pc[r] # "scan" => kid[r] = 1
        /\ pc[r] = "scan" => QuietKids(r)
        /\ pc[r] = "sleep" /\ frame[r].cv = cv(r) => AllQuiet(r)
        /\ Sleeps(r, cv(r)) => \/ AllQuiet(r) \/ Waking(cv(r))
                               \/ r = bootproc /\ \E s \in Procs : WillWakeInit(s)
        /\ wakeupinit[r] /\ pc[r] \in InWake /\ frame[r].ret = "exit_zombie" => frame[r].cv = cv(bootproc)
  BY Zenon DEF ChildWake
<1>2. ASSUME NEW r \in Procs, Sleeps(r, cv(r))'
      PROVE  /\ Sleeps(r, cv(r)) \/ (pc[r] = "sleep" /\ frame[r].cv = cv(r))
             /\ Waking(cv(r)) => Waking(cv(r))'
             /\ pc[r] # "user"
  <2>1. Sleeps(r, cv(r)) \/ (pc[r] = "sleep" /\ frame[r].cv = cv(r))
    BY Zenon, <1>2, Names DEF KeepsSleepers
  <2>2. Waking(cv(r)) => Waking(cv(r))'
    BY ZenonT(60), <1>2, Names DEF KeepsSleepers
  <2>3. ASSUME pc[r] = "user" PROVE oncv[r] = None
    BY ZenonT(60), <2>3 DEF LInv, StateOK
  <2> QED
    BY ZenonT(60), <2>1, <2>2, <2>3, Names DEF Sleeps
<1>3. ASSUME NEW r \in Procs, Sleeps(r, cv(r))'
      PROVE  AllQuiet(r) \/ Waking(cv(r))' \/ (r = bootproc /\ \E s \in Procs : WillWakeInit(s)')
  <2>1. AllQuiet(r) \/ Waking(cv(r)) \/ (r = bootproc /\ \E s \in Procs : WillWakeInit(s))
    BY Zenon, <1>1, <1>2, <1>3
  <2>2. ASSUME r = bootproc, NEW s \in Procs, WillWakeInit(s) PROVE WillWakeInit(s)'
    <3>1. CASE s = m
      BY Zenon, <1>3, <2>2, <3>1
    <3>2. CASE s # m
      BY Zenon, <2>2, <3>2 DEF WillWakeInit, Moves
    <3> QED
      BY Zenon, <3>1, <3>2
  <2> QED
    BY ZenonT(60), <1>2, <1>3, <2>1, <2>2
<1>4. ASSUME NEW r \in Procs \ {m}, childq'[r] = childq[r],
             \A q \in Users : InList(q, childq[r]) /\ Announced(q)' => Announced(q)
      PROVE  AllQuiet(r) => AllQuiet(r)'
  BY Zenon, <1>4 DEF AllQuiet
<1>5. ASSUME NEW r \in Procs \ {m}, childq'[r] = childq[r], QuietKids(r),
             \A q \in Users : InList(q, childq[r]) /\ Announced(q)' => Announced(q)
      PROVE  QuietKids(r)'
  <2>1. kid'[r] = kid[r]
    BY Zenon
  <2>2. ASSUME NEW i \in 1 .. Len(childq[r]), i < kid[r] PROVE ~Announced(childq[r][i])'
    <3>1. childq[r] \in Seq(Users)
      BY Zenon DEF KInv, FamilyType
    <3>2. childq[r][i] \in Users /\ InList(childq[r][i], childq[r])
      BY <3>1 DEF InList
    <3>3. ~Announced(childq[r][i])
      BY Zenon, <1>5, <2>2 DEF QuietKids
    <3>4. ASSUME NEW q \in Users, q = childq[r][i] PROVE ~Announced(q)'
      BY ZenonT(60), <1>5, <3>2, <3>3, <3>4
    <3>5. Announced(childq[r][i])' => \E q \in Users : q = childq[r][i] /\ Announced(q)'
      BY Zenon, <1>5, <3>2 DEF Announced
    <3> QED
      BY Zenon, <3>4, <3>5
  <2> QED
    BY Zenon, <1>5, <2>1, <2>2 DEF QuietKids
<1>6. ASSUME NEW r \in Procs \ {m}
      PROVE  /\ pc'[r] # "scan" => kid'[r] = 1
             /\ pc'[r] = "scan" => QuietKids(r)'
             /\ pc'[r] = "sleep" /\ frame'[r].cv = cv(r) => AllQuiet(r)'
             /\ Sleeps(r, cv(r))' => \/ AllQuiet(r)' \/ Waking(cv(r))'
                                     \/ r = bootproc /\ \E s \in Procs : WillWakeInit(s)'
             /\ wakeupinit'[r] /\ pc'[r] \in InWake /\ frame'[r].ret = "exit_zombie" => frame'[r].cv = cv(bootproc)
  <2>1. pc'[r] = pc[r] /\ frame'[r] = frame[r] /\ kid'[r] = kid[r] /\ wakeupinit'[r] = wakeupinit[r] /\ Undisturbed(r)
    BY Zenon DEF Moves
  <2>2. CASE pc[r] = "user"
    BY Zenon, <1>1, <1>2, <2>1, <2>2 DEF InWake
  <2>3. CASE childq'[r] = childq[r] /\ \A q \in Users : InList(q, childq[r]) /\ Announced(q)' => Announced(q)
    BY ZenonT(60), <1>1, <1>3, <1>4, <1>5, <2>1, <2>3
  <2>4. CASE /\ plock(r) \notin HoldsNow(r)
             /\ (AllQuiet(r) => AllQuiet(r)') \/ Waking(cv(r))' \/ (r = bootproc /\ \E s \in Procs : WillWakeInit(s)')
    <3>1. pc[r] # "scan" /\ ~(pc[r] = "sleep" /\ frame[r].cv = cv(r))
      BY Zenon, <2>4, WaitHolds
    <3> QED
      BY ZenonT(60), <1>1, <1>3, <2>1, <2>4, <3>1
  <2> QED
    BY Zenon, <2>1, <2>2, <2>3, <2>4 DEF Undisturbed
<1>7. Sleeps(m, cv(m))' => \/ AllQuiet(m)' \/ Waking(cv(m))'
                           \/ m = bootproc /\ \E s \in Procs : WillWakeInit(s)'
  BY Zenon, <1>3
<1>8. ASSUME NEW r \in Procs
      PROVE  /\ pc'[r] # "scan" => kid'[r] = 1
             /\ pc'[r] = "scan" => QuietKids(r)'
             /\ pc'[r] = "sleep" /\ frame'[r].cv = cv(r) => AllQuiet(r)'
             /\ Sleeps(r, cv(r))' => \/ AllQuiet(r)' \/ Waking(cv(r))'
                                     \/ r = bootproc /\ \E s \in Procs : WillWakeInit(s)'
             /\ wakeupinit'[r] /\ pc'[r] \in InWake /\ frame'[r].ret = "exit_zombie" => frame'[r].cv = cv(bootproc)
  <2>1. CASE r = m
    BY Zenon, <1>7, <2>1
  <2>2. CASE r # m
    BY Zenon, <1>6, <2>2
  <2> QED
    BY Zenon, <2>1, <2>2
<1> QED
  BY Zenon, <1>8 DEF ChildWake

-----------------------------------------------------------------------------
\* A step after which p alone can be at its end announces nothing new if p did so
\* before.
LEMMA HushBy ==
  ASSUME NEW m \in Procs, Moves(m), \A r \in Procs \ {m} : state'[r] = "ZOMBIE" => state[r] = "ZOMBIE",
         Announced(m)' => Announced(m)
  PROVE  \A r \in Procs : Announced(r)' => Announced(r)
<1> SUFFICES ASSUME NEW r \in Procs, r # m, Announced(r)' PROVE Announced(r)
  BY Zenon
<1> QED
  BY Zenon DEF Announced, Moves

\* A step that leaves the children alone.
LEMMA Calm ==
  ASSUME LInv, KInv, ChildWake, KeepsSleepers, NEW m \in Procs, Moves(m),
         UNCHANGED <<childq, kid, wakeupinit>>, \A r \in Procs : Announced(r)' => Announced(r),
         pc[m] # "scan", pc'[m] # "scan",
         pc'[m] = "sleep" => frame'[m].cv # cv(m) \/ (pc[m] = "sleep" /\ frame[m].cv = cv(m)),
         wakeupinit[m] /\ pc'[m] \in InWake /\ frame'[m].ret = "exit_zombie" => frame'[m].cv = cv(bootproc),
         WillWakeInit(m) => WillWakeInit(m)' \/ \A r \in Procs : ~Sleeps(r, cv(bootproc))'
  PROVE  ChildWake'
<1>1. \A r \in Procs \ {m} : Undisturbed(r) /\ kid'[r] = kid[r] /\ wakeupinit'[r] = wakeupinit[r]
  BY Zenon DEF Undisturbed, Users
<1>2. AllQuiet(m) => AllQuiet(m)'
  BY Zenon DEF AllQuiet, Users
<1>3. /\ wakeupinit' \in [Procs -> BOOLEAN] /\ kid'[m] = 1
      /\ pc[m] = "sleep" /\ frame[m].cv = cv(m) => AllQuiet(m)
  BY Zenon DEF ChildWake
<1> QED
  BY ZenonT(60), <1>1, <1>2, <1>3, ChildFrame

\* The steps of sleep and wake_all announce nothing.
LEMMA CondvarHush ==
  ASSUME LInv, NEW p \in Procs, CondvarStep(p)
  PROVE  \A r \in Procs : Announced(r)' => Announced(r)
<1>0. DOMAIN pc = Procs /\ DOMAIN frame = Procs /\ FrameOK(p, pc[p], frame[p]) /\ Moves(p)
  BY ZenonT(60), Here, CondvarLabels
<1>1. \A r \in Procs : state'[r] = "ZOMBIE" => state[r] = "ZOMBIE"
  BY ZenonT(60) DEF LInv, CoreType, CondvarStep, sleep_to, sleep_enqueue, resume, sleep_relock, wake_all, wake_one, wake_return
<1>2. Announced(p)' => Announced(p)
  <2> USE DEF Announced, InWake
  <2>1. CASE sleep_to(p)
    BY ZenonT(60), <1>0, <1>1, <2>1 DEF sleep_to, Goto
  <2>2. CASE sleep_enqueue(p)
    BY ZenonT(60), <1>0, <1>1, <2>2 DEF sleep_enqueue, Goto
  <2>3. CASE resume(p)
    BY ZenonT(60), <1>0, <1>1, <2>3 DEF resume, Goto
  <2>4. CASE sleep_relock(p)
    <3>1. pc'[p] \in {"relock", "rewait", "read_woken", "write_woken", "io_killed"}
      <4>1. SleepFrame(p, "relock", frame[p]) /\ pc[p] = "relock"
        BY ZenonT(60), <1>0, <2>4 DEF FrameOK, InSleep, sleep_relock
      <4>2. killed[p] => p \in Killable
        BY Zenon DEF LInv
      <4>3. pc'[p] = "relock" \/ pc'[p] = IF killed[p] THEN frame[p].exc ELSE frame[p].ret
        BY ZenonT(60), <1>0, <2>4, <4>1 DEF sleep_relock, Goto
      <4> QED
        BY ZenonT(60), <4>1, <4>2, <4>3 DEF SleepFrame
    <3> QED
      BY Zenon, <1>1, <3>1
  <2>5. CASE wake_all(p)
    BY ZenonT(60), <1>0, <1>1, <2>5 DEF wake_all, Goto
  <2>6. CASE wake_one(p)
    BY ZenonT(60), <1>0, <1>1, <2>6 DEF wake_one
  <2>7. CASE wake_return(p)
    <3>1. pc[p] = "wake_loop" /\ pc'[p] = frame[p].ret
      BY Zenon, <1>0, <2>7 DEF wake_return, Goto
    <3>2. frame[p].ret \in {"exit_init", "exit_zombie", "kill_end", "io_done", "closed"}
      BY ZenonT(60), <1>0, <3>1, WakeLocks DEF FrameOK
    <3> QED
      BY ZenonT(60), <1>1, <3>1, <3>2
  <2> QED
    BY ZenonT(60), <2>1, <2>2, <2>3, <2>4, <2>5, <2>6, <2>7 DEF CondvarStep
<1> QED
  BY ZenonT(60), <1>0, <1>1, <1>2, HushBy

\* sleep and wake_all keep ChildWake: a parent is entered in its list under the
\* lock that the waker takes.
LEMMA CondvarChild ==
  ASSUME LInv, KInv, ChildWake, NEW p \in Procs, CondvarStep(p), UNCHANGED <<childq, kid, wakeupinit>>
  PROVE  ChildWake'
<1>0. DOMAIN pc = Procs /\ DOMAIN frame = Procs /\ FrameOK(p, pc[p], frame[p])
  BY Zenon, Here
<1>1. /\ Moves(p) /\ pc[p] \in InSleep \cup InWake \cup {"forkret"} /\ KeepsSleepers
      /\ pc'[p] \notin {"sleep", "wake", "scan"} \/ (pc'[p] = pc[p] /\ frame'[p] = frame[p])
  BY Zenon, CondvarLabels, CondvarSleepers
<1>2. pc[p] # "scan" /\ pc'[p] # "scan"
  BY Zenon, <1>1 DEF InSleep, InWake
<1>3. pc'[p] = "sleep" => frame'[p].cv # cv(p) \/ (pc[p] = "sleep" /\ frame[p].cv = cv(p))
  BY Zenon, <1>1
<1>4. wakeupinit[p] /\ pc[p] \in InWake /\ frame[p].ret = "exit_zombie" => frame[p].cv = cv(bootproc)
  BY Zenon DEF ChildWake
<1>5. \/ pc'[p] \in InWake /\ pc[p] \in InWake /\ frame'[p] = frame[p]
      \/ pc'[p] \notin InWake /\ pc'[p] # "exit_zombie"
      \/ wake_return(p) /\ pc'[p] = "exit_zombie" /\ pc[p] \in InWake /\ frame[p].ret = "exit_zombie"
  <2> USE DEF InWake
  <2>1. CASE sleep_to(p)
    BY Zenon, <1>0, <2>1 DEF sleep_to, Goto
  <2>2. CASE sleep_enqueue(p)
    BY Zenon, <1>0, <2>2 DEF sleep_enqueue, Goto
  <2>3. CASE resume(p)
    BY Zenon, <1>0, <2>3 DEF resume, Goto
  <2>4. CASE sleep_relock(p)
    <3>1. pc'[p] \in {"relock", "rewait", "read_woken", "write_woken", "io_killed"}
      <4>1. SleepFrame(p, "relock", frame[p]) /\ pc[p] = "relock"
        BY Zenon, <1>0, <2>4 DEF FrameOK, InSleep, sleep_relock
      <4>2. killed[p] => p \in Killable
        BY Zenon DEF LInv
      <4>3. pc'[p] = "relock" \/ pc'[p] = IF killed[p] THEN frame[p].exc ELSE frame[p].ret
        BY Zenon, <1>0, <2>4, <4>1 DEF sleep_relock, Goto
      <4> QED
        BY Zenon, <4>1, <4>2, <4>3 DEF SleepFrame
    <3> QED
      BY Zenon, <3>1
  <2>5. CASE wake_all(p)
    BY Zenon, <1>0, <2>5 DEF wake_all, Goto
  <2>6. CASE wake_one(p)
    BY Zenon, <1>0, <2>6 DEF wake_one
  <2>7. CASE wake_return(p)
    <3>1. pc[p] = "wake_loop" /\ pc'[p] = frame[p].ret
      BY Zenon, <1>0, <2>7 DEF wake_return, Goto
    <3>2. frame[p].ret \in {"exit_init", "exit_zombie", "kill_end", "io_done", "closed"}
      BY Zenon, <1>0, <3>1, WakeLocks DEF FrameOK
    <3> QED
      BY Zenon, <2>7, <3>1, <3>2
  <2> QED
    BY ZenonT(60), <2>1, <2>2, <2>3, <2>4, <2>5, <2>6, <2>7 DEF CondvarStep
<1>6. wakeupinit[p] /\ pc'[p] \in InWake /\ frame'[p].ret = "exit_zombie" => frame'[p].cv = cv(bootproc)
  BY Zenon, <1>4, <1>5 DEF InWake
<1>7. WillWakeInit(p) => WillWakeInit(p)' \/ \A r \in Procs : ~Sleeps(r, cv(bootproc))'
  <2> SUFFICES ASSUME WillWakeInit(p), ~WillWakeInit(p)' PROVE \A r \in Procs : ~Sleeps(r, cv(bootproc))'
    BY Zenon
  <2>1. wakeupinit[p] /\ pc'[p] = "exit_zombie"
    BY Zenon DEF WillWakeInit
  <2>2. wake_return(p) /\ frame[p].cv = cv(bootproc)
    BY Zenon, <1>4, <1>5, <2>1 DEF InWake
  <2> QED
    BY Zenon, <2>2, WokenAll
<1> QED
  BY ZenonT(60), <1>1, <1>2, <1>3, <1>6, <1>7, CondvarHush, Calm

\* The steps of the pipe announce nothing.
LEMMA PipeHush ==
  ASSUME LInv, NEW p \in Procs, Apart(p), UNCHANGED state,
         \/ pc'[p] \notin InWake \cup {"exit_init", "exit_zombie"}
         \/ pc'[p] = "wake" /\ frame'[p].ret \in {"io_done", "closed", "kill_end"}
  PROVE  \A r \in Procs : Announced(r)' => Announced(r)
<1>1. Announced(p)' => Announced(p)
  BY Zenon DEF Announced, InWake
<1> QED
  BY Zenon, <1>1, HushBy DEF Apart

-----------------------------------------------------------------------------
\* A process that moves apart from condvar.cc is not asleep.
LEMMA ApartAwake ==
  ASSUME LInv, NEW m \in Procs, Apart(m), NEW c \in Cvs
  PROVE  ~Sleeps(m, c)'
<1>1. oncv[m] # c
  BY ZenonT(60), Names DEF LInv, StateOK, Apart, InSleep
<1> QED
  BY ZenonT(60), <1>1 DEF Apart, Sleeps

\* Where a step goes that is of no concern to a parent in wait.
Unconcerned(p) ==
  \/ pc'[p] \notin InWake \cup {"exit_init", "exit_zombie", "scan", "sleep"}
  \/ pc'[p] = "wake" /\ frame'[p].ret \in {"io_done", "closed", "kill_end"}
  \/ pc'[p] = "sleep" /\ frame'[p].cv \in {empty, full}

\* A step that is of no concern to a parent in wait keeps ChildWake.
LEMMA QuietCall ==
  ASSUME LInv, KInv, ChildWake, NEW p \in Procs, Apart(p), UNCHANGED <<state, childq, kid, wakeupinit>>,
         pc[p] # "scan", Unconcerned(p)
  PROVE  ChildWake'
<1>1. KeepsSleepers /\ Moves(p)
  BY Zenon, ApartSleepers DEF Apart
<1>2. \A r \in Procs : Announced(r)' => Announced(r)
  BY Zenon, PipeHush DEF Unconcerned, InWake
<1>3. /\ pc'[p] \notin {"scan", "exit_zombie"} /\ (pc'[p] = "sleep" => frame'[p].cv # cv(p))
      /\ pc'[p] \in InWake => frame'[p].ret # "exit_zombie"
  BY Zenon, CvNames DEF Unconcerned, InWake
<1>4. WillWakeInit(p) => WillWakeInit(p)'
  BY Zenon, <1>3 DEF WillWakeInit
<1> QED
  BY ZenonT(60), <1>1, <1>2, <1>3, <1>4, Calm

\* The steps of the pipe are of no concern to it,
LEMMA PipeUnconcerned ==
  ASSUME LInv, NEW p \in Procs, PipeStep(p)
  PROVE  Unconcerned(p) /\ pc[p] # "scan" /\ state' = state
<1>0. DOMAIN pc = Procs /\ DOMAIN frame = Procs /\ FrameOK(p, pc[p], frame[p])
  BY Zenon, Here
<1>1. DOMAIN frame[p] = {"cv", "lks", "who", "ret", "exc"}
  BY Zenon, <1>0 DEF FrameOK
<1> USE DEF Unconcerned, InWake, Goto, WakeAll, Sleep
<1>2. CASE write_lock(p)
  BY ZenonT(60), <1>0, <1>1, <1>2 DEF write_lock
<1>3. CASE write_loop(p)
  BY <1>0, <1>1, <1>3 DEF write_loop, Return
<1>4. CASE write_full(p)
  BY <1>0, <1>1, <1>4 DEF write_full, Return
<1>5. CASE read_loop(p)
  BY <1>0, <1>1, <1>5 DEF read_loop, Return
<1>6. CASE read_empty(p)
  BY <1>0, <1>1, <1>6 DEF read_empty, Return
<1>7. CASE io_woken(p)
  BY Zenon, <1>0, <1>7 DEF io_woken
<1>8. CASE io_return(p)
  BY Zenon, <1>0, <1>8 DEF io_return, Return
<1>9. CASE pipeclose(p)
  BY ZenonT(60), <1>0, <1>1, <1>9 DEF pipeclose
<1>10. CASE pipeclosed(p)
  <2>1. frame[p].exc \in {"user", "exit"}
    BY Zenon, <1>0, <1>10 DEF pipeclosed, FrameOK, InSleep
  <2> QED
    BY ZenonT(60), <1>0, <1>10, <2>1 DEF pipeclosed
<1> QED
  BY ZenonT(60), <1>2, <1>3, <1>4, <1>5, <1>6, <1>7, <1>8, <1>9, <1>10 DEF PipeStep

\* nor are the other calls.
LEMMA CallUnconcerned ==
  ASSUME LInv, NEW p \in Procs, NEW n, NEW ends, NEW ret,
         \/ write_call(p, n) \/ read_call(p, n) \/ reader_onzero(p) \/ kill(p, n)
         \/ pc[p] \in {"user", "exit_files"} /\ ret \in {"user", "exit"} /\ close_fds(p, ends, ret)
         \/ exit_call(p) \/ wait_again(p) \/ exit_read_parent(p) \/ exit_lock_parent(p) \/ kill_end(p)
  PROVE  Unconcerned(p) /\ pc[p] # "scan" /\ state' = state
<1>0. DOMAIN pc = Procs /\ DOMAIN frame = Procs /\ FrameOK(p, pc[p], frame[p])
  BY Zenon, Here
<1>1. DOMAIN frame[p] = {"cv", "lks", "who", "ret", "exc"}
  BY Zenon, <1>0 DEF FrameOK
<1> USE DEF Unconcerned, InWake, Goto, WakeAll
<1>2. CASE write_call(p, n)
  BY Zenon, <1>0, <1>2 DEF write_call
<1>3. CASE read_call(p, n)
  BY Zenon, <1>0, <1>3 DEF read_call
<1>4. CASE reader_onzero(p)
  BY Zenon, <1>0, <1>4 DEF reader_onzero
<1>5. CASE kill(p, n)
  BY <1>0, <1>1, <1>5 DEF kill
<1>6. CASE pc[p] \in {"user", "exit_files"} /\ ret \in {"user", "exit"} /\ close_fds(p, ends, ret)
  BY Zenon, <1>0, <1>6 DEF close_fds
<1>7. CASE exit_call(p)
  BY Zenon, <1>0, <1>7 DEF exit_call
<1>8. CASE wait_again(p)
  BY Zenon, <1>0, <1>8 DEF wait_again
<1>9. CASE exit_read_parent(p)
  BY Zenon, <1>0, <1>9 DEF exit_read_parent
<1>10. CASE exit_lock_parent(p)
  BY Zenon, <1>0, <1>10 DEF exit_lock_parent
<1>11. CASE kill_end(p)
  BY Zenon, <1>0, <1>11 DEF kill_end
<1> QED
  BY ZenonT(60), <1>2, <1>3, <1>4, <1>5, <1>6, <1>7, <1>8, <1>9, <1>10, <1>11

-----------------------------------------------------------------------------
\* wait begins a scan.
LEMMA WaitLockChild ==
  ASSUME LInv, KInv, ChildWake, NEW p \in Procs, wait_lock(p), pc[p] \in {"wait", "user"}
  PROVE  ChildWake'
<1>0. Apart(p) /\ KeepsSleepers /\ Moves(p) /\ cv(p) \in Cvs
  BY Zenon, ProcApart, ApartSleepers, Names DEF Apart, ProcStep
<1>1. pc'[p] = "scan" /\ UNCHANGED <<state, childq, kid, wakeupinit>>
  BY Zenon, Here DEF wait_lock, Goto, proc_vars
<1>2. \A r \in Procs : Announced(r)' => Announced(r)
  BY Zenon, <1>0, <1>1, PipeHush DEF InWake
<1>3. kid'[p] = 1 /\ wakeupinit' \in [Procs -> BOOLEAN]
  BY Zenon, <1>1 DEF ChildWake
<1>4. QuietKids(p)'
  BY <1>3 DEF QuietKids
<1>5. \A r \in Procs \ {p} : Undisturbed(r) /\ kid'[r] = kid[r] /\ wakeupinit'[r] = wakeupinit[r]
  BY Zenon, <1>1, <1>2 DEF Undisturbed, Users
<1>6. ~Sleeps(p, cv(p))'
  BY Zenon, <1>0, ApartAwake
<1>7. WillWakeInit(p) => WillWakeInit(p)'
  BY Zenon, <1>1 DEF WillWakeInit
<1> QED
  BY ZenonT(60), <1>0, <1>1, <1>3, <1>4, <1>5, <1>6, <1>7, ChildFrame DEF InWake

\* The scan has found no dead child, and the lock of the parent, which a dying
\* child takes, is held until it sleeps.
LEMMA WaitSleepChild ==
  ASSUME LInv, KInv, ChildWake, NEW p \in Procs, wait_sleep(p)
  PROVE  ChildWake'
<1>0. Apart(p) /\ KeepsSleepers /\ Moves(p) /\ cv(p) \in Cvs
  BY Zenon, ProcApart, ApartSleepers, Names DEF Apart, ProcStep
<1>1. /\ pc[p] = "scan" /\ kid[p] > Len(childq[p]) /\ pc'[p] \in {"user", "sleep"}
      /\ kid' = [kid EXCEPT ![p] = 1] /\ UNCHANGED <<state, childq, wakeupinit>>
  BY Zenon, Here DEF wait_sleep, Goto, Sleep
<1>2. \A r \in Procs : Announced(r)' => Announced(r)
  BY ZenonT(60), <1>0, <1>1, PipeHush DEF InWake
<1>3. kid \in [Procs -> Nat \ {0}] /\ childq[p] \in Seq(Users)
  BY Zenon DEF KInv, FamilyType
<1>4. kid'[p] = 1 /\ \A r \in Procs \ {p} : kid'[r] = kid[r]
  BY Zenon, <1>1, <1>3
<1>5. AllQuiet(p)
  <2>1. QuietKids(p)
    BY Zenon, <1>1 DEF ChildWake
  <2>2. ASSUME NEW i \in 1 .. Len(childq[p]) PROVE i < kid[p]
    BY <1>1, <1>3
  <2> QED
    BY Zenon, <2>1, <2>2 DEF AllQuiet, QuietKids, InList
<1>6. AllQuiet(p)'
  BY Zenon, <1>1, <1>2, <1>5 DEF AllQuiet, Users
<1>7. \A r \in Procs \ {p} : Undisturbed(r) /\ kid'[r] = kid[r] /\ wakeupinit'[r] = wakeupinit[r]
  BY Zenon, <1>1, <1>2, <1>4 DEF Undisturbed, Users
<1>8. WillWakeInit(p) => WillWakeInit(p)'
  BY Zenon, <1>1 DEF WillWakeInit
<1>9. wakeupinit' \in [Procs -> BOOLEAN] /\ pc'[p] \notin InWake \cup {"scan"}
  BY Zenon, <1>1 DEF ChildWake, InWake
<1> QED
  BY ZenonT(60), <1>0, <1>4, <1>6, <1>7, <1>8, <1>9, ChildFrame

-----------------------------------------------------------------------------
\* One child is scanned: it is not dead, and cannot announce its end while the scan
\* holds the lock of the parent.
LEMMA WaitScanChild ==
  ASSUME LInv, KInv, ChildWake, NEW p \in Procs, wait_scan(p)
  PROVE  ChildWake'
<1> DEFINE q == childq[p][kid[p]]
<1>0. Apart(p) /\ KeepsSleepers /\ Moves(p) /\ cv(p) \in Cvs
  BY ZenonT(60), ProcApart, ApartSleepers, Names DEF Apart, ProcStep
<1>1. pc[p] = "scan" /\ kid[p] <= Len(childq[p]) /\ Free(plock(q)) /\ UNCHANGED wakeupinit
  BY Zenon DEF wait_scan
<1>2. /\ kid \in [Procs -> Nat \ {0}] /\ childq \in [Procs -> Seq(Users)]
      /\ state \in [Procs -> {"UNUSED", "SLEEPING", "RUNNABLE", "RUNNING", "ZOMBIE", "FREED"}]
  BY Zenon DEF KInv, FamilyType, LInv, CoreType
<1>3. q \in Users /\ q \in Procs
  <2>1. childq[p] \in Seq(Users) /\ kid[p] \in 1 .. Len(childq[p])
    BY <1>1, <1>2
  <2> QED
    BY <2>1 DEF Users
<1> HIDE DEF q
<1>4. ~Sleeps(p, cv(p))' /\ wakeupinit' \in [Procs -> BOOLEAN]
  BY ZenonT(60), <1>0, <1>1, ApartAwake DEF ChildWake
<1>5. \A r \in Procs : state'[r] = "ZOMBIE" => state[r] = "ZOMBIE"
  <2>1. state' = state \/ state' = [state EXCEPT ![q] = "FREED"]
    BY Zenon DEF wait_scan, q
  <2> QED
    BY Zenon, <1>2, <2>1
<1>6. pc'[p] \in {"scan", "user"}
  BY Zenon, <1>1, Here DEF wait_scan, Goto
<1>7. \A r \in Procs : Announced(r)' => Announced(r)
  <2>1. Announced(p)' => Announced(p)
    BY Zenon, <1>5, <1>6 DEF Announced, InWake
  <2> QED
    BY ZenonT(60), <1>0, <1>5, <2>1, HushBy
<1>8. \A r \in Procs \ {p} : childq'[r] = childq[r] /\ kid'[r] = kid[r]
  BY Zenon, <1>2 DEF wait_scan
<1>9. \A r \in Procs \ {p} : Undisturbed(r) /\ kid'[r] = kid[r] /\ wakeupinit'[r] = wakeupinit[r]
  BY ZenonT(60), <1>1, <1>7, <1>8 DEF Undisturbed, Users
<1>10. /\ pc'[p] # "scan" => kid'[p] = 1
       /\ pc'[p] = "scan" => childq' = childq /\ kid'[p] = kid[p] + 1 /\ state[q] # "ZOMBIE"
  <2>1. CASE state[q] = "ZOMBIE"
    BY ZenonT(60), <1>2, <2>1, Here DEF wait_scan, Goto, q
  <2>2. CASE state[q] # "ZOMBIE"
    BY ZenonT(60), <1>1, <1>2, <2>2 DEF wait_scan, q
  <2> QED
    BY Zenon, <2>1, <2>2
<1>11. ASSUME pc'[p] = "scan" PROVE QuietKids(p)'
  <2>1. ~Announced(q)
    <3>1. plock(q) \notin HoldsNow(q)
      BY ZenonT(60), <1>1, <1>3, NoHolder, Names
    <3> QED
      BY ZenonT(60), <1>3, <1>10, <1>11, <3>1, AnnouncedHolds
  <2>2. QuietKids(p)
    BY Zenon, <1>1 DEF ChildWake
  <2>3. kid[p] \in Nat /\ childq[p] \in Seq(Users)
    BY Zenon, <1>2
  <2>4. ASSUME NEW i \in 1 .. Len(childq[p]), i < kid[p] + 1 PROVE ~Announced(childq[p][i])
    <3>1. CASE i = kid[p]
      BY Zenon, <2>1, <3>1 DEF q
    <3>2. CASE i < kid[p]
      BY Zenon, <2>2, <3>2 DEF QuietKids
    <3> QED
      BY <2>3, <2>4, <3>1, <3>2
  <2>5. ASSUME NEW i \in 1 .. Len(childq[p]), i < kid[p] + 1, NEW x \in Procs, x = childq[p][i]
        PROVE  ~Announced(x)'
    BY ZenonT(60), <1>7, <2>4, <2>5
  <2>6. ASSUME NEW i \in 1 .. Len(childq[p])' , i < kid'[p] PROVE ~Announced(childq[p][i])'
    <3>1. childq' = childq /\ kid'[p] = kid[p] + 1
      BY Zenon, <1>10, <1>11
    <3>2. childq[p][i] \in Procs /\ i \in 1 .. Len(childq[p]) /\ i < kid[p] + 1
      BY <2>3, <2>6, <3>1 DEF Users
    <3>3. Announced(childq[p][i])' => \E x \in Procs : x = childq[p][i] /\ Announced(x)'
      BY Zenon, <3>1, <3>2 DEF Announced
    <3> QED
      BY ZenonT(60), <2>5, <3>2, <3>3
  <2> QED
    BY Zenon, <2>6 DEF QuietKids
<1>12. WillWakeInit(p) => WillWakeInit(p)'
  BY Zenon, <1>1, <1>6 DEF WillWakeInit
<1> QED
  BY ZenonT(60), <1>0, <1>4, <1>6, <1>9, <1>10, <1>11, <1>12, ChildFrame DEF InWake

-----------------------------------------------------------------------------
\* exit takes a child from its list.
LEMMA ExitPopChild ==
  ASSUME LInv, KInv, ChildWake, NEW p \in Procs, exit_pop(p)
  PROVE  ChildWake'
<1>0. Apart(p) /\ KeepsSleepers /\ Moves(p) /\ cv(p) \in Cvs
  BY ZenonT(60), ProcApart, ApartSleepers, Names DEF Apart, ProcStep
<1>1. /\ pc[p] = "exit" /\ pc'[p] = "adopt" /\ UNCHANGED <<state, kid, wakeupinit>>
      /\ childq' = [childq EXCEPT ![p] = Tail(@)]
  BY Zenon, Here DEF exit_pop, Goto
<1>2. \A r \in Procs : Announced(r)' => Announced(r)
  BY Zenon, <1>0, <1>1, PipeHush DEF InWake
<1>3. \A r \in Procs \ {p} : childq'[r] = childq[r]
  BY Zenon, <1>1 DEF KInv, FamilyType
<1>4. \A r \in Procs \ {p} : Undisturbed(r) /\ kid'[r] = kid[r] /\ wakeupinit'[r] = wakeupinit[r]
  BY Zenon, <1>1, <1>2, <1>3 DEF Undisturbed, Users
<1>5. ~Sleeps(p, cv(p))' /\ kid'[p] = 1 /\ wakeupinit' \in [Procs -> BOOLEAN]
  BY ZenonT(60), <1>0, <1>1, ApartAwake DEF ChildWake
<1>6. WillWakeInit(p) => WillWakeInit(p)'
  BY Zenon, <1>1 DEF WillWakeInit
<1> QED
  BY ZenonT(60), <1>0, <1>1, <1>4, <1>5, <1>6, ChildFrame DEF InWake

\* A process becomes a zombie after it has announced its end.
LEMMA ExitZombieChild ==
  ASSUME LInv, KInv, ChildWake, NEW p \in Procs, exit_zombie(p)
  PROVE  ChildWake'
<1>0. Apart(p) /\ KeepsSleepers /\ Moves(p) /\ cv(p) \in Cvs
  BY Zenon, ProcApart, ApartSleepers, Names DEF Apart, ProcStep
<1>1. /\ pc[p] = "exit_zombie" /\ pc'[p] = "dead" /\ UNCHANGED <<kid, childq>>
      /\ state' = [state EXCEPT ![p] = "ZOMBIE"] /\ wakeupinit' = [wakeupinit EXCEPT ![p] = FALSE]
  BY Zenon, Here DEF exit_zombie, Goto
<1>2. Announced(p) /\ ~WillWakeInit(p)
  BY Zenon, <1>1 DEF Announced, WillWakeInit
<1>3. \A r \in Procs \ {p} : state'[r] = state[r]
  BY <1>1
<1>4. \A r \in Procs : Announced(r)' => Announced(r)
  BY Zenon, <1>0, <1>2, <1>3, HushBy
<1>5. wakeupinit \in [Procs -> BOOLEAN] /\ kid[p] = 1
  BY Zenon, <1>1 DEF ChildWake
<1>6. \A r \in Procs \ {p} : Undisturbed(r) /\ kid'[r] = kid[r] /\ wakeupinit'[r] = wakeupinit[r]
  BY Zenon, <1>1, <1>4, <1>5 DEF Undisturbed, Users
<1>7. ~Sleeps(p, cv(p))' /\ kid'[p] = 1 /\ wakeupinit' \in [Procs -> BOOLEAN]
  BY Zenon, <1>0, <1>1, <1>5, ApartAwake
<1> QED
  BY ZenonT(60), <1>0, <1>1, <1>2, <1>6, <1>7, ChildFrame DEF InWake

\* A process that has handed over dead children wakes init before it ends.
LEMMA ExitWakeInitChild ==
  ASSUME LInv, KInv, ChildWake, NEW p \in Procs, exit_wake_init(p)
  PROVE  ChildWake'
<1>0. Apart(p) /\ KeepsSleepers /\ Moves(p)
  BY Zenon, ProcApart, ApartSleepers DEF Apart, ProcStep
<1>1. /\ pc[p] = "exit_init" /\ WakeAll(p, cv(bootproc), None, "exit_zombie")
      /\ UNCHANGED <<state, childq, kid, wakeupinit>>
  BY Zenon DEF exit_wake_init, proc_vars
<1>2. PICK f : To(p, "wake", f) /\ f.cv = cv(bootproc) /\ f.ret = "exit_zombie"
  BY <1>1, WakeCall
<1>3. pc'[p] = "wake" /\ frame'[p].cv = cv(bootproc)
  BY Zenon, <1>2 DEF To
<1>4. Announced(p)
  BY Zenon, <1>1 DEF Announced
<1>5. \A r \in Procs : Announced(r)' => Announced(r)
  BY Zenon, <1>0, <1>1, <1>4, HushBy
<1>6. WillWakeInit(p) => WillWakeInit(p)'
  BY Zenon, <1>1, <1>3 DEF WillWakeInit
<1> QED
  BY ZenonT(60), <1>0, <1>1, <1>3, <1>5, <1>6, Calm

\* A new process is not at its end.
LEMMA ForkChild ==
  ASSUME LInv, KInv, ChildWake, NEW p \in Procs, NEW q \in Users, doclone(p, q)
  PROVE  ChildWake'
<1>0. Apart(q) /\ pc[q] = "user" /\ pc'[q] = "forkret" /\ q \in Procs /\ cv(q) \in Cvs
  BY Zenon, CloneApart, Names DEF Users
<1>1. KeepsSleepers /\ Moves(q)
  BY Zenon, <1>0, ApartSleepers DEF Apart
<1>2. /\ pc[p] = "user" /\ state' = [state EXCEPT ![q] = "RUNNABLE"] /\ UNCHANGED <<kid, wakeupinit>>
      /\ childq' = [childq EXCEPT ![p] = Append(@, q)]
  BY ZenonT(60) DEF doclone
<1>3. /\ \A r \in Procs \ {q} : state'[r] = state[r]
      /\ state'[q] = "RUNNABLE"
  BY ZenonT(60), <1>0, <1>2 DEF LInv, CoreType
<1>4. ~Announced(q)'
  BY Zenon, <1>0, <1>3 DEF Announced, InWake
<1>5. \A r \in Procs : Announced(r)' => Announced(r)
  BY ZenonT(60), <1>0, <1>1, <1>3, <1>4, HushBy
<1>6. \A r \in Procs \ {p} : childq'[r] = childq[r]
  BY Zenon, <1>2 DEF KInv, FamilyType
<1>7. \A r \in Procs \ {q} : Undisturbed(r) /\ kid'[r] = kid[r] /\ wakeupinit'[r] = wakeupinit[r]
  BY ZenonT(60), <1>2, <1>5, <1>6 DEF Undisturbed, Users
<1>8. ~Sleeps(q, cv(q))' /\ kid'[q] = 1 /\ wakeupinit' \in [Procs -> BOOLEAN]
  BY ZenonT(60), <1>0, <1>2, ApartAwake DEF ChildWake
<1>9. WillWakeInit(q) => WillWakeInit(q)'
  BY Zenon, <1>0, <1>2 DEF WillWakeInit
<1> QED
  BY ZenonT(60), <1>0, <1>1, <1>7, <1>8, <1>9, ChildFrame DEF InWake

-----------------------------------------------------------------------------
\* The parent, whose lock p holds, neither scans its children nor decides to sleep,
\* and p begins to wake it.
LEMMA ExitLockSelfChild ==
  ASSUME LInv, KInv, ChildWake, NEW p \in Procs, exit_lock_self(p)
  PROVE  ChildWake'
<1>0. Apart(p) /\ KeepsSleepers /\ Moves(p) /\ cv(p) \in Cvs
  BY Zenon, ProcApart, ApartSleepers, Names DEF Apart, ProcStep
<1>1. /\ pc[p] = "exit_self" /\ UNCHANGED <<state, childq, kid, wakeupinit>>
      /\ WakeAll(p, cv(parent[p]), None, IF wakeupinit[p] THEN "exit_init" ELSE "exit_zombie")
  BY Zenon DEF exit_lock_self, proc_vars
<1>2. PICK f : /\ To(p, "wake", f) /\ f.cv = cv(parent[p])
               /\ f.ret = IF wakeupinit[p] THEN "exit_init" ELSE "exit_zombie"
  BY <1>1, WakeCall
<1>3. pc'[p] = "wake" /\ frame'[p].cv = cv(parent[p]) /\ (wakeupinit[p] => frame'[p].ret = "exit_init")
  BY Zenon, <1>2 DEF To
<1>4. p \in Users /\ frame[p].who \in Procs /\ frame[p].who = parent[p]
  <2>1. FrameOK(p, "exit_self", frame[p])
    BY Zenon, <1>1, Here
  <2>2. Exits
    BY Zenon DEF KInv
  <2> QED
    BY Zenon, <1>1, <2>1, <2>2 DEF FrameOK, Exits
<1>5. plock(parent[p]) \in HoldsNow(p)
  BY ZenonT(60), <1>1, <1>4 DEF HoldsNow, Holds, LocksAt
<1>6. parent[p] # p
  <2>1. Parents
    BY Zenon DEF KInv
  <2>2. state[p] = "RUNNING"
    BY Zenon, <1>1, Here
  <2> QED
    BY Zenon, <1>4, <2>1, <2>2 DEF Parents, Alive
<1>7. \A r \in Procs \ {p} : Announced(r)' => Announced(r)
  BY Zenon, <1>0, <1>1 DEF Announced, Moves
<1>8. ASSUME NEW r \in Procs \ {p} PROVE Undisturbed(r)
  <2>1. CASE r = parent[p]
    <3>1. plock(r) \notin HoldsNow(r)
      BY ZenonT(60), <1>5, <2>1, Names, SameHolder
    <3>2. Waking(cv(r))'
      BY Zenon, <1>3, <2>1 DEF Waking
    <3> QED
      BY Zenon, <3>1, <3>2 DEF Undisturbed
  <2>2. CASE r # parent[p]
    <3>1. Children
      BY Zenon DEF KInv
    <3>2. ~InList(p, childq[r])
      BY Zenon, <1>4, <2>2, <3>1 DEF Children
    <3> QED
      BY Zenon, <1>1, <1>7, <3>2 DEF Undisturbed, Users
  <2> QED
    BY Zenon, <2>1, <2>2
<1>9. ~Sleeps(p, cv(p))' /\ kid'[p] = 1 /\ wakeupinit' \in [Procs -> BOOLEAN]
  BY ZenonT(60), <1>0, <1>1, ApartAwake DEF ChildWake
<1>10. WillWakeInit(p) => WillWakeInit(p)'
  BY Zenon, <1>1, <1>3 DEF WillWakeInit
<1>11. wakeupinit'[p] /\ pc'[p] \in InWake /\ frame'[p].ret = "exit_zombie" => frame'[p].cv = cv(bootproc)
  BY Zenon, <1>1, <1>3
<1> QED
  BY ZenonT(60), <1>0, <1>1, <1>3, <1>8, <1>9, <1>10, <1>11, ChildFrame

\* init does not hold its own lock; a child that is dead makes p wake it later, and
\* one that has announced its end without being dead holds the lock that p holds.
LEMMA ExitAdoptChild ==
  ASSUME LInv, KInv, ChildWake, NEW p \in Procs, exit_adopt(p)
  PROVE  ChildWake'
<1> DEFINE q == frame[p].who
<1>0. Apart(p) /\ KeepsSleepers /\ Moves(p) /\ cv(p) \in Cvs
  BY Zenon, ProcApart, ApartSleepers, Names DEF Apart, ProcStep
<1>1. /\ pc[p] = "adopt" /\ pc'[p] = "exit" /\ UNCHANGED <<state, kid>> /\ Free(plock(bootproc))
      /\ childq' = [childq EXCEPT ![bootproc] = Append(@, q)]
      /\ wakeupinit' = [wakeupinit EXCEPT ![p] = @ \/ state[q] = "ZOMBIE"]
  BY Zenon, Here DEF exit_adopt, Goto
<1>2. q \in Users /\ parent[q] = p /\ Alive(q) /\ parent[q] # q
  <2>1. Adopted /\ Parents
    BY ZenonT(60) DEF KInv
  <2> QED
    BY ZenonT(60), <1>1, <2>1 DEF Adopted, Parents
<1>3. plock(q) \in HoldsNow(p)
  BY ZenonT(60), <1>1 DEF HoldsNow, Holds, LocksAt
<1> HIDE DEF q
<1>4. q \in Procs /\ bootproc \in Procs /\ p \in Users /\ p # bootproc
  <2>1. FrameOK(p, "adopt", frame[p])
    BY ZenonT(60), <1>1, Here
  <2> QED
    BY ZenonT(60), <1>2, <2>1, ShellAssumption DEF FrameOK, Users
<1>5. Announced(q) => state[q] = "ZOMBIE"
  <2>1. plock(q) \notin HoldsNow(q)
    BY ZenonT(60), <1>2, <1>3, <1>4, Names, SameHolder
  <2> QED
    BY ZenonT(60), <1>4, <2>1, AnnouncedHolds
<1>6. \A r \in Procs : Announced(r)' => Announced(r)
  BY ZenonT(60), <1>0, <1>1, PipeHush DEF InWake
<1>7. /\ wakeupinit \in [Procs -> BOOLEAN] /\ kid[p] = 1
  BY ZenonT(60), <1>1 DEF ChildWake
<1>8. /\ wakeupinit' \in [Procs -> BOOLEAN] /\ \A r \in Procs \ {p} : wakeupinit'[r] = wakeupinit[r]
      /\ wakeupinit[p] => wakeupinit'[p] /\ (state[q] = "ZOMBIE" => wakeupinit'[p])
  <2>1. wakeupinit'[p] = (wakeupinit[p] \/ state[q] = "ZOMBIE")
    BY ZenonT(60), <1>1, <1>7
  <2>2. (wakeupinit[p] \/ state[q] = "ZOMBIE") \in BOOLEAN
    BY Zenon
  <2>3. wakeupinit' \in [Procs -> BOOLEAN]
    BY ZenonT(60), <1>1, <1>7, <2>2
  <2> QED
    BY ZenonT(60), <1>1, <1>7, <2>1, <2>3
<1>9. ASSUME NEW r \in Procs \ {p} PROVE Undisturbed(r)
  <2>1. CASE r # bootproc
    <3>1. childq'[r] = childq[r]
      BY ZenonT(60), <1>1, <2>1 DEF KInv, FamilyType
    <3> QED
      BY ZenonT(60), <1>6, <3>1 DEF Undisturbed, Users
  <2>2. CASE r = bootproc
    <3>1. plock(r) \notin HoldsNow(r)
      BY ZenonT(60), <1>1, <2>2, Names, NoHolder
    <3>2. CASE state[q] = "ZOMBIE"
      <4>1. WillWakeInit(p)'
        BY ZenonT(60), <1>1, <1>8, <3>2 DEF WillWakeInit
      <4> QED
        BY ZenonT(60), <2>2, <3>1, <4>1 DEF Undisturbed
    <3>3. CASE state[q] # "ZOMBIE"
      <4>1. childq[r] \in Seq(Users) /\ childq'[r] = Append(childq[r], q)
        BY ZenonT(60), <1>1, <2>2 DEF KInv, FamilyType
      <4>2. \A x : InList(x, childq'[r]) => x = q \/ InList(x, childq[r])
        BY <1>2, <4>1, AppendList
      <4>3. ASSUME NEW x \in Users, x = q PROVE ~Announced(x)'
        BY Zenon, <1>4, <1>5, <1>6, <3>3, <4>3
      <4>4. AllQuiet(r) => AllQuiet(r)'
        BY Zenon, <1>6, <4>2, <4>3 DEF AllQuiet, Users
      <4> QED
        BY ZenonT(60), <3>1, <4>4 DEF Undisturbed
    <3> QED
      BY ZenonT(60), <3>2, <3>3
  <2> QED
    BY ZenonT(60), <2>1, <2>2
<1>10. ~Sleeps(p, cv(p))' /\ kid'[p] = 1
  BY ZenonT(60), <1>0, <1>1, <1>7, ApartAwake
<1>11. WillWakeInit(p) => WillWakeInit(p)'
  BY Zenon, <1>1, <1>8 DEF WillWakeInit
<1> QED
  BY ZenonT(60), <1>0, <1>1, <1>8, <1>9, <1>10, <1>11, ChildFrame DEF InWake

-----------------------------------------------------------------------------
\* Steps that change nothing.
LEMMA SameShell ==
  ASSUME UNCHANGED vars
  PROVE  /\ IOInv => IOInv'
         /\ PipeWake => PipeWake'
         /\ ChildWake => ChildWake'
<1>1. /\ UNCHANGED <<holder, waiters, oncv, state, killed, pc, frame, panic>>
      /\ UNCHANGED <<parent, childq, kid, wakeupinit, exiting>>
      /\ UNCHANGED <<nread, nwrite, data, readopen, writeopen, nonblock, fds, arg, pos, got>>
  BY Zenon DEF vars, cv_vars, proc_vars, pipe_vars
<1>2. IOInv => IOInv'
  BY Zenon, <1>1 DEF IOInv, InIO
<1>3. /\ \A r \in Procs, c \in Cvs : Sleeps(r, c)' <=> Sleeps(r, c)
      /\ \A c \in Cvs : Waking(c)' <=> Waking(c)
      /\ \A r \in Procs : (Wrote(r)' <=> Wrote(r)) /\ (HasRead(r)' <=> HasRead(r))
      /\ (Empty' <=> Empty) /\ (Full' <=> Full)
  BY Zenon, <1>1 DEF Sleeps, Waking, Wrote, HasRead, Empty, Full
<1>4. PipeWake => PipeWake'
  BY ZenonT(60), <1>1, <1>3, Names DEF PipeWake, PipeDecides, PipeSleeps
<1>5. /\ \A r \in Procs : /\ AllQuiet(r)' <=> AllQuiet(r)
                          /\ QuietKids(r)' <=> QuietKids(r)
                          /\ WillWakeInit(r)' <=> WillWakeInit(r)
  BY ZenonT(60), <1>1 DEF AllQuiet, QuietKids, WillWakeInit, Announced
<1>6. ChildWake => ChildWake'
  BY Zenon, <1>1, <1>3, <1>5, Names DEF ChildWake
<1> QED
  BY Zenon, <1>2, <1>4, <1>6

\* Every step keeps IOInv, and PipeWake if writes are no larger than the ring.
LEMMA NextIP ==
  ASSUME LInv, IOInv, nread \in Nat, nwrite \in Nat, [Next]_vars
  PROVE  IPStep
<1>0. DOMAIN fds = Procs /\ \A r \in Procs : fds[r] \subseteq {"r", "w"}
  BY Zenon DEF IOInv
<1>1. CASE UNCHANGED vars
  BY Zenon, <1>1, SameShell DEF IPStep
<1>2. ASSUME NEW p \in Procs, Apart(p), Outside(p), UNCHANGED pipe_vars PROVE IPStep
  <2>1. UNCHANGED <<nread, nwrite, writeopen, arg, pos, fds>>
    BY Zenon, <1>2 DEF pipe_vars
  <2> QED
    BY ZenonT(60), <1>0, <1>2, <2>1, OutsideIP
<1>3. ASSUME NEW p \in Procs, NEW ends, NEW ret, pc[p] \in {"user", "exit_files"}, ret \in {"user", "exit"},
             close_fds(p, ends, ret)
      PROVE  IPStep
  <2>1. Apart(p) /\ Outside(p)
    BY ZenonT(60), <1>3, CallApart, CallOutside
  <2>2. UNCHANGED <<nread, nwrite, writeopen, arg, pos>> /\ fds' = [fds EXCEPT ![p] = @ \ ends]
    BY Zenon, <1>3 DEF close_fds, ring
  <2>3. DOMAIN fds' = Procs /\ \A r \in Procs : fds'[r] \subseteq {"r", "w"}
    BY Zenon, <1>0, <2>2
  <2> QED
    BY ZenonT(60), <2>1, <2>2, <2>3, OutsideIP
<1>4. ASSUME NEW p \in Procs, Syscall(p) PROVE IPStep
  <2>1. CASE \E q \in Procs : fork(p, q)
    <3>1. PICK q \in Procs : fork(p, q)
      BY Zenon, <2>1
    <3>2. /\ q \in Users /\ doclone(p, q) /\ fds' = [fds EXCEPT ![q] = fds[p]]
          /\ UNCHANGED <<nread, nwrite, writeopen, arg, pos>>
      BY Zenon, <3>1 DEF fork, ring
    <3>3. Apart(q) /\ pc[q] = "user" /\ pc'[q] = "forkret"
      BY Zenon, <3>2, CloneApart
    <3>4. Outside(q)
      BY Zenon, <3>3 DEF Outside, InIO, IOLabel, InSleep, InWake
    <3>5. DOMAIN fds' = Procs /\ \A r \in Procs : fds'[r] \subseteq {"r", "w"}
      BY Zenon, <1>0, <3>2
    <3> QED
      BY ZenonT(60), <3>2, <3>3, <3>4, <3>5, OutsideIP
  <2>2. CASE \E n \in Sizes : write_call(p, n) \/ read_call(p, n)
    BY Zenon, <2>2, CallIP
  <2>3. CASE \E e \in fds[p] : Running(p) /\ close_fds(p, {e}, "user")
    BY Zenon, <1>3, <2>3 DEF Running
  <2>4. CASE Running(p) /\ wait_lock(p) /\ UNCHANGED pipe_vars
    BY ZenonT(60), <1>2, <2>4, ProcApart, ProcOutside DEF Running
  <2>5. CASE (\E q \in Killable \ {p} : kill(p, q)) /\ UNCHANGED pipe_vars
    BY ZenonT(60), <1>2, <2>5, CallApart, CallOutside
  <2>6. CASE exit_call(p) /\ UNCHANGED pipe_vars
    BY ZenonT(60), <1>2, <2>6, ProcApart, ProcOutside
  <2> QED
    BY ZenonT(60), <1>4, <2>1, <2>2, <2>3, <2>4, <2>5, <2>6 DEF Syscall, May
<1>5. ASSUME NEW p \in Procs, Kernel(p) PROVE IPStep
  <2>1. CASE CondvarStep(p) /\ UNCHANGED pipe_vars
    <3>1. UNCHANGED <<nread, nwrite, writeopen, arg, pos, fds>>
      BY Zenon, <2>1 DEF pipe_vars
    <3>2. Moves(p) /\ (InIO(p) => InIO(p)')
      BY Zenon, <2>1, CondvarLabels
    <3>3. IOInv'
      BY ZenonT(60), <1>0, <3>1, <3>2, IOSame
    <3>4. PipeWake => PipeWake'
      BY ZenonT(60), <2>1, <3>1, PipeCondvar
    <3> QED
      BY Zenon, <3>3, <3>4 DEF IPStep
  <2>2. CASE ProcStep(p) /\ UNCHANGED pipe_vars
    BY ZenonT(60), <1>2, <2>2, ProcApart, ProcOutside
  <2>3. CASE PipeStep(p)
    BY ZenonT(60), <2>3, WriteIP, ReadIP, DoneIP DEF PipeStep
  <2>4. CASE exit_files(p)
    BY <1>3, <2>4 DEF exit_files
  <2>5. CASE reader_onzero(p)
    <3>1. UNCHANGED pipe_vars
      BY Zenon, <2>5 DEF reader_onzero
    <3> QED
      BY ZenonT(60), <1>2, <2>5, <3>1, CallApart, CallOutside
  <2> QED
    BY ZenonT(60), <1>5, <2>1, <2>2, <2>3, <2>4, <2>5 DEF Kernel
<1> QED
  BY ZenonT(60), <1>1, <1>4, <1>5 DEF Next

\* Every step keeps ChildWake.
LEMMA NextChild ==
  ASSUME LInv, KInv, ChildWake, [Next]_vars
  PROVE  ChildWake'
<1>1. CASE UNCHANGED vars
  BY Zenon, <1>1, SameShell
<1>2. ASSUME NEW p \in Procs, Apart(p), Unconcerned(p), pc[p] # "scan", state' = state,
             UNCHANGED <<childq, kid, wakeupinit>>
      PROVE  ChildWake'
  BY Zenon, <1>2, QuietCall
<1>3. ASSUME UNCHANGED proc_vars PROVE UNCHANGED <<childq, kid, wakeupinit>>
  BY Zenon, <1>3 DEF proc_vars
<1>4. ASSUME NEW p \in Procs, NEW ends, NEW ret, pc[p] \in {"user", "exit_files"}, ret \in {"user", "exit"},
             close_fds(p, ends, ret), UNCHANGED proc_vars
      PROVE  ChildWake'
  BY ZenonT(60), <1>2, <1>3, <1>4, CallApart, CallUnconcerned
<1>5. ASSUME NEW p \in Procs, Syscall(p) PROVE ChildWake'
  <2>1. CASE \E q \in Procs : fork(p, q)
    BY Zenon, <2>1, ForkChild DEF fork
  <2>2. CASE (\E n \in Sizes : write_call(p, n) \/ read_call(p, n)) /\ UNCHANGED proc_vars
    BY ZenonT(60), <1>2, <1>3, <2>2, CallApart, CallUnconcerned
  <2>3. CASE (\E e \in fds[p] : Running(p) /\ close_fds(p, {e}, "user")) /\ UNCHANGED proc_vars
    BY Zenon, <1>4, <2>3 DEF Running
  <2>4. CASE Running(p) /\ wait_lock(p)
    BY Zenon, <2>4, WaitLockChild DEF Running
  <2>5. CASE \E q \in Killable \ {p} : kill(p, q)
    <3>1. PICK q : kill(p, q)
      BY Zenon, <2>5
    <3>2. UNCHANGED proc_vars
      BY Zenon, <3>1 DEF kill
    <3> QED
      BY ZenonT(60), <1>2, <1>3, <3>1, <3>2, CallApart, CallUnconcerned
  <2>6. CASE exit_call(p)
    <3>1. UNCHANGED <<childq, kid, wakeupinit>>
      BY Zenon, <2>6 DEF exit_call
    <3> QED
      BY ZenonT(60), <1>2, <2>6, <3>1, ProcApart, CallUnconcerned
  <2> QED
    BY ZenonT(60), <1>5, <2>1, <2>2, <2>3, <2>4, <2>5, <2>6 DEF Syscall, May
<1>6. ASSUME NEW p \in Procs, Kernel(p) PROVE ChildWake'
  <2>1. CASE CondvarStep(p) /\ UNCHANGED proc_vars
    BY ZenonT(60), <1>3, <2>1, CondvarChild
  <2>2. CASE ProcStep(p)
    <3>1. CASE wait_again(p) \/ exit_read_parent(p) \/ exit_lock_parent(p) \/ kill_end(p)
      <4>1. UNCHANGED proc_vars
        BY Zenon, <3>1 DEF wait_again, exit_read_parent, exit_lock_parent, kill_end
      <4> QED
        BY ZenonT(60), <1>2, <1>3, <2>2, <3>1, <4>1, ProcApart, CallUnconcerned
    <3> QED
      BY ZenonT(60), <2>2, <3>1, WaitLockChild, WaitScanChild, WaitSleepChild, ExitPopChild, ExitAdoptChild,
         ExitLockSelfChild, ExitWakeInitChild, ExitZombieChild DEF ProcStep
  <2>3. CASE PipeStep(p) /\ UNCHANGED proc_vars
    BY ZenonT(60), <1>2, <1>3, <2>3, PipeApart, PipeUnconcerned
  <2>4. CASE exit_files(p)
    BY <1>4, <2>4 DEF exit_files
  <2>5. CASE reader_onzero(p) /\ UNCHANGED proc_vars
    BY ZenonT(60), <1>2, <1>3, <2>5, CallApart, CallUnconcerned
  <2> QED
    BY ZenonT(60), <1>6, <2>1, <2>2, <2>3, <2>4, <2>5 DEF Kernel
<1> QED
  BY ZenonT(60), <1>1, <1>5, <1>6 DEF Next

\* At the start nobody sleeps on the pipe, and init sleeps for a child that is
\* running.
LEMMA InitWake == Init => IOInv /\ PipeWake /\ ChildWake
<1> SUFFICES ASSUME Init PROVE IOInv /\ PipeWake /\ ChildWake
  BY Zenon
<1>0. bootproc \in Procs /\ worker \in Procs /\ first \in Procs /\ first # bootproc
  BY Zenon, ShellAssumption DEF Users
<1>1. ASSUME NEW p \in Procs
      PROVE  /\ p # bootproc => pc[p] = "user" /\ oncv[p] = None
             /\ p = bootproc => pc[p] = "swtch" /\ oncv[p] = cv(p)
             /\ state[p] # "ZOMBIE"
             /\ wakeupinit[p] = FALSE /\ kid[p] = 1
  BY Zenon, <1>0 DEF Init
<1>2. IOInv
  <2>1. /\ fds = [p \in Procs |-> IF p = first THEN {"r", "w"} ELSE {}]
        /\ arg = [p \in Procs |-> 0] /\ pos = [p \in Procs |-> 0]
    BY Zenon DEF Init, PipeInit
  <2> QED
    BY SMT, <2>1 DEF IOInv
<1>3. PipeWake
  <2>1. ASSUME NEW p \in Procs PROVE ~Sleeps(p, empty) /\ ~Sleeps(p, full)
    BY ZenonT(60), <1>1, CvNames, Names DEF Sleeps
  <2> QED
    BY Zenon, <1>1, <2>1 DEF PipeWake, PipeDecides, PipeSleeps
<1>4. ChildWake
  <2>1. ASSUME NEW p \in Procs PROVE ~Announced(p)
    BY Zenon, <1>1 DEF Announced, InWake
  <2>2. ASSUME NEW p \in Procs PROVE AllQuiet(p)
    BY Zenon, <2>1 DEF AllQuiet, Users
  <2>3. wakeupinit \in [Procs -> BOOLEAN]
    BY Zenon DEF Init
  <2> QED
    BY ZenonT(60), <1>1, <2>2, <2>3 DEF ChildWake, InWake
<1> QED
  BY ZenonT(60), <1>2, <1>3, <1>4

-----------------------------------------------------------------------------
\* The inductive invariant of the composition.
SInv == LInv /\ KInv /\ PInv /\ IOInv /\ ChildWake /\ (SmallWrites => PipeWake)

\* It holds in every state: each part is preserved with the help of the parts
\* before it.
LEMMA SInvHolds ==
  ASSUME Orderly
  PROVE  Spec => []SInv
<1>1. Init => SInv
  BY ZenonT(60), InitL, InitK, InitRing, InitWake DEF SInv
<1>2. SInv /\ [Next]_vars => SInv'
  <2> SUFFICES ASSUME SInv, [Next]_vars PROVE SInv'
    BY Zenon
  <2>0. LInv /\ KInv /\ PInv /\ IOInv /\ ChildWake /\ ~JointExit /\ \A p \in Killable : "wait" \notin Calls[p]
    BY Zenon DEF SInv, Orderly
  <2>1. LInv' /\ KInv'
    BY ZenonT(60), <2>0, NextL, NextK
  <2>2. PInv'
    BY ZenonT(60), <2>0, NextRing
  <2>3. ChildWake'
    BY ZenonT(60), <2>0, NextChild
  <2>4. IPStep
    <3>1. nread \in Nat /\ nwrite \in Nat
      BY Zenon, <2>0 DEF PInv, RingInv
    <3> QED
      BY ZenonT(60), <2>0, <3>1, NextIP
  <2>5. (SmallWrites => PipeWake)'
    BY Zenon, <2>4 DEF IPStep, SInv, SmallWrites
  <2> QED
    BY ZenonT(60), <2>1, <2>2, <2>3, <2>4, <2>5 DEF SInv, IPStep
<1> QED
  BY <1>1, <1>2, PTL DEF Spec

\* Types; the ring of pipe.cc never holds more than PIPESIZE bytes, and no call
\* moves more bytes than it was asked for, whatever the processes do.
THEOREM TypeOKHolds ==
  ASSUME Orderly
  PROVE  Spec => []TypeOK
<1>1. SInv => TypeOK
  <2> SUFFICES ASSUME SInv PROVE TypeOK
    BY ZenonT(60)
  <2>1. \A c \in Cvs : Range(waiters[c]) \subseteq Procs
    BY DEF SInv, LInv, WaitersInv, Range
  <2>2. \A p \in Procs : fds[p] \subseteq {"r", "w"} /\ pos[p] <= arg[p]
    BY ShellAssumption DEF SInv, IOInv
  <2>3. CoreType /\ FamilyType /\ RingInv
    BY ZenonT(60) DEF SInv, LInv, KInv, PInv
  <2> QED
    BY ZenonT(60), <2>1, <2>2, <2>3 DEF TypeOK, CoreType, FamilyType, RingInv
<1> QED
  BY <1>1, SInvHolds, PTL

\* No panic: whatever the order in which processes sleep, wake, die and are killed,
\* a lock is released by its holder only (spinlock.cc), and sched is never entered
\* in the wrong state.
THEOREM NoPanicHolds ==
  ASSUME Orderly
  PROVE  Spec => []NoPanic
<1>1. SInv => NoPanic
  BY Zenon DEF SInv, LInv, NoPanic
<1> QED
  BY <1>1, SInvHolds, PTL

\* No process returns to user space, or dies, with a spin lock: read and write
\* (pipe.cc) release what sleep has taken again, also by the exception of a killed
\* process.
THEOREM UserHoldsNothingHolds ==
  ASSUME Orderly
  PROVE  Spec => []UserHoldsNothing
<1>1. SInv => UserHoldsNothing
  <2> SUFFICES ASSUME SInv, NEW l \in Locks, holder[l] # None PROVE pc[holder[l]] \notin {"user", "dead"}
    BY ZenonT(60) DEF UserHoldsNothing
  <2>1. holder[l] \in Procs
    BY ZenonT(60) DEF SInv, LInv, CoreType
  <2>2. l \in HoldsNow(holder[l])
    BY ZenonT(60), <2>1 DEF SInv, LInv, LockInv
  <2> QED
    BY ZenonT(60), <2>2 DEF HoldsNow, Holds, LocksAt
<1> QED
  BY <1>1, SInvHolds, PTL

\* fork, wait and exit (proc.cc) keep the family tree: a process that has not been
\* reaped is in the list of its parent, once, and in no other list, and its parent
\* is alive.
THEOREM ChildrenKeptHolds ==
  ASSUME Orderly
  PROVE  Spec => []ChildrenKept
<1>1. SInv => ChildrenKept
  <2> SUFFICES ASSUME SInv, NEW q \in Users, Alive(q), ~\E r \in Procs : pc[r] = "adopt" /\ frame[r].who = q
               PROVE  /\ state[parent[q]] \notin {"ZOMBIE", "FREED"}
                      /\ \A r \in Procs : IF r = parent[q] THEN Once(q, childq[r]) ELSE q \notin Range(childq[r])
    <3>1. ASSUME SInv, NEW q \in Users, Alive(q) PROVE state[parent[q]] \notin {"ZOMBIE", "FREED"}
      BY ZenonT(60), <3>1 DEF SInv, KInv, Parents
    <3> QED
      BY Zenon, <3>1 DEF ChildrenKept, Alive
  <2>1. /\ parent[q] \in Procs /\ state[parent[q]] \in {"SLEEPING", "RUNNABLE", "RUNNING"}
        /\ InList(q, childq[parent[q]])
    BY ZenonT(60) DEF SInv, KInv, Parents, HandsOver
  <2>2. ASSUME NEW r \in Procs
        PROVE  IF r = parent[q] THEN Once(q, childq[r]) ELSE q \notin Range(childq[r])
    <3>1. childq[r] \in Seq(Users) /\ Distinct(childq[r])
      BY Zenon DEF SInv, KInv, FamilyType, Children
    <3>2. CASE r = parent[q]
      <4>1. PICK i \in 1 .. Len(childq[r]) : childq[r][i] = q
        BY ZenonT(60), <2>1, <3>2 DEF InList
      <4>2. \A j \in DOMAIN childq[r] : childq[r][j] = q <=> j = i
        BY <3>1, <4>1 DEF Distinct
      <4> QED
        BY <3>1, <3>2, <4>1, <4>2 DEF Once
    <3>3. CASE r # parent[q]
      <4>1. ~InList(q, childq[r])
        BY ZenonT(60), <3>3 DEF SInv, KInv, Children
      <4> QED
        BY <3>1, <3>3, <4>1 DEF InList, Range
    <3> QED
      BY ZenonT(60), <3>2, <3>3
  <2> QED
    BY ZenonT(60), <2>1, <2>2
<1> QED
  BY <1>1, SInvHolds, PTL

\* No wake-up of condvar.cc is lost: nobody sleeps on a pipe, or in wait, when what
\* they wait for has happened, unless somebody is about to wake them. Writes are no
\* larger than the ring: write wakes the readers only when it is done.
THEOREM NoLostWakeupHolds ==
  ASSUME Orderly, SmallWrites
  PROVE  Spec => []NoLostWakeup
<1>1. SInv => NoLostWakeup
  <2> SUFFICES ASSUME SInv, NEW p \in Procs PROVE ~MissedPipe(p) /\ ~MissedChild(p)
    BY ZenonT(60) DEF NoLostWakeup
  <2>1. ~MissedPipe(p)
    BY Zenon DEF SInv, PipeWake, PipeSleeps, MissedPipe, Sleeps, Wrote, HasRead
  <2>2. ~MissedChild(p)
    <3> SUFFICES ASSUME MissedChild(p) PROVE FALSE
      BY Zenon
    <3>1. /\ Sleeps(p, cv(p)) /\ ~Waking(cv(p))
          /\ ~(p = bootproc /\ \E r \in Procs : WillWakeInit(r))
      BY ZenonT(60) DEF MissedChild, Sleeps, WillWakeInit
    <3>2. AllQuiet(p)
      BY ZenonT(60), <3>1 DEF SInv, ChildWake
    <3>3. childq[p] \in Seq(Users)
      BY Zenon DEF SInv, KInv, FamilyType
    <3>4. PICK i \in 1 .. Len(childq[p]) : state[childq[p][i]] = "ZOMBIE"
      BY <3>3 DEF MissedChild, Range
    <3>5. childq[p][i] \in Users /\ InList(childq[p][i], childq[p])
      BY <3>3 DEF InList
    <3> QED
      BY ZenonT(60), <3>2, <3>4, <3>5 DEF AllQuiet, Announced
  <2> QED
    BY ZenonT(60), <2>1, <2>2
<1> QED
  BY <1>1, SInvHolds, PTL

\* The bytes read are the bytes written, in order: none is lost, repeated or
\* overwritten before it is read, whatever the size of the ring of pipe.cc.
THEOREM InOrderHolds == Spec => []InOrder
<1>1. PInv => InOrder
  BY Zenon DEF PInv
<1>2. PInv /\ [Next]_vars => PInv'
  BY Zenon, NextRing
<1> QED
  BY <1>1, <1>2, InitRing, PTL DEF Spec
=============================================================================
