-------------------------- MODULE ShellStepProofs ---------------------------
(***************************************************************************)
(* The family tree: fork, wait and exit preserve KInv, and the other steps *)
(* do not concern it.  The pipe: read, write and close preserve IOInv and  *)
(* PipeWake, and the other steps are outside of them.                      *)
(***************************************************************************)
EXTENDS ShellLockProofs

-----------------------------------------------------------------------------
\* A step of p that does not concern its family.
Minor(p) ==
  /\ Moves(p) /\ pc[p] # "adopt" /\ pc'[p] # "adopt"
  /\ Leaving(p)' => Leaving(p) \/ Len(childq[p]) = 0
  /\ InExit(p)' => InExit(p)
  /\ pc'[p] \in {"exit_parent", "exit_self"} => frame'[p].who = parent[p]

\* The states of a process that has not ended.
Live == {"SLEEPING", "RUNNABLE", "RUNNING"}

\* KInv after a minor step of p.
LEMMA FamilyFrame ==
  ASSUME KInv, NEW p \in Procs, Minor(p), UNCHANGED <<parent, childq, exiting>>,
         kid' \in [Procs -> Nat \ {0}],
         \A r \in Procs : state'[r] = state[r] \/ (state[r] \in Live /\ state'[r] \in Live)
  PROVE  KInv'
<1>0. FamilyType /\ Children /\ Adopted /\ Parents /\ Exits
  BY Zenon DEF KInv
<1>1. FamilyType'
  BY Zenon, <1>0 DEF FamilyType
<1>2. \A r \in Procs : /\ Alive(r)' <=> Alive(r)
                       /\ state[r] \in Live => state'[r] \in Live
                       /\ state'[r] \in {"UNUSED", "ZOMBIE", "FREED"} <=> state[r] \in {"UNUSED", "ZOMBIE", "FREED"}
                       /\ state'[r] = "UNUSED" => state[r] = "UNUSED"
  BY Zenon DEF Alive, Live
<1>4. Children'
  BY Zenon, <1>0, <1>2 DEF Children, Users
<1>5. \A r \in Procs \ {p} : pc'[r] = pc[r] /\ frame'[r] = frame[r]
  BY Zenon DEF Minor, Moves
<1>6. Adopted'
  <2> SUFFICES ASSUME NEW r \in Procs, pc'[r] = "adopt"
               PROVE  /\ frame'[r].who \in Users /\ parent'[frame'[r].who] = r
                      /\ state'[frame'[r].who] \notin {"UNUSED", "FREED"}
                      /\ ~InList(frame'[r].who, childq'[r])
    BY Zenon DEF Adopted, Alive
  <2>1. r # p /\ pc[r] = "adopt" /\ frame'[r] = frame[r]
    BY Zenon, <1>5 DEF Minor
  <2>2. /\ frame[r].who \in Users /\ parent[frame[r].who] = r /\ Alive(frame[r].who)
        /\ ~InList(frame[r].who, childq[r])
    BY Zenon, <1>0, <2>1 DEF Adopted
  <2>3. state'[frame[r].who] \notin {"UNUSED", "FREED"}
    BY Zenon, <1>2, <2>2 DEF Alive, Users
  <2> QED
    BY Zenon, <2>1, <2>2, <2>3
<1>7. Parents'
  <2> SUFFICES ASSUME NEW q \in Users, Alive(q)'
               PROVE  /\ parent'[q] \in Procs /\ parent'[q] # q /\ state'[parent'[q]] \in Live
                      /\ \/ InList(q, childq'[parent'[q]])
                         \/ pc'[parent'[q]] = "adopt" /\ frame'[parent'[q]].who = q
    BY Zenon DEF Parents, HandsOver, Live
  <2>1. q \in Procs /\ Alive(q)
    BY Zenon, <1>2 DEF Users
  <2>2. /\ parent[q] \in Procs /\ parent[q] # q /\ state[parent[q]] \in Live
        /\ InList(q, childq[parent[q]]) \/ HandsOver(parent[q], q)
    BY Zenon, <1>0, <2>1 DEF Parents, Live
  <2>3. HandsOver(parent[q], q) => pc'[parent[q]] = "adopt" /\ frame'[parent[q]].who = q
    BY Zenon, <1>5, <2>2 DEF HandsOver, Minor
  <2> QED
    BY Zenon, <1>2, <2>2, <2>3
<1>8. Exits'
  <2>1. ASSUME NEW r \in Procs PROVE /\ Leaving(r)' => Len(childq'[r]) = 0
                                     /\ InExit(r)' => r \in exiting'
                                     /\ pc'[r] \in {"exit_parent", "exit_self"} => frame'[r].who = parent'[r]
    <3>1. CASE r # p
      BY Zenon, <1>0, <1>5, <3>1 DEF Exits, Leaving, InExit
    <3>2. CASE r = p
      BY Zenon, <1>0, <3>2 DEF Exits, Minor
    <3> QED
      BY Zenon, <3>1, <3>2
  <2>2. exiting \subseteq Procs
    BY Zenon, <1>0 DEF FamilyType, Users
  <2>3. /\ \A r \in exiting' : state'[r] # "UNUSED"
        /\ \A q \in exiting' : state'[q] \notin {"UNUSED", "ZOMBIE", "FREED"} => parent'[q] \notin exiting'
    BY Zenon, <1>0, <1>2, <2>2 DEF Exits
  <2> QED
    BY Zenon, <2>1, <2>3 DEF Exits
<1> QED
  BY ZenonT(60), <1>1, <1>4, <1>6, <1>7, <1>8 DEF KInv

\* sleep, wake_all and the scheduler
LEMMA CondvarMinor ==
  ASSUME LInv, NEW p \in Procs, CondvarStep(p)
  PROVE  /\ Minor(p)
         /\ \A r \in Procs : state'[r] = state[r] \/ (state[r] \in Live /\ state'[r] \in Live)
<1> DEFINE f == frame[p]
<1>0. FrameOK(p, pc[p], f) /\ CoreType /\ StateOK(p)
  BY Zenon DEF LInv
<1> USE DEF Live
<1>1. CASE sleep_to(p)
  <2>1. /\ pc[p] = "sleep" /\ pc' = [pc EXCEPT ![p] = "enqueue"] /\ frame' = frame /\ state' = state
    BY Zenon, <1>1 DEF sleep_to, Goto
  <2> QED
    BY Zenon, <1>0, <2>1 DEF CoreType, Minor, Moves, Leaving, LeavingLabel, InWake, InExit
<1>2. CASE sleep_enqueue(p)
  <2>1. /\ pc[p] = "enqueue" /\ pc' = [pc EXCEPT ![p] = "swtch"] /\ frame' = frame
        /\ state' = [state EXCEPT ![p] = "SLEEPING"] /\ state[p] = "RUNNING"
    BY Zenon, <1>0, <1>2 DEF sleep_enqueue, Goto, StateOK
  <2> QED
    BY Zenon, <1>0, <2>1 DEF CoreType, Minor, Moves, Leaving, LeavingLabel, InWake, InExit
<1>3. CASE resume(p)
  <2>1. /\ pc[p] \in {"swtch", "forkret"} /\ state[p] = "RUNNABLE"
        /\ pc' = [pc EXCEPT ![p] = IF pc[p] = "swtch" THEN "relock" ELSE "user"] /\ frame' = frame
        /\ state' = [state EXCEPT ![p] = "RUNNING"]
    BY Zenon, <1>3 DEF resume, Goto
  <2> QED
    BY Zenon, <1>0, <2>1 DEF CoreType, Minor, Moves, Leaving, LeavingLabel, InWake, InExit
<1>4. CASE sleep_relock(p)
  <2>0. state' = state /\ SleepFrame(p, "relock", f) /\ DOMAIN f = {"cv", "lks", "who", "ret", "exc"}
    BY Zenon, <1>0, <1>4 DEF sleep_relock, FrameOK, InSleep
  <2>1. \/ pc[p] = "relock" /\ pc' = pc /\ frame' = [frame EXCEPT ![p].lks = Tail(@)]
        \/ /\ pc[p] = "relock" /\ frame' = [frame EXCEPT ![p] = NoFrame]
           /\ pc' = [pc EXCEPT ![p] = IF killed[p] THEN f.exc ELSE f.ret]
    BY Zenon, <1>4 DEF sleep_relock, Goto
  <2>2. /\ f.ret \in {"rewait", "read_woken", "write_woken"}
        /\ f.ret = "rewait" => ~killed[p]
        /\ f.ret # "rewait" => f.exc = "io_killed"
    BY Zenon, <2>0 DEF SleepFrame, LInv
  <2>3. CASE pc[p] = "relock" /\ pc' = pc /\ frame' = [frame EXCEPT ![p].lks = Tail(@)]
    <3>1. frame'[p].exc = f.exc /\ frame'[p].ret = f.ret /\ Moves(p) /\ pc'[p] = pc[p]
      BY Zenon, <1>0, <2>0, <2>3 DEF CoreType, Moves
    <3> QED
      BY Zenon, <2>0, <2>3, <3>1 DEF Minor, Leaving, LeavingLabel, InWake, InExit
  <2>4. CASE /\ pc[p] = "relock" /\ frame' = [frame EXCEPT ![p] = NoFrame]
             /\ pc' = [pc EXCEPT ![p] = IF killed[p] THEN f.exc ELSE f.ret]
    <3>1. /\ frame'[p] = NoFrame /\ NoFrame.exc = "user" /\ Moves(p)
          /\ pc'[p] \in {"rewait", "read_woken", "write_woken", "io_killed"}
      BY ZenonT(60), <1>0, <2>2, <2>4 DEF CoreType, Moves, NoFrame
    <3> QED
      BY Zenon, <2>0, <2>4, <3>1 DEF Minor, Leaving, LeavingLabel, InWake, InExit
  <2> QED
    BY Zenon, <2>1, <2>3, <2>4
<1>5. CASE wake_all(p)
  <2>1. /\ pc[p] = "wake" /\ pc' = [pc EXCEPT ![p] = "wake_loop"] /\ frame' = frame /\ state' = state
    BY Zenon, <1>5 DEF wake_all, Goto
  <2> QED
    BY Zenon, <1>0, <2>1 DEF CoreType, Minor, Moves, Leaving, LeavingLabel, InWake, InExit
<1>6. CASE wake_one(p)
  <2> SUFFICES ASSUME NEW q, q = Head(waiters[f.cv])
               PROVE  /\ Minor(p)
                      /\ \A r \in Procs : state'[r] = state[r] \/ (state[r] \in Live /\ state'[r] \in Live)
    BY Zenon
  <2>1. /\ pc[p] = "wake_loop" /\ pc' = pc /\ frame' = frame
        /\ state' = [state EXCEPT ![q] = "RUNNABLE"]
        /\ panic' = (panic \/ state[q] # "SLEEPING" \/ oncv[q] # f.cv)
    BY Zenon, <1>6 DEF wake_one
  <2>2. LInv'
    BY Zenon, <1>6, WakeOne
  <2>3. state[q] = "SLEEPING"
    BY ZenonT(60), <2>1, <2>2 DEF LInv
  <2> QED
    BY Zenon, <1>0, <2>1, <2>3 DEF CoreType, Minor, Moves, Leaving, LeavingLabel, InWake, InExit
<1>7. CASE wake_return(p)
  <2>1. /\ pc[p] = "wake_loop" /\ pc' = [pc EXCEPT ![p] = f.ret] /\ state' = state
        /\ frame' = [frame EXCEPT ![p].cv = None, ![p].ret = "user"]
    BY Zenon, <1>7 DEF wake_return, Goto
  <2>2. WakeFrame(p, f) /\ DOMAIN f = {"cv", "lks", "who", "ret", "exc"}
    BY Zenon, <1>0, <2>1 DEF FrameOK, InWake
  <2>3. f.ret \in {"exit_init", "exit_zombie", "kill_end", "io_done", "closed"}
    BY Zenon, <2>2, WakeLocks
  <2>4. frame'[p].exc = f.exc /\ Moves(p) /\ pc'[p] = f.ret
    BY Zenon, <1>0, <2>1, <2>2 DEF CoreType, Moves
  <2> QED
    BY Zenon, <2>1, <2>3, <2>4 DEF Minor, Leaving, LeavingLabel, InWake, InExit
<1> QED
  BY ZenonT(60), <1>1, <1>2, <1>3, <1>4, <1>5, <1>6, <1>7 DEF CondvarStep

\* Labels that a process which is not in exit may go to.
Elsewhere(b) == b \notin LeavingLabel \cup InWake \cup {"exit_files", "exit", "adopt"}

\* A step to a label outside exit is minor,
LEMMA MinorGo ==
  ASSUME LInv, NEW p \in Procs, pc[p] # "adopt", NEW b, NEW f, To(p, b, f),
         f.exc = "exit" => InExit(p),
         \/ Elsewhere(b)
         \/ b = "exit" /\ InExit(p)
         \/ b \in InWake /\ f.ret \notin LeavingLabel
  PROVE  Minor(p)
BY Zenon DEF To, Minor, Elsewhere, Leaving, LeavingLabel, InWake, InExit

\* and so is one that stays at its label,
LEMMA MinorStay ==
  ASSUME LInv, NEW p \in Procs, UNCHANGED <<pc, frame>>, pc[p] \notin {"adopt", "exit_parent", "exit_self"}
  PROVE  Minor(p)
BY Zenon DEF LInv, CoreType, Minor, Moves, Leaving, InExit

\* a call of wake_all,
LEMMA MinorWake ==
  ASSUME LInv, NEW p \in Procs, pc[p] # "adopt", NEW c, NEW who, NEW ret, WakeAll(p, c, who, ret),
         ret \in LeavingLabel => Leaving(p)
  PROVE  Minor(p)
<1>1. PICK f : /\ To(p, "wake", f) /\ DOMAIN f = {"cv", "lks", "who", "ret", "exc"}
               /\ f.exc = frame[p].exc /\ f.cv = c /\ f.who = who /\ f.ret = ret
  BY WakeCall
<1> QED
  BY Zenon, <1>1 DEF To, Minor, Leaving, LeavingLabel, InWake, InExit

\* a call of sleep,
LEMMA MinorSleep ==
  ASSUME LInv, NEW p \in Procs, pc[p] # "adopt", NEW c, NEW lks, NEW ret, NEW exc,
         Sleep(p, c, lks, ret, exc), exc # "exit"
  PROVE  Minor(p)
<1> DEFINE f == [frame[p] EXCEPT !.cv = c, !.lks = lks, !.ret = ret, !.exc = exc]
<1>1. DOMAIN frame[p] = {"cv", "lks", "who", "ret", "exc"} /\ DOMAIN frame = Procs
  BY Zenon DEF LInv, FrameOK, CoreType
<1>2. To(p, "sleep", f)
  <2>1. Goto(p, "sleep") /\ frame' = [frame EXCEPT ![p] = f]
    BY Zenon, <1>1 DEF Sleep
  <2> QED
    BY Zenon, <2>1, GoSet
<1>3. f.exc = exc
  BY Zenon, <1>1
<1> HIDE DEF f
<1> QED
  BY ZenonT(60), <1>2, <1>3 DEF To, Minor, Leaving, LeavingLabel, InWake, InExit

\* and a jump that leaves the frame alone.
LEMMA MinorSame ==
  ASSUME LInv, NEW p \in Procs, pc[p] # "adopt", NEW b, Goto(p, b), frame' = frame,
         Elsewhere(b) \/ (b = "exit" /\ InExit(p))
  PROVE  Minor(p)
<1>1. To(p, b, frame[p]) /\ (frame[p].exc = "exit" => InExit(p))
  BY Zenon, GoSame DEF InExit
<1> QED
  BY Zenon, <1>1, MinorGo

\* read, write and close
LEMMA PipeMinor ==
  ASSUME LInv, NEW p \in Procs, PipeStep(p)
  PROVE  Minor(p) /\ state' = state
<1> USE DEF Elsewhere, LeavingLabel, InWake
<1>1. CASE write_lock(p)
  BY Zenon, <1>1, MinorSame DEF write_lock
<1>2. CASE write_loop(p)
  <2>1. /\ pc[p] = "write_loop" /\ state' = state
        /\ \/ UNCHANGED <<pc, frame>>
           \/ Goto(p, "user") /\ frame' = frame
           \/ Goto(p, "write_full") /\ frame' = frame
           \/ WakeAll(p, empty, None, "io_done")
    BY Zenon, <1>2 DEF write_loop, Return
  <2> QED
    BY Zenon, <2>1, MinorStay, MinorSame, MinorWake
<1>3. CASE write_full(p)
  <2>1. /\ pc[p] = "write_full" /\ state' = state
        /\ \/ Goto(p, "user") /\ frame' = frame
           \/ Sleep(p, full, <<lock, lock_close>>, "write_woken", "io_killed")
    BY Zenon, <1>3 DEF write_full, Return
  <2> QED
    BY Zenon, <2>1, MinorSame, MinorSleep
<1>4. CASE read_loop(p)
  <2>1. /\ pc[p] = "read_loop" /\ state' = state
        /\ \/ UNCHANGED <<pc, frame>>
           \/ Goto(p, "user") /\ frame' = frame
           \/ Goto(p, "read_empty") /\ frame' = frame
           \/ WakeAll(p, full, None, "io_done")
    BY Zenon, <1>4 DEF read_loop, Return
  <2> QED
    BY Zenon, <2>1, MinorStay, MinorSame, MinorWake
<1>5. CASE read_empty(p)
  <2>1. /\ pc[p] = "read_empty" /\ state' = state
        /\ \/ Goto(p, "user") /\ frame' = frame
           \/ Sleep(p, empty, <<lock, lock_close>>, "read_woken", "io_killed")
    BY Zenon, <1>5 DEF read_empty, Return
  <2> QED
    BY Zenon, <2>1, MinorSame, MinorSleep
<1>6. CASE io_woken(p)
  <2>1. /\ pc[p] \in {"read_woken", "write_woken"} /\ state' = state /\ frame' = frame
        /\ Goto(p, "read_loop") \/ Goto(p, "write_loop")
    BY Zenon, <1>6 DEF io_woken
  <2> QED
    BY Zenon, <2>1, MinorSame
<1>7. CASE io_return(p)
  <2>1. /\ pc[p] \in {"io_done", "io_killed"} /\ state' = state /\ frame' = frame /\ Goto(p, "user")
    BY Zenon, <1>7 DEF io_return, Return
  <2> QED
    BY Zenon, <2>1, MinorSame
<1>8. CASE pipeclose(p)
  <2>1. /\ pc[p] \in {"close_r", "close_w"} /\ state' = state /\ WakeAll(p, empty, None, "closed")
    BY Zenon, <1>8 DEF pipeclose
  <2> QED
    BY Zenon, <2>1, MinorWake
<1>9. CASE pipeclosed(p)
  <2>1. /\ pc[p] = "closed" /\ state' = state /\ frame' = [frame EXCEPT ![p] = NoFrame]
        /\ Goto(p, frame[p].exc)
    BY Zenon, <1>9 DEF pipeclosed
  <2>2. To(p, frame[p].exc, NoFrame) /\ frame[p].exc \in {"user", "exit"}
    BY Zenon, <2>1, GoSet, Here DEF FrameOK, InSleep
  <2>3. NoFrame.exc = "user" /\ (frame[p].exc = "exit" => InExit(p))
    BY Zenon DEF NoFrame, InExit
  <2> QED
    BY Zenon, <2>1, <2>2, <2>3, MinorGo
<1> QED
  BY ZenonT(60), <1>1, <1>2, <1>3, <1>4, <1>5, <1>6, <1>7, <1>8, <1>9 DEF PipeStep

\* The calls of read, write and close are minor.
LEMMA CallMinor ==
  ASSUME LInv, NEW p \in Procs, NEW n, NEW ends, state[p] = "RUNNING",
         \/ write_call(p, n) \/ read_call(p, n) \/ reader_onzero(p) \/ exit_files(p)
         \/ (pc[p] = "user" /\ close_fds(p, ends, "user"))
  PROVE  Minor(p) /\ state' = state
<1> USE DEF Elsewhere, LeavingLabel, InWake
<1>1. CASE write_call(p, n) \/ read_call(p, n) \/ reader_onzero(p)
  <2>1. /\ pc[p] = "user" /\ state' = state /\ frame' = frame
        /\ Goto(p, "write_lock") \/ Goto(p, "read_loop") \/ Goto(p, "close_r")
    BY Zenon, <1>1 DEF write_call, read_call, reader_onzero
  <2> QED
    BY Zenon, <2>1, MinorSame
<1>2. ASSUME NEW e, NEW ret, close_fds(p, e, ret), pc[p] # "adopt", ret \in {"user", "exit"},
             ret = "exit" => InExit(p)
      PROVE  Minor(p) /\ state' = state
  <2>1. /\ state' = state
        /\ \/ frame' = [frame EXCEPT ![p].exc = ret] /\ Goto(p, "close_w")
           \/ Goto(p, ret) /\ frame' = frame
    BY Zenon, <1>2 DEF close_fds
  <2>2. CASE Goto(p, ret) /\ frame' = frame
    BY Zenon, <1>2, <2>1, <2>2, MinorSame
  <2>3. CASE frame' = [frame EXCEPT ![p].exc = ret] /\ Goto(p, "close_w")
    <3> DEFINE f == [frame[p] EXCEPT !.exc = ret]
    <3>1. DOMAIN frame[p] = {"cv", "lks", "who", "ret", "exc"} /\ DOMAIN frame = Procs
      BY ZenonT(60) DEF LInv, FrameOK, CoreType
    <3>2. frame' = [frame EXCEPT ![p] = f] /\ f.exc = ret
      BY Zenon, <2>3, <3>1
    <3>3. To(p, "close_w", f)
      BY Zenon, <2>3, <3>2, GoSet
    <3> HIDE DEF f
    <3> QED
      BY ZenonT(60), <1>2, <2>1, <3>2, <3>3, MinorGo
  <2> QED
    BY Zenon, <2>1, <2>2, <2>3
<1>3. CASE exit_files(p)
  <2>1. pc[p] = "exit_files" /\ close_fds(p, {"r", "w"}, "exit")
    BY Zenon, <1>3 DEF exit_files
  <2>2. InExit(p)
    BY Zenon, <2>1 DEF InExit
  <2> QED
    BY Zenon, <1>2, <2>1, <2>2
<1> QED
  BY Zenon, <1>1, <1>2, <1>3

-----------------------------------------------------------------------------
\* wait, exit and kill, where they leave the lists of children alone
LEMMA ProcMinor ==
  ASSUME LInv, KInv, NEW p \in Procs,
         \/ (pc[p] \in {"wait", "user"} /\ wait_lock(p)) \/ wait_sleep(p) \/ wait_again(p)
         \/ exit_read_parent(p) \/ exit_lock_parent(p)
         \/ exit_lock_self(p) \/ exit_wake_init(p) \/ kill_end(p)
  PROVE  /\ Minor(p) /\ UNCHANGED <<parent, childq, exiting, state>>
         /\ kid' \in [Procs -> Nat \ {0}]
<1> USE DEF Elsewhere, LeavingLabel, InWake
<1>0. kid \in [Procs -> Nat \ {0}] /\ DOMAIN frame[p] = {"cv", "lks", "who", "ret", "exc"} /\ DOMAIN frame = Procs
  BY ZenonT(60) DEF KInv, FamilyType, LInv, FrameOK, CoreType
<1>a. UNCHANGED <<parent, childq, exiting, state>> /\ kid' \in [Procs -> Nat \ {0}]
  BY <1>0 DEF wait_lock, wait_sleep, wait_again, exit_read_parent, exit_lock_parent,
     exit_lock_self, exit_wake_init, kill_end, proc_vars
<1>1. CASE pc[p] \in {"wait", "user"} /\ wait_lock(p)
  BY Zenon, <1>1, <1>a, MinorSame DEF wait_lock
<1>2. CASE wait_sleep(p)
  <2>1. /\ pc[p] = "scan"
        /\ \/ Goto(p, "user") /\ frame' = frame
           \/ Sleep(p, cv(p), <<plock(p)>>, "rewait", "user")
    BY Zenon, <1>2 DEF wait_sleep
  <2> QED
    BY Zenon, <1>a, <2>1, MinorSame, MinorSleep
<1>3. CASE wait_again(p)
  BY Zenon, <1>3, <1>a, MinorSame DEF wait_again
<1>4. CASE exit_read_parent(p)
  <2> DEFINE f == [frame[p] EXCEPT !.who = parent[p]]
  <2>1. /\ pc[p] = "exit" /\ childq[p] = <<>> /\ Goto(p, "exit_parent")
        /\ frame' = [frame EXCEPT ![p] = f]
    BY Zenon, <1>0, <1>4 DEF exit_read_parent
  <2>2. To(p, "exit_parent", f) /\ f.who = parent[p] /\ Len(childq[p]) = 0
    BY Zenon, <1>0, <2>1, GoSet
  <2> HIDE DEF f
  <2> QED
    BY Zenon, <1>a, <2>1, <2>2 DEF To, Minor, InExit
<1>5. CASE exit_lock_parent(p)
  <2>1. /\ pc[p] = "exit_parent" /\ Goto(p, "exit_self") /\ frame' = frame
    BY Zenon, <1>5 DEF exit_lock_parent
  <2>2. To(p, "exit_self", frame[p]) /\ frame[p].who = parent[p]
    BY Zenon, <2>1, GoSame DEF KInv, Exits
  <2> QED
    BY Zenon, <1>a, <2>1, <2>2 DEF To, Minor, Leaving, InExit
<1>6. CASE exit_lock_self(p)
  <2>1. /\ pc[p] = "exit_self"
        /\ WakeAll(p, cv(parent[p]), None, IF wakeupinit[p] THEN "exit_init" ELSE "exit_zombie")
    BY Zenon, <1>6 DEF exit_lock_self
  <2>2. Leaving(p)
    BY Zenon, <2>1 DEF Leaving
  <2> QED
    BY Zenon, <1>a, <2>1, <2>2, MinorWake
<1>7. CASE exit_wake_init(p)
  <2>1. /\ pc[p] = "exit_init" /\ WakeAll(p, cv(bootproc), None, "exit_zombie")
    BY Zenon, <1>7 DEF exit_wake_init
  <2>2. Leaving(p)
    BY Zenon, <2>1 DEF Leaving
  <2> QED
    BY Zenon, <1>a, <2>1, <2>2, MinorWake
<1>8. CASE kill_end(p)
  <2>1. /\ pc[p] = "kill_end" /\ frame' = [frame EXCEPT ![p] = NoFrame] /\ Goto(p, "user")
    BY Zenon, <1>8 DEF kill_end
  <2>2. To(p, "user", NoFrame) /\ NoFrame.exc = "user"
    BY Zenon, <2>1, GoSet DEF NoFrame
  <2> QED
    BY Zenon, <1>a, <2>1, <2>2, MinorGo
<1> QED
  BY ZenonT(60), <1>1, <1>2, <1>3, <1>4, <1>5, <1>6, <1>7, <1>8

\* kill is minor: it marks its victim and wakes it.
LEMMA KillMinor ==
  ASSUME LInv, KInv, NEW p \in Procs, NEW q, kill(p, q)
  PROVE  Minor(p) /\ UNCHANGED <<parent, childq, exiting, state, kid>>
<1>1. /\ UNCHANGED <<parent, childq, exiting, state, kid>> /\ pc[p] = "user"
      /\ \/ WakeAll(p, oncv[q], q, "kill_end")
         \/ UNCHANGED <<pc, frame>>
  BY Zenon DEF kill, proc_vars
<1> QED
  BY Zenon, <1>1, MinorStay, MinorWake DEF LeavingLabel

\* A step to exit_files: the process is exiting, its parent and its children are not.
LEMMA ExitCallFamily ==
  ASSUME ~JointExit, LInv, KInv, NEW p \in Users, exit_call(p), state[p] = "RUNNING"
  PROVE  KInv'
<1>0. /\ FamilyType /\ Children /\ Adopted /\ Parents /\ Exits /\ p \in Procs
  BY Zenon DEF KInv, Users
<1>1. /\ pc[p] = "user" /\ exiting' = exiting \cup {p} /\ Goto(p, "exit_files") /\ frame' = frame
      /\ UNCHANGED <<state, parent, childq, kid>> /\ MayExit(p)
  BY Zenon DEF exit_call
<1>2. /\ To(p, "exit_files", frame[p]) /\ \A r \in Procs \ {p} : pc'[r] = pc[r]
      /\ pc'[p] = "exit_files"
  BY Zenon, <1>0, <1>1, GoSame DEF To, Moves
<1>3. FamilyType'
  BY Zenon, <1>0, <1>1 DEF FamilyType
<1>4. Children'
  BY Zenon, <1>0, <1>1 DEF Children, Alive
<1>5. Adopted' /\ Parents'
  <2>1. \A r \in Procs : pc'[r] = "adopt" <=> pc[r] = "adopt"
    BY Zenon, <1>1, <1>2
  <2> QED
    BY Zenon, <1>0, <1>1, <2>1 DEF Adopted, Parents, Alive, HandsOver
<1>6. parent[p] \in Procs /\ parent[p] # p /\ state[parent[p]] # "ZOMBIE"
  BY Zenon, <1>0 DEF Parents, Alive
<1>7. parent[p] \notin exiting /\ \A q \in Procs : parent[q] = p /\ q \in exiting => state[q] \in {"ZOMBIE", "FREED"}
  BY Zenon, <1>1, <1>6 DEF MayExit
<1>8. Exits'
  <2>1. ASSUME NEW r \in Procs PROVE /\ Leaving(r)' => Len(childq'[r]) = 0
                                     /\ InExit(r)' => r \in exiting'
                                     /\ pc'[r] \in {"exit_parent", "exit_self"} => frame'[r].who = parent'[r]
    <3>1. CASE r # p
      BY Zenon, <1>0, <1>1, <1>2, <3>1 DEF Exits, Leaving, InExit
    <3>2. CASE r = p
      BY Zenon, <1>1, <1>2, <3>2 DEF Leaving, LeavingLabel, InWake
    <3> QED
      BY Zenon, <3>1, <3>2
  <2>2. \A r \in exiting' : state'[r] # "UNUSED"
    BY Zenon, <1>0, <1>1 DEF Exits
  <2>3. ASSUME NEW q \in exiting', state'[q] \notin {"UNUSED", "ZOMBIE", "FREED"}
        PROVE  parent'[q] \notin exiting'
    <3>1. CASE q = p
      BY Zenon, <1>1, <1>6, <1>7, <3>1
    <3>2. CASE q # p
      <4>1. q \in exiting /\ q \in Procs
        BY Zenon, <1>0, <1>1, <3>2 DEF FamilyType, Users
      <4> QED
        BY ZenonT(60), <1>0, <1>1, <1>7, <2>3, <4>1 DEF Exits
    <3> QED
      BY Zenon, <3>1, <3>2
  <2> QED
    BY Zenon, <2>1, <2>2, <2>3 DEF Exits
<1> QED
  BY Zenon, <1>3, <1>4, <1>5, <1>8 DEF KInv

\* exit ends: the process has no children left, and its parent still knows it.
LEMMA ZombieFamily ==
  ASSUME LInv, KInv, NEW p \in Procs, exit_zombie(p)
  PROVE  KInv'
<1>0. /\ FamilyType /\ Children /\ Adopted /\ Parents /\ Exits
      /\ state \in [Procs -> {"UNUSED", "SLEEPING", "RUNNABLE", "RUNNING", "ZOMBIE", "FREED"}]
  BY ZenonT(60) DEF KInv, LInv, CoreType
<1>1. /\ pc[p] = "exit_zombie" /\ Goto(p, "dead") /\ frame' = frame
      /\ state' = [state EXCEPT ![p] = "ZOMBIE"] /\ UNCHANGED <<parent, childq, kid, exiting>>
  BY Zenon DEF exit_zombie
<1>2. /\ state[p] = "RUNNING" /\ To(p, "dead", frame[p])
  BY Zenon, <1>1, Here, GoSame
<1>3. /\ state'[p] = "ZOMBIE" /\ \A r \in Procs \ {p} : state'[r] = state[r] /\ pc'[r] = pc[r]
      /\ pc'[p] = "dead"
  BY Zenon, <1>0, <1>1, <1>2 DEF To, Moves
<1>4. \A r \in Procs : (Alive(r)' <=> Alive(r)) /\ (pc'[r] = "adopt" <=> pc[r] = "adopt")
  BY Zenon, <1>1, <1>2, <1>3 DEF Alive
<1>5. FamilyType'
  BY Zenon, <1>0, <1>1 DEF FamilyType
<1>7. Children'
  BY Zenon, <1>0, <1>1, <1>4 DEF Children, Users
<1>8. Adopted'
  <2> SUFFICES ASSUME NEW r \in Procs, pc'[r] = "adopt"
               PROVE  /\ frame[r].who \in Users /\ parent[frame[r].who] = r
                      /\ state'[frame[r].who] \notin {"UNUSED", "FREED"}
                      /\ ~InList(frame[r].who, childq[r])
    BY Zenon, <1>1 DEF Adopted, Alive
  <2>1. /\ frame[r].who \in Users /\ parent[frame[r].who] = r /\ Alive(frame[r].who)
        /\ ~InList(frame[r].who, childq[r])
    BY Zenon, <1>0, <1>4 DEF Adopted
  <2> QED
    BY Zenon, <1>4, <2>1 DEF Alive, Users
<1>9. Parents'
  <2> SUFFICES ASSUME NEW q \in Users, Alive(q)'
               PROVE  /\ parent[q] \in Procs /\ parent[q] # q /\ state'[parent[q]] \in Live
                      /\ \/ InList(q, childq[parent[q]])
                         \/ pc'[parent[q]] = "adopt" /\ frame[parent[q]].who = q
    BY Zenon, <1>1 DEF Parents, HandsOver, Live
  <2>1. /\ parent[q] \in Procs /\ parent[q] # q /\ state[parent[q]] \in Live
        /\ InList(q, childq[parent[q]]) \/ HandsOver(parent[q], q)
    BY Zenon, <1>0, <1>4 DEF Parents, Live, Users
  <2>2. parent[q] # p
    <3>1. Len(childq[p]) = 0
      BY Zenon, <1>0, <1>1 DEF Exits, Leaving, LeavingLabel
    <3>2. ~InList(q, childq[p]) /\ ~HandsOver(p, q)
      BY <1>1, <3>1 DEF InList, HandsOver
    <3> QED
      BY Zenon, <2>1, <3>2
  <2> QED
    BY Zenon, <1>3, <2>1, <2>2 DEF HandsOver
<1>10. Exits'
  <2>1. ASSUME NEW r \in Procs PROVE /\ Leaving(r)' => Len(childq'[r]) = 0
                                     /\ InExit(r)' => r \in exiting'
                                     /\ pc'[r] \in {"exit_parent", "exit_self"} => frame'[r].who = parent'[r]
    <3>1. CASE r # p
      BY Zenon, <1>0, <1>1, <1>3, <3>1 DEF Exits, Leaving, InExit
    <3>2. CASE r = p
      <4>1. Leaving(p)
        BY Zenon, <1>1 DEF Leaving, LeavingLabel
      <4> QED
        BY ZenonT(60), <1>0, <1>1, <1>3, <3>2, <4>1 DEF Exits, InExit
    <3> QED
      BY Zenon, <3>1, <3>2
  <2>2. exiting \subseteq Procs
    BY Zenon, <1>0 DEF FamilyType, Users
  <2>3. /\ \A r \in exiting' : state'[r] # "UNUSED"
        /\ \A q \in exiting' : state'[q] \notin {"UNUSED", "ZOMBIE", "FREED"} => parent'[q] \notin exiting'
    BY Zenon, <1>0, <1>1, <1>3, <2>2 DEF Exits
  <2> QED
    BY Zenon, <2>1, <2>3 DEF Exits
<1> QED
  BY ZenonT(60), <1>5, <1>7, <1>8, <1>9, <1>10 DEF KInv

-----------------------------------------------------------------------------
\* Children, in terms of the lists
LEMMA ChildrenDef ==
  ASSUME FamilyType
  PROVE  Children <=> \A r \in Procs : /\ Distinct(childq[r])
                                       /\ \A x : InList(x, childq[r]) => parent[x] = r /\ Alive(x)
BY DEF Children, FamilyType, InList

\* The same after a step.
LEMMA ChildrenDefPrime ==
  ASSUME FamilyType'
  PROVE  Children' <=> \A r \in Procs : /\ Distinct(childq'[r])
                                        /\ \A x : InList(x, childq'[r]) => parent'[x] = r /\ Alive(x)'
BY DEF Children, FamilyType, InList

-----------------------------------------------------------------------------
\* The parts of KInv, and what they say of the elements of a list.
LEMMA FreshParts ==
  ASSUME LInv, KInv
  PROVE  /\ FamilyType /\ Children /\ Adopted /\ Parents /\ Exits
         /\ \A r \in Procs : /\ Distinct(childq[r]) /\ childq[r] \in Seq(Users)
                             /\ \A x : InList(x, childq[r]) => x \in Users /\ parent[x] = r /\ Alive(x)
         /\ Users \subseteq Procs /\ exiting \subseteq Users
         /\ DOMAIN parent = Procs /\ DOMAIN childq = Procs
         /\ bootproc \in Procs /\ bootproc \notin Users
<1>1. FamilyType /\ Children /\ Adopted /\ Parents /\ Exits
  BY Zenon DEF KInv
<1>2. \A r \in Procs : childq[r] \in Seq(Users) /\ \A x : InList(x, childq[r]) => x \in Users
  BY <1>1 DEF FamilyType, InList
<1>3. \A r \in Procs : /\ Distinct(childq[r])
                       /\ \A x : InList(x, childq[r]) => parent[x] = r /\ Alive(x)
  BY Zenon, <1>1, ChildrenDef
<1>4. Users \subseteq Procs /\ bootproc \in Procs /\ bootproc \notin Users
  BY Zenon, ShellAssumption DEF Users
<1> QED
  BY ZenonT(60), <1>1, <1>2, <1>3, <1>4 DEF FamilyType

\* Init is never in exit.
LEMMA BootStays ==
  ASSUME LInv, KInv
  PROVE  /\ ~Leaving(bootproc) /\ pc[bootproc] # "adopt" /\ state[bootproc] \in Live
         /\ bootproc \notin exiting
<1>0. /\ bootproc \in Procs /\ bootproc \notin Users /\ exiting \subseteq Users
  BY Zenon, FreshParts
<1>1. FrameOK(bootproc, pc[bootproc], frame[bootproc]) /\ StateOK(bootproc) /\ CoreType
  BY Zenon, <1>0 DEF LInv
<1>2. pc[bootproc] \in InWake => frame[bootproc].ret \notin LeavingLabel
  BY Zenon, <1>0, <1>1 DEF FrameOK, WakeFrame, InWake, LeavingLabel
<1>3. pc[bootproc] \notin {"exit_parent", "exit_self", "exit_init", "exit_zombie", "dead", "adopt"}
  BY Zenon, <1>0, <1>1 DEF FrameOK, StateOK
<1>4. state[bootproc] \in Live
  BY Zenon, <1>0, <1>1, <1>3 DEF StateOK, CoreType, Live
<1> QED
  BY Zenon, <1>0, <1>2, <1>3, <1>4 DEF Leaving, LeavingLabel

\* exit takes a child from its list: the child is handed over, and in no list.
LEMMA ExitPopFamily ==
  ASSUME LInv, KInv, NEW p \in Procs, exit_pop(p)
  PROVE  KInv'
<1> DEFINE s == childq[p]
<1>0. /\ FamilyType /\ Children /\ Adopted /\ Parents /\ Exits
      /\ \A r \in Procs : /\ Distinct(childq[r]) /\ childq[r] \in Seq(Users)
                          /\ \A x : InList(x, childq[r]) => x \in Users /\ parent[x] = r /\ Alive(x)
      /\ Users \subseteq Procs /\ DOMAIN childq = Procs
  BY Zenon, FreshParts
<1> SUFFICES ASSUME NEW q, q = Head(s) PROVE KInv'
  BY Zenon
<1>1. /\ pc[p] = "exit" /\ s # <<>> /\ childq' = [childq EXCEPT ![p] = Tail(s)]
      /\ frame' = [frame EXCEPT ![p].who = q] /\ Goto(p, "adopt")
      /\ UNCHANGED <<state, parent, kid, exiting>>
  BY Zenon DEF exit_pop
<1>2. /\ frame'[p].who = q /\ pc'[p] = "adopt"
      /\ \A r \in Procs \ {p} : pc'[r] = pc[r] /\ frame'[r] = frame[r] /\ childq'[r] = childq[r]
      /\ childq'[p] = Tail(s)
  <2>1. DOMAIN frame[p] = {"cv", "lks", "who", "ret", "exc"} /\ DOMAIN frame = Procs
    BY ZenonT(60) DEF LInv, FrameOK, CoreType
  <2>2. pc \in [Procs -> STRING] \/ DOMAIN pc = Procs
    BY ZenonT(60) DEF LInv, CoreType
  <2> QED
    BY ZenonT(60), <1>0, <1>1, <2>1, <2>2 DEF Goto
<1>3. /\ Tail(s) \in Seq(Users) /\ Distinct(Tail(s)) /\ ~InList(q, Tail(s)) /\ InList(q, s) /\ q \in Users
      /\ \A x : InList(x, Tail(s)) => InList(x, s)
      /\ \A x : InList(x, s) => x = q \/ InList(x, Tail(s))
  <2>1. s \in Seq(Users) /\ Distinct(s) /\ Len(s) # 0
    BY <1>0, <1>1
  <2> QED
    BY Zenon, <2>1, TailList
<1> HIDE DEF s
<1>4. FamilyType'
  BY Zenon, <1>0, <1>1, <1>3 DEF FamilyType, s
<1>5. \A x : Alive(x)' <=> Alive(x)
  BY Zenon, <1>1 DEF Alive
<1>6. Children'
  <2>1. ASSUME NEW r \in Procs PROVE /\ Distinct(childq'[r])
                                     /\ \A x : InList(x, childq'[r]) => parent'[x] = r /\ Alive(x)'
    BY ZenonT(60), <1>0, <1>1, <1>2, <1>3, <1>5 DEF s
  <2> QED
    BY Zenon, <1>4, <2>1, ChildrenDefPrime
<1>7. Adopted'
  <2> SUFFICES ASSUME NEW r \in Procs, pc'[r] = "adopt"
               PROVE  /\ frame'[r].who \in Users /\ parent[frame'[r].who] = r
                      /\ Alive(frame'[r].who)
                      /\ ~InList(frame'[r].who, childq'[r])
    BY Zenon, <1>1 DEF Adopted, Alive
  <2>1. CASE r = p
    BY ZenonT(60), <1>0, <1>2, <1>3, <2>1 DEF s
  <2>2. CASE r # p
    BY ZenonT(60), <1>0, <1>2, <2>2 DEF Adopted
  <2> QED
    BY Zenon, <2>1, <2>2
<1>8. Parents'
  <2> SUFFICES ASSUME NEW x \in Users, Alive(x)
               PROVE  /\ parent[x] \in Procs /\ parent[x] # x /\ state[parent[x]] \in Live
                      /\ \/ InList(x, childq'[parent[x]])
                         \/ pc'[parent[x]] = "adopt" /\ frame'[parent[x]].who = x
    BY ZenonT(60), <1>1, <1>5 DEF Parents, HandsOver, Live
  <2>1. /\ parent[x] \in Procs /\ parent[x] # x /\ state[parent[x]] \in Live
        /\ InList(x, childq[parent[x]]) \/ (pc[parent[x]] = "adopt" /\ frame[parent[x]].who = x)
    BY Zenon, <1>0 DEF Parents, Live, HandsOver
  <2>2. CASE parent[x] = p
    BY <1>1, <1>2, <1>3, <2>1, <2>2 DEF s
  <2>3. CASE parent[x] # p
    BY Zenon, <1>2, <2>1, <2>3
  <2> QED
    BY Zenon, <2>1, <2>2, <2>3
<1>9. Exits'
  <2>1. ASSUME NEW r \in Procs PROVE /\ Leaving(r)' => Len(childq'[r]) = 0
                                     /\ InExit(r)' => r \in exiting'
                                     /\ pc'[r] \in {"exit_parent", "exit_self"} => frame'[r].who = parent'[r]
    <3>1. CASE r # p
      <4>1. pc'[r] = pc[r] /\ frame'[r] = frame[r] /\ childq'[r] = childq[r]
        BY Zenon, <1>2, <3>1
      <4>2. (Leaving(r)' <=> Leaving(r)) /\ (InExit(r)' <=> InExit(r))
        BY Zenon, <4>1 DEF Leaving, InExit
      <4> QED
        BY ZenonT(60), <1>0, <1>1, <4>1, <4>2 DEF Exits
    <3>2. CASE r = p
      <4>1. InExit(p)
        BY Zenon, <1>1 DEF InExit
      <4> QED
        BY ZenonT(60), <1>0, <1>1, <1>2, <3>2, <4>1 DEF Exits, Leaving, LeavingLabel, InWake
    <3> QED
      BY ZenonT(60), <3>1, <3>2
  <2> QED
    BY Zenon, <1>0, <1>1, <2>1 DEF Exits
<1> QED
  BY Zenon, <1>4, <1>6, <1>7, <1>8, <1>9 DEF KInv

-----------------------------------------------------------------------------
\* exit hands the child to init: it is in the list of init, its new parent, once.
LEMMA ExitAdoptFamily ==
  ASSUME LInv, KInv, NEW p \in Procs, exit_adopt(p)
  PROVE  KInv'
<1>0. /\ FamilyType /\ Children /\ Adopted /\ Parents /\ Exits
      /\ \A r \in Procs : /\ Distinct(childq[r]) /\ childq[r] \in Seq(Users)
                          /\ \A x : InList(x, childq[r]) => x \in Users /\ parent[x] = r /\ Alive(x)
      /\ Users \subseteq Procs /\ DOMAIN childq = Procs /\ DOMAIN parent = Procs /\ exiting \subseteq Users
      /\ bootproc \in Procs /\ bootproc \notin Users
  BY Zenon, FreshParts
<1>b. /\ ~Leaving(bootproc) /\ pc[bootproc] # "adopt" /\ state[bootproc] \in Live
      /\ bootproc \notin exiting
  BY Zenon, BootStays
<1> SUFFICES ASSUME NEW q, q = frame[p].who, NEW s, s = childq[bootproc] PROVE KInv'
  BY Zenon
<1>1. /\ pc[p] = "adopt" /\ childq' = [childq EXCEPT ![bootproc] = Append(s, q)]
      /\ parent' = [parent EXCEPT ![q] = bootproc]
      /\ frame' = [frame EXCEPT ![p] = NoFrame] /\ Goto(p, "exit")
      /\ UNCHANGED <<state, kid, exiting>>
  BY Zenon DEF exit_adopt
<1>2. /\ To(p, "exit", NoFrame) /\ pc'[p] = "exit"
      /\ \A r \in Procs \ {p} : pc'[r] = pc[r] /\ frame'[r] = frame[r]
      /\ frame'[p] = NoFrame /\ NoFrame.exc = "user"
  <2>1. To(p, "exit", NoFrame)
    BY Zenon, <1>1, GoSet
  <2> QED
    BY Zenon, <2>1 DEF To, Moves, NoFrame
<1>3. /\ q \in Users /\ q \in Procs /\ parent[q] = p /\ Alive(q) /\ ~InList(q, childq[p])
      /\ p # bootproc
  BY Zenon, <1>0, <1>1, <1>b DEF Adopted
<1>4. /\ parent'[q] = bootproc /\ \A x \in Procs \ {q} : parent'[x] = parent[x]
      /\ childq'[bootproc] = Append(s, q) /\ \A r \in Procs \ {bootproc} : childq'[r] = childq[r]
  BY ZenonT(60), <1>0, <1>1, <1>3
<1>5. /\ Append(s, q) \in Seq(Users) /\ Distinct(Append(s, q)) /\ InList(q, Append(s, q))
      /\ \A x : InList(x, s) => InList(x, Append(s, q))
      /\ \A x : InList(x, Append(s, q)) => x = q \/ InList(x, s)
  <2>1. s \in Seq(Users) /\ Distinct(s) /\ ~InList(q, s)
    BY Zenon, <1>0, <1>3
  <2> QED
    BY <1>3, <2>1, AppendList
<1>6. FamilyType'
  BY Zenon, <1>0, <1>1, <1>5 DEF FamilyType
<1>7. \A x : Alive(x)' <=> Alive(x)
  BY Zenon, <1>1 DEF Alive
<1>8. Children'
  <2>1. ASSUME NEW r \in Procs PROVE /\ Distinct(childq'[r])
                                     /\ \A x : InList(x, childq'[r]) => parent'[x] = r /\ Alive(x)'
    <3>1. CASE r = bootproc
      <4>1. ASSUME NEW x, InList(x, Append(s, q)) PROVE parent'[x] = r /\ Alive(x)'
        <5>1. CASE x = q
          BY ZenonT(60), <1>3, <1>4, <1>7, <3>1, <5>1
        <5>2. CASE x # q
          <6>1. x \in Users /\ parent[x] = r /\ Alive(x)
            BY ZenonT(60), <1>0, <1>5, <3>1, <4>1, <5>2
          <6> QED
            BY ZenonT(60), <1>0, <1>4, <1>7, <5>2, <6>1
        <5> QED
          BY Zenon, <5>1, <5>2
      <4> QED
        BY Zenon, <1>4, <1>5, <3>1, <4>1
    <3>2. CASE r # bootproc
      <4>1. childq'[r] = childq[r]
        BY Zenon, <1>4, <3>2
      <4>2. ASSUME NEW x, InList(x, childq[r]) PROVE x \in Procs /\ x # q
        BY <1>0, <1>3, <4>2
      <4> QED
        BY ZenonT(60), <1>0, <1>4, <1>7, <4>1, <4>2
    <3> QED
      BY Zenon, <3>1, <3>2
  <2> QED
    BY Zenon, <1>6, <2>1, ChildrenDefPrime
<1>9. Adopted'
  <2> SUFFICES ASSUME NEW r \in Procs, pc'[r] = "adopt"
               PROVE  /\ frame'[r].who \in Users /\ parent'[frame'[r].who] = r
                      /\ Alive(frame'[r].who)
                      /\ ~InList(frame'[r].who, childq'[r])
    BY Zenon, <1>1 DEF Adopted, Alive
  <2>1. r # p /\ pc[r] = "adopt" /\ frame'[r] = frame[r] /\ r # bootproc
    BY Zenon, <1>2, <1>b
  <2>2. /\ frame[r].who \in Users /\ parent[frame[r].who] = r /\ Alive(frame[r].who)
        /\ ~InList(frame[r].who, childq[r])
    BY Zenon, <1>0, <2>1 DEF Adopted
  <2>3. frame[r].who \in Procs \ {q}
    BY Zenon, <1>0, <1>3, <2>1, <2>2
  <2> QED
    BY Zenon, <1>4, <2>1, <2>2, <2>3
<1>10. Parents'
  <2> SUFFICES ASSUME NEW x \in Users, Alive(x)
               PROVE  /\ parent'[x] \in Procs /\ parent'[x] # x /\ state[parent'[x]] \in Live
                      /\ \/ InList(x, childq'[parent'[x]])
                         \/ pc'[parent'[x]] = "adopt" /\ frame'[parent'[x]].who = x
    BY Zenon, <1>1, <1>7 DEF Parents, HandsOver, Live
  <2>1. CASE x = q
    BY ZenonT(60), <1>0, <1>b, <1>3, <1>4, <1>5, <2>1
  <2>2. CASE x # q
    <3>1. /\ parent[x] \in Procs /\ parent[x] # x /\ state[parent[x]] \in Live
          /\ InList(x, childq[parent[x]]) \/ (pc[parent[x]] = "adopt" /\ frame[parent[x]].who = x)
      BY Zenon, <1>0 DEF Parents, Live, HandsOver
    <3>2. parent'[x] = parent[x]
      BY Zenon, <1>0, <1>4, <2>2
    <3>3. CASE InList(x, childq[parent[x]])
      <4>1. InList(x, childq'[parent[x]])
        BY ZenonT(60), <1>4, <1>5, <3>1, <3>3
      <4> QED
        BY ZenonT(60), <3>1, <3>2, <4>1
    <3>4. CASE pc[parent[x]] = "adopt" /\ frame[parent[x]].who = x
      <4>1. parent[x] # p
        BY Zenon, <2>2, <3>4
      <4> QED
        BY ZenonT(60), <1>2, <3>1, <3>2, <3>4, <4>1
    <3> QED
      BY ZenonT(60), <3>1, <3>3, <3>4
  <2> QED
    BY Zenon, <2>1, <2>2
<1>11. Exits'
  <2>0. p \in exiting
    BY Zenon, <1>0, <1>1 DEF Exits, InExit
  <2>1. ASSUME NEW r \in Procs PROVE /\ Leaving(r)' => Len(childq'[r]) = 0
                                     /\ InExit(r)' => r \in exiting'
                                     /\ pc'[r] \in {"exit_parent", "exit_self"} => frame'[r].who = parent'[r]
    <3>1. CASE r # p
      <4>1. pc'[r] = pc[r] /\ frame'[r] = frame[r]
        BY Zenon, <1>2, <3>1
      <4>2. (Leaving(r)' <=> Leaving(r)) /\ (InExit(r)' <=> InExit(r))
        BY Zenon, <4>1 DEF Leaving, InExit
      <4>3. Leaving(r) => childq'[r] = childq[r]
        BY Zenon, <1>4, <1>b
      <4>4. pc[r] \in {"exit_parent", "exit_self"} => r # q
        <5> SUFFICES ASSUME pc[r] \in {"exit_parent", "exit_self"}, r = q PROVE FALSE
          BY ZenonT(60)
        <5>1. state[q] = "RUNNING"
          BY ZenonT(60), <1>3 DEF LInv, StateOK
        <5>2. q \in exiting
          BY Zenon, <1>0 DEF Exits, InExit, Leaving, LeavingLabel
        <5>3. Exits
          BY Zenon, <1>0
        <5>4. parent[q] \notin exiting
          BY Zenon, <5>1, <5>2, <5>3 DEF Exits
        <5> QED
          BY ZenonT(60), <1>3, <2>0, <5>4
      <4> QED
        BY <1>0, <1>1, <1>4, <4>1, <4>2, <4>3, <4>4 DEF Exits
    <3>2. CASE r = p
      BY ZenonT(60), <1>1, <1>2, <2>0, <3>2 DEF Leaving, LeavingLabel, InWake
    <3> QED
      BY ZenonT(60), <3>1, <3>2
  <2>2. ASSUME NEW x \in exiting, state[x] \notin {"UNUSED", "ZOMBIE", "FREED"}
        PROVE  parent'[x] \notin exiting
    <3>1. CASE x = q
      BY Zenon, <1>4, <1>b, <3>1
    <3>2. CASE x # q
      BY Zenon, <1>0, <1>4, <2>2, <3>2 DEF Exits
    <3> QED
      BY Zenon, <3>1, <3>2
  <2> QED
    BY ZenonT(60), <1>0, <1>1, <2>1, <2>2 DEF Exits
<1> QED
  BY Zenon, <1>6, <1>8, <1>9, <1>10, <1>11 DEF KInv

-----------------------------------------------------------------------------
\* wait reaps a dead child: it leaves the list of its parent, and no other list
\* held it.
LEMMA ScanFamily ==
  ASSUME LInv, KInv, NEW p \in Procs, wait_scan(p)
  PROVE  KInv'
<1> SUFFICES ASSUME NEW k, k = kid[p], NEW s, s = childq[p], NEW q, q = s[k] PROVE KInv'
  BY Zenon
<1>0. /\ FamilyType /\ Children /\ Adopted /\ Parents /\ Exits
      /\ \A r \in Procs : /\ Distinct(childq[r]) /\ childq[r] \in Seq(Users)
                          /\ \A x : InList(x, childq[r]) => x \in Users /\ parent[x] = r /\ Alive(x)
      /\ Users \subseteq Procs /\ DOMAIN childq = Procs /\ exiting \subseteq Users
  BY Zenon, FreshParts
<1>1. pc[p] = "scan" /\ k <= Len(s) /\ UNCHANGED <<frame, parent, exiting>>
  BY Zenon DEF wait_scan
<1>2. kid \in [Procs -> Nat \ {0}] /\ k \in 1 .. Len(s) /\ s \in Seq(Users) /\ Distinct(s)
  <2>1. kid \in [Procs -> Nat \ {0}] /\ s \in Seq(Users) /\ Distinct(s)
    BY Zenon, <1>0 DEF FamilyType
  <2> QED
    BY <1>1, <2>1
<1>3. CASE state[q] # "ZOMBIE"
  <2>1. kid' = [kid EXCEPT ![p] = k + 1] /\ UNCHANGED <<childq, state, pc>>
    BY Zenon, <1>3 DEF wait_scan
  <2>2. kid' \in [Procs -> Nat \ {0}]
    BY <1>2, <2>1
  <2>3. Minor(p)
    BY Zenon, <1>1, <2>1, MinorStay
  <2> QED
    BY ZenonT(60), <1>1, <2>1, <2>2, <2>3, FamilyFrame
<1>4. CASE state[q] = "ZOMBIE"
  <2> DEFINE t == erase(s, k)
  <2>1. /\ childq' = [childq EXCEPT ![p] = t] /\ state' = [state EXCEPT ![q] = "FREED"]
        /\ kid' = [kid EXCEPT ![p] = 1] /\ Goto(p, "user")
    BY Zenon, <1>4 DEF wait_scan
  <2>2. /\ t \in Seq(Users) /\ Distinct(t) /\ ~InList(q, t)
        /\ \A x : InList(x, t) => InList(x, s)
        /\ \A x : InList(x, s) => x = q \/ InList(x, t)
    BY Zenon, <1>2, EraseList
  <2> HIDE DEF t
  <2>3. InList(q, s) /\ q \in Users /\ q \in Procs /\ parent[q] = p
    <3>1. InList(q, s)
      BY Zenon, <1>2 DEF InList
    <3> QED
      BY Zenon, <1>0, <3>1
  <2>4. /\ pc'[p] = "user" /\ \A r \in Procs \ {p} : pc'[r] = pc[r] /\ childq'[r] = childq[r]
        /\ childq'[p] = t
    <3>1. DOMAIN pc = Procs
      BY ZenonT(60) DEF LInv, CoreType
    <3> QED
      BY ZenonT(60), <1>0, <2>1, <3>1 DEF Goto
  <2>5. /\ state'[q] = "FREED" /\ \A r \in Procs \ {q} : state'[r] = state[r]
    BY ZenonT(60), <2>1, <2>3 DEF LInv, CoreType
  <2>6. /\ ~Alive(q)' /\ \A r \in Procs \ {q} : Alive(r)' <=> Alive(r)
    BY Zenon, <2>5 DEF Alive
  <2>7. FamilyType'
    <3>1. childq' \in [Procs -> Seq(Users)] /\ kid' \in [Procs -> Nat \ {0}]
      BY <1>0, <1>2, <2>1, <2>2 DEF FamilyType
    <3> QED
      BY ZenonT(60), <1>0, <1>1, <3>1 DEF FamilyType
  <2>8. Children'
    <3>1. ASSUME NEW r \in Procs PROVE Distinct(childq'[r])
      BY ZenonT(60), <1>0, <2>2, <2>4
    <3>2. ASSUME NEW r \in Procs, NEW x, InList(x, childq'[r]) PROVE parent'[x] = r /\ Alive(x)'
      <4>1. InList(x, childq[r]) /\ x # q
        <5>1. CASE r = p
          BY Zenon, <2>2, <2>4, <3>2, <5>1
        <5>2. CASE r # p
          BY Zenon, <1>0, <2>3, <2>4, <3>2, <5>2
        <5> QED
          BY Zenon, <5>1, <5>2
      <4>2. x \in Users /\ parent[x] = r /\ Alive(x)
        BY Zenon, <1>0, <4>1
      <4> QED
        BY ZenonT(60), <1>0, <1>1, <2>6, <4>1, <4>2
    <3> QED
      BY ZenonT(60), <2>7, <3>1, <3>2, ChildrenDefPrime
  <2>9. Adopted'
    <3> SUFFICES ASSUME NEW r \in Procs, pc'[r] = "adopt"
                 PROVE  /\ frame[r].who \in Users /\ parent[frame[r].who] = r
                        /\ state'[frame[r].who] \notin {"UNUSED", "FREED"}
                        /\ ~InList(frame[r].who, childq'[r])
      BY Zenon, <1>1 DEF Adopted, Alive
    <3>1. r # p /\ pc[r] = "adopt" /\ childq'[r] = childq[r]
      BY Zenon, <2>4
    <3>2. /\ frame[r].who \in Users /\ parent[frame[r].who] = r /\ Alive(frame[r].who)
          /\ ~InList(frame[r].who, childq[r])
      BY Zenon, <1>0, <3>1 DEF Adopted
    <3>3. frame[r].who \in Procs \ {q}
      BY ZenonT(60), <1>0, <2>3, <3>1, <3>2
    <3> QED
      BY Zenon, <2>5, <3>1, <3>2, <3>3 DEF Alive
  <2>10. Parents'
    <3> SUFFICES ASSUME NEW x \in Users, Alive(x)'
                 PROVE  /\ parent[x] \in Procs /\ parent[x] # x /\ state'[parent[x]] \in Live
                        /\ \/ InList(x, childq'[parent[x]])
                           \/ pc'[parent[x]] = "adopt" /\ frame[parent[x]].who = x
      BY Zenon, <1>1 DEF Parents, HandsOver, Live
    <3>1. x # q /\ Alive(x)
      BY Zenon, <1>0, <2>6
    <3>2. /\ parent[x] \in Procs /\ parent[x] # x /\ state[parent[x]] \in Live
          /\ InList(x, childq[parent[x]]) \/ (pc[parent[x]] = "adopt" /\ frame[parent[x]].who = x)
      BY Zenon, <1>0, <3>1 DEF Parents, Live, HandsOver
    <3>3. parent[x] # q /\ state'[parent[x]] \in Live
      BY Zenon, <1>4, <2>5, <3>2 DEF Live
    <3>4. CASE parent[x] = p
      BY ZenonT(60), <1>1, <2>2, <2>4, <3>1, <3>2, <3>3, <3>4
    <3>5. CASE parent[x] # p
      BY Zenon, <2>4, <3>2, <3>3, <3>5
    <3> QED
      BY Zenon, <3>4, <3>5
  <2>11. Exits'
    <3>e. Exits
      BY Zenon, <1>0
    <3>1. ASSUME NEW r \in Procs PROVE /\ Leaving(r)' => Len(childq'[r]) = 0
                                       /\ InExit(r)' => r \in exiting'
                                       /\ pc'[r] \in {"exit_parent", "exit_self"} => frame'[r].who = parent'[r]
      <4>1. CASE r # p
        <5>1. pc'[r] = pc[r] /\ frame'[r] = frame[r] /\ childq'[r] = childq[r]
          BY Zenon, <1>1, <2>4, <4>1
        <5>2. (Leaving(r)' <=> Leaving(r)) /\ (InExit(r)' <=> InExit(r))
          BY Zenon, <5>1 DEF Leaving, InExit
        <5> QED
          BY ZenonT(60), <1>1, <3>e, <5>1, <5>2 DEF Exits
      <4>2. CASE r = p
        <5>1. ~Leaving(p)' /\ (InExit(p)' => InExit(p))
          BY Zenon, <1>1, <2>4 DEF Leaving, InExit, LeavingLabel, InWake
        <5> QED
          BY ZenonT(60), <1>1, <2>4, <3>e, <4>2, <5>1 DEF Exits
      <4> QED
        BY Zenon, <4>1, <4>2
    <3>2. ASSUME NEW x \in exiting PROVE /\ state'[x] # "UNUSED"
                                         /\ state'[x] \notin {"UNUSED", "ZOMBIE", "FREED"} => parent[x] \notin exiting
      <4>1. x \in Procs
        BY Zenon, <1>0
      <4> QED
        BY ZenonT(60), <2>5, <3>e, <4>1 DEF Exits
    <3> QED
      BY Zenon, <1>1, <3>1, <3>2 DEF Exits
  <2> QED
    BY ZenonT(60), <2>7, <2>8, <2>9, <2>10, <2>11 DEF KInv
<1> QED
  BY Zenon, <1>3, <1>4

-----------------------------------------------------------------------------
\* fork enters the new process in the list of its parent, and in no other.
LEMMA ForkFamily ==
  ASSUME LInv, KInv, NEW p \in Procs, NEW q \in Users, doclone(p, q), state[p] = "RUNNING"
  PROVE  KInv'
<1>0. /\ FamilyType /\ Children /\ Adopted /\ Parents /\ Exits
      /\ \A r \in Procs : /\ Distinct(childq[r]) /\ childq[r] \in Seq(Users)
                          /\ \A x : InList(x, childq[r]) => x \in Users /\ parent[x] = r /\ Alive(x)
      /\ Users \subseteq Procs /\ DOMAIN childq = Procs /\ DOMAIN parent = Procs /\ exiting \subseteq Users
  BY Zenon, FreshParts
<1> SUFFICES ASSUME NEW s, s = childq[p] PROVE KInv'
  BY Zenon
<1>1. /\ pc[p] = "user" /\ state[q] = "UNUSED" /\ p # q
      /\ parent' = [parent EXCEPT ![q] = p] /\ childq' = [childq EXCEPT ![p] = Append(s, q)]
      /\ state' = [state EXCEPT ![q] = "RUNNABLE"] /\ Goto(q, "forkret")
      /\ UNCHANGED <<frame, kid, exiting>>
  BY Zenon DEF doclone
<1>2. /\ q \in Procs /\ pc[q] = "user" /\ q \notin exiting /\ ~Alive(q)
      /\ \A r \in Procs : ~InList(q, childq[r])
  <2>1. q \in Procs
    BY ZenonT(60), <1>0
  <2>2. pc[q] = "user"
    BY ZenonT(60), <1>1, <2>1 DEF LInv, StateOK
  <2>3. q \notin exiting /\ ~Alive(q)
    BY Zenon, <1>0, <1>1 DEF Exits, Alive
  <2> QED
    BY ZenonT(60), <1>0, <2>1, <2>2, <2>3
<1>3. /\ pc'[q] = "forkret" /\ \A r \in Procs \ {q} : pc'[r] = pc[r]
      /\ state'[q] = "RUNNABLE" /\ \A r \in Procs \ {q} : state'[r] = state[r]
      /\ parent'[q] = p /\ \A r \in Procs \ {q} : parent'[r] = parent[r]
      /\ childq'[p] = Append(s, q) /\ \A r \in Procs \ {p} : childq'[r] = childq[r]
  <2>1. DOMAIN pc = Procs /\ DOMAIN state = Procs
    BY ZenonT(60) DEF LInv, CoreType
  <2> QED
    BY ZenonT(60), <1>0, <1>1, <1>2, <2>1 DEF Goto
<1>4. Alive(q)' /\ \A r \in Procs \ {q} : Alive(r)' <=> Alive(r)
  BY Zenon, <1>3 DEF Alive
<1>5. /\ Append(s, q) \in Seq(Users) /\ Distinct(Append(s, q)) /\ InList(q, Append(s, q))
      /\ \A x : InList(x, s) => InList(x, Append(s, q))
      /\ \A x : InList(x, Append(s, q)) => x = q \/ InList(x, s)
  <2>1. s \in Seq(Users) /\ Distinct(s) /\ ~InList(q, s)
    BY Zenon, <1>0, <1>2
  <2> QED
    BY Zenon, <2>1, AppendList
<1>6. FamilyType'
  <2>1. parent' \in [Procs -> Procs \cup {None}] /\ childq' \in [Procs -> Seq(Users)]
    BY Zenon, <1>0, <1>1, <1>5 DEF FamilyType
  <2> QED
    BY Zenon, <1>0, <1>1, <2>1 DEF FamilyType
<1>7. Children'
  <2>1. ASSUME NEW r \in Procs PROVE Distinct(childq'[r])
    BY ZenonT(60), <1>0, <1>3, <1>5
  <2>2. ASSUME NEW r \in Procs, NEW x, InList(x, childq'[r]) PROVE parent'[x] = r /\ Alive(x)'
    <3>1. CASE x = q
      <4>1. r = p
        BY ZenonT(60), <1>2, <1>3, <2>2, <3>1
      <4> QED
        BY Zenon, <1>3, <1>4, <3>1, <4>1
    <3>2. CASE x # q
      <4>1. InList(x, childq[r])
        <5>1. CASE r = p
          BY Zenon, <1>3, <1>5, <2>2, <3>2, <5>1
        <5>2. CASE r # p
          BY Zenon, <1>3, <2>2, <5>2
        <5> QED
          BY Zenon, <5>1, <5>2
      <4>2. x \in Procs /\ parent[x] = r /\ Alive(x)
        BY Zenon, <1>0, <4>1
      <4> QED
        BY ZenonT(60), <1>3, <1>4, <3>2, <4>2
    <3> QED
      BY Zenon, <3>1, <3>2
  <2> QED
    BY ZenonT(60), <1>6, <2>1, <2>2, ChildrenDefPrime
<1>8. Adopted'
  <2> SUFFICES ASSUME NEW r \in Procs, pc'[r] = "adopt"
               PROVE  /\ frame[r].who \in Users /\ parent'[frame[r].who] = r
                      /\ state'[frame[r].who] \notin {"UNUSED", "FREED"}
                      /\ ~InList(frame[r].who, childq'[r])
    BY Zenon, <1>1 DEF Adopted, Alive
  <2>1. r # q /\ r # p /\ pc[r] = "adopt" /\ childq'[r] = childq[r]
    BY <1>1, <1>3
  <2>2. /\ frame[r].who \in Users /\ parent[frame[r].who] = r /\ Alive(frame[r].who)
        /\ ~InList(frame[r].who, childq[r])
    BY Zenon, <1>0, <2>1 DEF Adopted
  <2>3. frame[r].who \in Procs \ {q}
    BY Zenon, <1>0, <1>2, <2>2
  <2> QED
    BY Zenon, <1>3, <2>1, <2>2, <2>3 DEF Alive
<1>9. Parents'
  <2> SUFFICES ASSUME NEW x \in Users, Alive(x)'
               PROVE  /\ parent'[x] \in Procs /\ parent'[x] # x /\ state'[parent'[x]] \in Live
                      /\ \/ InList(x, childq'[parent'[x]])
                         \/ pc'[parent'[x]] = "adopt" /\ frame[parent'[x]].who = x
    BY ZenonT(60), <1>1 DEF Parents, HandsOver, Live
  <2>1. CASE x = q
    BY <1>1, <1>3, <1>5, <2>1 DEF Live
  <2>2. CASE x # q
    <3>1. Alive(x) /\ parent'[x] = parent[x]
      BY ZenonT(60), <1>0, <1>3, <1>4, <2>2
    <3>2. /\ parent[x] \in Procs /\ parent[x] # x /\ state[parent[x]] \in Live
          /\ InList(x, childq[parent[x]]) \/ (pc[parent[x]] = "adopt" /\ frame[parent[x]].who = x)
      BY Zenon, <1>0, <3>1 DEF Parents, Live, HandsOver
    <3>3. parent[x] # q
      BY Zenon, <1>1, <3>2 DEF Live
    <3>4. state'[parent[x]] \in Live /\ pc'[parent[x]] = pc[parent[x]]
      BY Zenon, <1>3, <3>2, <3>3
    <3>5. InList(x, childq[parent[x]]) => InList(x, childq'[parent[x]])
      BY Zenon, <1>3, <1>5, <3>2
    <3> QED
      BY Zenon, <3>1, <3>2, <3>4, <3>5
  <2> QED
    BY Zenon, <2>1, <2>2
<1>10. Exits'
  <2>e. Exits
    BY Zenon, <1>0
  <2>1. ASSUME NEW r \in Procs PROVE /\ Leaving(r)' => Len(childq'[r]) = 0
                                     /\ InExit(r)' => r \in exiting'
                                     /\ pc'[r] \in {"exit_parent", "exit_self"} => frame'[r].who = parent'[r]
    <3>1. CASE r # q
      <4>1. pc'[r] = pc[r] /\ frame'[r] = frame[r] /\ parent'[r] = parent[r]
        BY Zenon, <1>1, <1>3, <3>1
      <4>2. (Leaving(r)' <=> Leaving(r)) /\ (InExit(r)' <=> InExit(r))
        BY Zenon, <4>1 DEF Leaving, InExit
      <4>3. ~Leaving(p)
        BY Zenon, <1>1 DEF Leaving, LeavingLabel, InWake
      <4>4. Leaving(r) => childq'[r] = childq[r]
        BY Zenon, <1>3, <4>3
      <4> QED
        BY Zenon, <1>1, <2>e, <4>1, <4>2, <4>4 DEF Exits
    <3>2. CASE r = q
      <4>1. ~Leaving(q)' /\ (InExit(q)' => InExit(q))
        BY Zenon, <1>1, <1>3 DEF Leaving, InExit, LeavingLabel, InWake
      <4> QED
        BY ZenonT(60), <1>1, <1>3, <2>e, <3>2, <4>1 DEF Exits
    <3> QED
      BY Zenon, <3>1, <3>2
  <2>2. ASSUME NEW x \in exiting PROVE /\ state'[x] # "UNUSED"
                                       /\ state'[x] \notin {"UNUSED", "ZOMBIE", "FREED"} => parent'[x] \notin exiting
    <3>1. x \in Procs \ {q}
      BY Zenon, <1>0, <1>2
    <3>2. state'[x] = state[x] /\ parent'[x] = parent[x]
      BY Zenon, <1>3, <3>1
    <3> QED
      BY Zenon, <2>e, <3>2 DEF Exits
  <2> QED
    BY ZenonT(60), <1>1, <2>1, <2>2 DEF Exits
<1> QED
  BY ZenonT(60), <1>6, <1>7, <1>8, <1>9, <1>10 DEF KInv

\* Every step keeps the families, as long as no parent exits together with its child.
LEMMA NextK ==
  ASSUME ~JointExit, LInv, KInv, [Next]_vars
  PROVE  KInv'
<1>t. kid \in [Procs -> Nat \ {0}]
  BY Zenon DEF KInv, FamilyType
<1>f. ASSUME NEW p \in Procs, Minor(p), UNCHANGED proc_vars,
             \A r \in Procs : state'[r] = state[r] \/ (state[r] \in Live /\ state'[r] \in Live)
      PROVE  KInv'
  BY Zenon, <1>f, <1>t, FamilyFrame DEF proc_vars
<1>m. ASSUME NEW p \in Procs, Minor(p), UNCHANGED <<parent, childq, exiting, state>>, kid' \in [Procs -> Nat \ {0}]
      PROVE  KInv'
  BY ZenonT(60), <1>m, FamilyFrame
<1>1. CASE UNCHANGED vars
  <2>1. UNCHANGED <<state, pc, frame, parent, childq, kid, exiting>>
    BY Zenon, <1>1 DEF vars, cv_vars, proc_vars
  <2> QED
    BY <2>1 DEF KInv, FamilyType, Children, Adopted, Parents, Exits, Alive, HandsOver, Leaving, InExit
<1>2. ASSUME NEW p \in Procs, Syscall(p) PROVE KInv'
  <2>1. CASE \E q \in Procs : May(p, "fork") /\ fork(p, q)
    BY Zenon, <2>1, ForkFamily DEF fork, May, Running
  <2>2. CASE \E n \in Sizes : May(p, "write") /\ write_call(p, n) /\ UNCHANGED proc_vars
    BY Zenon, <2>2, <1>f, CallMinor DEF May, Running
  <2>3. CASE \E n \in Sizes : May(p, "read") /\ read_call(p, n) /\ UNCHANGED proc_vars
    BY Zenon, <2>3, <1>f, CallMinor DEF May, Running
  <2>4. CASE \E e \in fds[p] : /\ May(p, IF e = "r" THEN "close_r" ELSE "close_w")
                               /\ close_fds(p, {e}, "user") /\ UNCHANGED proc_vars
    BY Zenon, <2>4, <1>f, CallMinor DEF May, Running
  <2>5. CASE May(p, "wait") /\ wait_lock(p)
    BY Zenon, <2>5, <1>m, ProcMinor DEF May, Running
  <2>6. CASE \E q \in Killable \ {p} : May(p, "kill") /\ kill(p, q)
    BY ZenonT(60), <2>6, <1>m, <1>t, KillMinor
  <2>7. CASE May(p, "exit") /\ exit_call(p)
    <3>1. p \in Users
      BY Zenon, <2>7, ShellAssumption DEF May, exit_call, Users
    <3> QED
      BY ZenonT(60), <2>7, <3>1, ExitCallFamily DEF May, Running
  <2> QED
    BY ZenonT(60), <1>2, <2>1, <2>2, <2>3, <2>4, <2>5, <2>6, <2>7 DEF Syscall
<1>3. ASSUME NEW p \in Procs, Kernel(p) PROVE KInv'
  <2>1. CASE CondvarStep(p) /\ UNCHANGED proc_vars
    BY Zenon, <2>1, <1>f, CondvarMinor
  <2>2. CASE ProcStep(p)
    <3>1. CASE wait_scan(p)
      BY Zenon, <3>1, ScanFamily
    <3>2. CASE exit_pop(p)
      BY Zenon, <3>2, ExitPopFamily
    <3>3. CASE exit_adopt(p)
      BY Zenon, <3>3, ExitAdoptFamily
    <3>4. CASE exit_zombie(p)
      BY Zenon, <3>4, ZombieFamily
    <3>5. CASE \/ (pc[p] \in {"wait", "user"} /\ wait_lock(p)) \/ wait_sleep(p) \/ wait_again(p)
               \/ exit_read_parent(p) \/ exit_lock_parent(p)
               \/ exit_lock_self(p) \/ exit_wake_init(p) \/ kill_end(p)
      BY Zenon, <3>5, <1>m, ProcMinor
    <3> QED
      BY ZenonT(60), <2>2, <3>1, <3>2, <3>3, <3>4, <3>5 DEF ProcStep
  <2>3. CASE PipeStep(p) /\ UNCHANGED proc_vars
    BY Zenon, <2>3, <1>f, PipeMinor
  <2>4. CASE exit_files(p)
    <3>1. state[p] = "RUNNING" /\ UNCHANGED proc_vars
      BY Zenon, <2>4, Here DEF exit_files
    <3> QED
      BY ZenonT(60), <2>4, <3>1, <1>f, CallMinor
  <2>5. CASE reader_onzero(p) /\ UNCHANGED proc_vars
    <3>1. state[p] = "RUNNING"
      BY ZenonT(60), <2>5, ShellAssumption DEF reader_onzero, LInv, StateOK, Users
    <3> QED
      BY ZenonT(60), <2>5, <3>1, <1>f, CallMinor
  <2> QED
    BY ZenonT(60), <1>3, <2>1, <2>2, <2>3, <2>4, <2>5 DEF Kernel
<1> QED
  BY Zenon, <1>1, <1>2, <1>3 DEF Next

\* At the start first is the only child, and init its parent.
LEMMA InitK == Init => KInv
<1> SUFFICES ASSUME Init PROVE KInv
  BY Zenon
<1>1. /\ bootproc \in Procs /\ first \in Users /\ Users \subseteq Procs /\ bootproc \notin Users
      /\ first # worker /\ worker \notin Users /\ worker # bootproc
  BY Zenon, ShellAssumption DEF Users
<1>2. /\ parent = [p \in Procs |-> IF p = first THEN bootproc ELSE None]
      /\ childq = [p \in Procs |-> IF p = bootproc THEN <<first>> ELSE <<>>]
      /\ kid = [p \in Procs |-> 1] /\ exiting = {}
  BY Zenon DEF Init
<1>3. \A p \in Procs : /\ pc[p] \in {"user", "swtch"} /\ frame[p].exc = "user"
                       /\ state[p] = CASE p = bootproc -> "SLEEPING"
                                       [] p \in {worker, first} -> "RUNNING"
                                       [] OTHER -> "UNUSED"
  BY Zenon DEF Init, NoFrame
<1>4. FamilyType
  BY <1>1, <1>2 DEF FamilyType
<1>5. /\ Len(<<first>>) = 1 /\ <<first>>[1] = first /\ Len(<<>>) = 0
  BY Zenon
<1>6. ASSUME NEW r \in Procs PROVE /\ Distinct(childq[r])
                                   /\ \A x : InList(x, childq[r]) => parent[x] = r /\ Alive(x)
  BY <1>1, <1>2, <1>3, <1>5 DEF Distinct, InList, Alive
<1>7. Children
  BY Zenon, <1>4, <1>6, ChildrenDef
<1>8. Adopted
  BY Zenon, <1>3 DEF Adopted
<1>9. Parents
  <2> SUFFICES ASSUME NEW q \in Users, Alive(q)
               PROVE  /\ parent[q] \in Procs /\ parent[q] # q /\ state[parent[q]] = "SLEEPING"
                      /\ InList(q, childq[parent[q]])
    BY Zenon DEF Parents
  <2>1. q = first
    BY Zenon, <1>1, <1>3 DEF Alive
  <2>2. parent[q] = bootproc /\ childq[bootproc] = <<first>> /\ state[bootproc] = "SLEEPING"
    BY Zenon, <1>1, <1>2, <1>3, <2>1
  <2> QED
    BY <1>1, <1>5, <2>1, <2>2 DEF InList
<1>10. Exits
  BY Zenon, <1>2, <1>3 DEF Exits, Leaving, InExit, LeavingLabel, InWake
<1> QED
  BY ZenonT(60), <1>4, <1>7, <1>8, <1>9, <1>10 DEF KInv

-----------------------------------------------------------------------------
\* The condition variables of the pipe and of the processes are different.
LEMMA CvNames ==
  /\ empty # full
  /\ \A p \in Procs : cv(p) # empty /\ cv(p) # full
  /\ \A p, q \in Procs : cv(p) = cv(q) => p = q
BY Zenon, ShellAssumption DEF cv, empty, full

-----------------------------------------------------------------------------
\* The types of the arguments of read and write.
LEMMA IOTypes ==
  ASSUME IOInv, NEW p \in Procs
  PROVE  /\ arg[p] \in Nat /\ pos[p] \in Nat /\ pos[p] <= arg[p] /\ arg[p] \in Sizes \cup {0}
         /\ DOMAIN arg = Procs /\ DOMAIN pos = Procs /\ DOMAIN fds = Procs
         /\ ~InIO(p) => pos[p] = 0
<1>1. Sizes \subseteq Nat
  BY Zenon, ShellAssumption
<1>2. /\ arg[p] \in Sizes \cup {0} /\ pos[p] \in 0 .. arg[p] /\ (~InIO(p) => pos[p] = 0)
      /\ DOMAIN arg = Procs /\ DOMAIN pos = Procs /\ DOMAIN fds = Procs
  BY Zenon DEF IOInv
<1>3. arg[p] \in Nat
  BY <1>1, <1>2
<1> QED
  BY <1>2, <1>3

\* A step of m that changes the arguments of no other process.
LEMMA IOFrame ==
  ASSUME IOInv, NEW m \in Procs, Moves(m), DOMAIN fds' = Procs, DOMAIN arg' = Procs, DOMAIN pos' = Procs,
         \A r \in Procs : fds'[r] \subseteq {"r", "w"},
         \A r \in Procs \ {m} : arg'[r] = arg[r] /\ pos'[r] = pos[r],
         arg'[m] \in Sizes \cup {0}, pos'[m] \in 0 .. arg'[m], ~InIO(m)' => pos'[m] = 0
  PROVE  IOInv'
<1>1. ASSUME NEW r \in Procs \ {m} PROVE InIO(r)' <=> InIO(r)
  BY Zenon DEF InIO, Moves
<1>2. ASSUME NEW r \in Procs
      PROVE  arg'[r] \in Sizes \cup {0} /\ pos'[r] \in 0 .. arg'[r] /\ (~InIO(r)' => pos'[r] = 0)
  <2>1. CASE r = m
    BY Zenon, <2>1
  <2>2. CASE r # m
    BY Zenon, <1>1, <2>2 DEF IOInv
  <2> QED
    BY Zenon, <2>1, <2>2
<1> QED
  BY Zenon, <1>2 DEF IOInv

\* A step outside read and write.
LEMMA IOSame ==
  ASSUME IOInv, NEW m \in Procs, Moves(m), UNCHANGED <<arg, pos>>, InIO(m) => InIO(m)',
         DOMAIN fds' = Procs, \A r \in Procs : fds'[r] \subseteq {"r", "w"}
  PROVE  IOInv'
<1>1. DOMAIN arg' = Procs /\ DOMAIN pos' = Procs /\ arg'[m] \in Sizes \cup {0} /\ pos'[m] \in 0 .. arg'[m]
  BY Zenon DEF IOInv
<1>2. ~InIO(m)' => pos'[m] = 0
  BY Zenon DEF IOInv
<1> QED
  BY Zenon, <1>1, <1>2, IOFrame

\* A step of sleep or wake_all is in read or write if it was before.
LEMMA CondvarLabels ==
  ASSUME LInv, NEW p \in Procs, CondvarStep(p)
  PROVE  /\ Moves(p) /\ (InIO(p) => InIO(p)')
         /\ pc[p] \in InSleep \cup InWake \cup {"forkret"}
         /\ pc'[p] \notin {"sleep", "wake", "read_empty", "write_full", "read_loop", "write_loop", "scan"}
            \/ (pc'[p] = pc[p] /\ frame'[p] = frame[p])
<1>0. DOMAIN pc = Procs /\ DOMAIN frame = Procs /\ FrameOK(p, pc[p], frame[p])
  BY Zenon, Here
<1> USE DEF InSleep, InWake
<1>1. CASE sleep_to(p)
  BY Zenon, <1>0, <1>1 DEF sleep_to, Goto, Moves, InIO, IOLabel
<1>2. CASE sleep_enqueue(p)
  BY Zenon, <1>0, <1>2 DEF sleep_enqueue, Goto, Moves, InIO, IOLabel
<1>3. CASE resume(p)
  BY Zenon, <1>0, <1>3 DEF resume, Goto, Moves, InIO, IOLabel
<1>4. CASE sleep_relock(p)
  <2>0. SleepFrame(p, "relock", frame[p]) /\ pc[p] = "relock"
    BY Zenon, <1>0, <1>4 DEF FrameOK, sleep_relock
  <2>1. CASE Len(frame[p].lks) > 1
    <3>1. pc' = pc /\ frame' = [frame EXCEPT ![p].lks = Tail(@)]
      BY Zenon, <1>4, <2>1 DEF sleep_relock
    <3>2. frame'[p].ret = frame[p].ret
      BY <1>0, <3>1
    <3> QED
      BY Zenon, <1>0, <2>0, <3>1, <3>2 DEF Moves, InIO
  <2>2. CASE ~(Len(frame[p].lks) > 1)
    <3>1. killed[p] => p \in Killable
      BY Zenon DEF LInv
    <3>2. pc' = [pc EXCEPT ![p] = IF killed[p] THEN frame[p].exc ELSE frame[p].ret]
          /\ frame' = [frame EXCEPT ![p] = NoFrame]
      BY Zenon, <1>4, <2>2 DEF sleep_relock, Goto
    <3>3. \/ pc'[p] = "rewait" /\ frame[p].ret = "rewait"
          \/ pc'[p] \in {"read_woken", "write_woken", "io_killed"}
      BY ZenonT(60), <1>0, <2>0, <3>1, <3>2 DEF SleepFrame
    <3> QED
      BY ZenonT(60), <1>0, <2>0, <3>2, <3>3 DEF Moves, InIO, IOLabel
  <2> QED
    BY Zenon, <2>1, <2>2
<1>5. CASE wake_all(p)
  BY Zenon, <1>0, <1>5 DEF wake_all, Goto, Moves, InIO, IOLabel
<1>6. CASE wake_one(p)
  BY Zenon, <1>0, <1>6 DEF wake_one, Moves, InIO
<1>7. CASE wake_return(p)
  <2>1. frame[p].ret \in {"exit_init", "exit_zombie", "kill_end", "io_done", "closed"}
    BY ZenonT(60), <1>0, <1>7, WakeLocks DEF FrameOK, wake_return
  <2> QED
    BY Zenon, <1>0, <1>7, <2>1 DEF wake_return, Goto, Moves, InIO, IOLabel
<1> QED
  BY ZenonT(60), <1>1, <1>2, <1>3, <1>4, <1>5, <1>6, <1>7 DEF CondvarStep

\* fork, exit, wait and kill are outside read and write.
Outside(p) ==
  /\ ~InIO(p) /\ pc'[p] \notin {"read_empty", "write_full", "read_loop", "write_loop"}
  /\ pc'[p] = "sleep" => frame'[p].cv = cv(p)

\* fork, wait, kill and exit stay out of read and write,
LEMMA ProcOutside ==
  ASSUME LInv, NEW p \in Procs, ProcStep(p) \/ (pc[p] = "user" /\ wait_lock(p)) \/ exit_call(p)
  PROVE  Outside(p)
<1>0. DOMAIN pc = Procs /\ DOMAIN frame = Procs /\ FrameOK(p, pc[p], frame[p])
  BY Zenon, Here
<1> USE DEF Outside, InIO, IOLabel, InSleep, InWake, Goto, WakeAll, Sleep
<1>1. CASE pc[p] \in {"wait", "user"} /\ wait_lock(p)
  BY Zenon, <1>0, <1>1 DEF wait_lock
<1>2. CASE wait_scan(p)
  BY Zenon, <1>0, <1>2 DEF wait_scan
<1>3. CASE wait_sleep(p)
  BY <1>0, <1>3 DEF wait_sleep, FrameOK
<1>4. CASE wait_again(p)
  BY Zenon, <1>0, <1>4 DEF wait_again
<1>5. CASE exit_pop(p)
  BY Zenon, <1>0, <1>5 DEF exit_pop
<1>6. CASE exit_adopt(p)
  BY Zenon, <1>0, <1>6 DEF exit_adopt
<1>7. CASE exit_read_parent(p)
  BY Zenon, <1>0, <1>7 DEF exit_read_parent
<1>8. CASE exit_lock_parent(p)
  BY Zenon, <1>0, <1>8 DEF exit_lock_parent
<1>9. CASE exit_lock_self(p)
  BY Zenon, <1>0, <1>9 DEF exit_lock_self
<1>10. CASE exit_wake_init(p)
  BY ZenonT(60), <1>0, <1>10 DEF exit_wake_init
<1>11. CASE exit_zombie(p)
  BY Zenon, <1>0, <1>11 DEF exit_zombie
<1>12. CASE kill_end(p)
  BY Zenon, <1>0, <1>12 DEF kill_end
<1>13. CASE exit_call(p)
  BY Zenon, <1>0, <1>13 DEF exit_call
<1> QED
  BY ZenonT(60), <1>1, <1>2, <1>3, <1>4, <1>5, <1>6, <1>7, <1>8, <1>9, <1>10, <1>11, <1>12, <1>13 DEF ProcStep

\* and so do the calls that do not touch the ring.
LEMMA CallOutside ==
  ASSUME LInv, NEW p \in Procs, NEW n, NEW ends, NEW ret,
         \/ reader_onzero(p) \/ kill(p, n)
         \/ pc[p] \in {"user", "exit_files"} /\ ret \in {"user", "exit"} /\ close_fds(p, ends, ret)
  PROVE  Outside(p)
<1>0. DOMAIN pc = Procs /\ DOMAIN frame = Procs
  BY Zenon, Here
<1> USE DEF Outside, InIO, IOLabel, InSleep, InWake, Goto, WakeAll
<1>3. CASE reader_onzero(p)
  BY Zenon, <1>0, <1>3 DEF reader_onzero
<1>4. CASE kill(p, n)
  BY Zenon, <1>0, <1>4 DEF kill
<1>5. CASE pc[p] \in {"user", "exit_files"} /\ ret \in {"user", "exit"} /\ close_fds(p, ends, ret)
  BY Zenon, <1>0, <1>5 DEF close_fds
<1> QED
  BY Zenon, <1>3, <1>4, <1>5

-----------------------------------------------------------------------------
\* A step of m that leaves the ring alone.
LEMMA PipeFrame ==
  ASSUME PipeWake, KeepsSleepers, NEW m \in Procs, Moves(m), UNCHANGED <<nread, nwrite, writeopen>>,
         \A r \in Procs \ {m} : pos'[r] = pos[r],
         pc'[m] = "read_empty" => Empty, pc'[m] = "write_full" => Full,
         pc'[m] = "sleep" /\ frame'[m].cv = empty => Empty /\ writeopen,
         pc'[m] = "sleep" /\ frame'[m].cv = full => Full,
         Wrote(m) => Wrote(m)' \/ Waking(empty)', HasRead(m) => HasRead(m)' \/ Waking(full)'
  PROVE  PipeWake'
<1>1. (Empty' <=> Empty) /\ (Full' <=> Full) /\ (writeopen' <=> writeopen)
  BY Zenon DEF Empty, Full
<1>2. PipeDecides'
  <2> SUFFICES ASSUME NEW r \in Procs
               PROVE  /\ pc'[r] = "read_empty" => Empty
                      /\ pc'[r] = "write_full" => Full
                      /\ pc'[r] = "sleep" /\ frame'[r].cv = empty => Empty /\ writeopen
                      /\ pc'[r] = "sleep" /\ frame'[r].cv = full => Full
    BY Zenon, <1>1 DEF PipeDecides
  <2>1. CASE r = m
    BY Zenon, <2>1
  <2>2. CASE r # m
    BY Zenon, <2>2 DEF Moves, PipeWake, PipeDecides
  <2> QED
    BY Zenon, <2>1, <2>2
<1>3. ASSUME NEW r \in Procs, Wrote(r) PROVE (\E s \in Procs : Wrote(s)') \/ Waking(empty)'
  <2>1. CASE r = m
    BY Zenon, <1>3, <2>1
  <2>2. CASE r # m
    BY Zenon, <1>3, <2>2 DEF Moves, Wrote
  <2> QED
    BY Zenon, <2>1, <2>2
<1>4. ASSUME NEW r \in Procs, HasRead(r) PROVE (\E s \in Procs : HasRead(s)') \/ Waking(full)'
  <2>1. CASE r = m
    BY Zenon, <1>4, <2>1
  <2>2. CASE r # m
    BY Zenon, <1>4, <2>2 DEF Moves, HasRead
  <2> QED
    BY Zenon, <2>1, <2>2
<1>5. ASSUME NEW r \in Procs, Sleeps(r, empty)'
      PROVE  (Empty' /\ writeopen') \/ Waking(empty)' \/ \E s \in Procs : Wrote(s)'
  <2>1. Sleeps(r, empty) \/ (pc[r] = "sleep" /\ frame[r].cv = empty)
    BY Zenon, <1>5, Names DEF KeepsSleepers
  <2>2. (Empty /\ writeopen) \/ Waking(empty) \/ \E s \in Procs : Wrote(s)
    BY Zenon, <2>1 DEF PipeWake, PipeDecides, PipeSleeps
  <2>3. Waking(empty) => Waking(empty)'
    BY Zenon, <1>5, Names DEF KeepsSleepers
  <2> QED
    BY Zenon, <1>1, <1>3, <2>2, <2>3
<1>6. ASSUME NEW r \in Procs, Sleeps(r, full)'
      PROVE  Full' \/ Waking(full)' \/ \E s \in Procs : HasRead(s)'
  <2>1. Sleeps(r, full) \/ (pc[r] = "sleep" /\ frame[r].cv = full)
    BY Zenon, <1>6, Names DEF KeepsSleepers
  <2>2. Full \/ Waking(full) \/ \E s \in Procs : HasRead(s)
    BY Zenon, <2>1 DEF PipeWake, PipeDecides, PipeSleeps
  <2>3. Waking(full) => Waking(full)'
    BY Zenon, <1>6, Names DEF KeepsSleepers
  <2> QED
    BY ZenonT(60), <1>1, <1>4, <2>2, <2>3
<1>7. PipeSleeps'
  BY Zenon, <1>5, <1>6 DEF PipeSleeps
<1> QED
  BY Zenon, <1>2, <1>7 DEF PipeWake

\* A process outside read and write keeps PipeWake when it leaves the ring and the
\* write end alone.
LEMMA PipeOutside ==
  ASSUME LInv, PipeWake, KeepsSleepers, NEW m \in Procs, Moves(m), Outside(m), UNCHANGED <<nread, nwrite, writeopen, pos>>
  PROVE  PipeWake'
<1>1. ~Wrote(m) /\ ~HasRead(m)
  BY Zenon DEF Wrote, HasRead, Outside, InIO, IOLabel
<1>2. pc'[m] = "sleep" => frame'[m].cv # empty /\ frame'[m].cv # full
  BY Zenon, CvNames DEF Outside
<1>3. pc'[m] \notin {"read_empty", "write_full"}
  BY Zenon DEF Outside
<1> QED
  BY Zenon, <1>1, <1>2, <1>3, PipeFrame

\* sleep and wake_all keep PipeWake: who is taken from a list has been woken, and
\* who enters it does so under the lock of the list.
LEMMA PipeCondvar ==
  ASSUME LInv, PipeWake, NEW p \in Procs, CondvarStep(p), UNCHANGED <<nread, nwrite, writeopen, pos>>
  PROVE  PipeWake'
<1>1. /\ Moves(p) /\ pc[p] \in InSleep \cup InWake \cup {"forkret"}
      /\ pc'[p] \notin {"sleep", "read_empty", "write_full"} \/ (pc'[p] = pc[p] /\ frame'[p] = frame[p])
  BY Zenon, CondvarLabels
<1>2. ~Wrote(p) /\ ~HasRead(p)
  BY Zenon, <1>1 DEF Wrote, HasRead, InSleep, InWake
<1>3. KeepsSleepers
  BY Zenon, CondvarSleepers
<1>4. /\ pc'[p] = "read_empty" => Empty
      /\ pc'[p] = "write_full" => Full
      /\ pc'[p] = "sleep" /\ frame'[p].cv = empty => Empty /\ writeopen
      /\ pc'[p] = "sleep" /\ frame'[p].cv = full => Full
  BY Zenon, <1>1 DEF PipeWake, PipeDecides
<1> QED
  BY Zenon, <1>1, <1>2, <1>3, <1>4, PipeFrame

\* Two processes that hold the same lock are the same.
LEMMA SameHolder ==
  ASSUME LInv, NEW p \in Procs, NEW r \in Procs, NEW l \in Locks, l \in HoldsNow(p), l \in HoldsNow(r)
  PROVE  p = r
BY Zenon DEF LInv, LockInv

\* Nobody holds a lock that is free.
LEMMA NoHolder ==
  ASSUME LInv, NEW r \in Procs, NEW l \in Locks, Free(l)
  PROVE  l \notin HoldsNow(r)
BY Zenon, Names DEF LInv, LockInv, Free

\* Who decides to sleep on the pipe holds both locks of it, and who moves bytes the
\* first.
LEMMA PipeHolds ==
  ASSUME LInv, NEW r \in Procs
  PROVE  /\ \/ pc[r] \in {"read_empty", "write_full"}
            \/ pc[r] = "sleep" /\ frame[r].cv \in {empty, full}
            => lock \in HoldsNow(r) /\ lock_close \in HoldsNow(r)
         /\ pc[r] \in {"read_loop", "write_loop"} => lock \in HoldsNow(r)
<1>1. pc[r] \in {"read_empty", "write_full", "read_loop", "write_loop"} => lock \in HoldsNow(r)
  BY ZenonT(60) DEF HoldsNow, Holds, LocksAt
<1>2. pc[r] \in {"read_empty", "write_full"} => lock_close \in HoldsNow(r)
  BY ZenonT(60) DEF HoldsNow, Holds, LocksAt
<1>3. ASSUME pc[r] = "sleep", frame[r].cv \in {empty, full}
      PROVE  lock \in HoldsNow(r) /\ lock_close \in HoldsNow(r)
  <2>1. SleepFrame(r, "sleep", frame[r])
    BY Zenon, <1>3, Here DEF FrameOK, InSleep
  <2>2. frame[r].ret \in {"read_woken", "write_woken"}
    BY Zenon, <1>3, <2>1, CvNames DEF SleepFrame
  <2> QED
    BY ZenonT(60), <1>3, <2>2 DEF HoldsNow, Holds, LocksAt
<1> QED
  BY Zenon, <1>1, <1>2, <1>3

-----------------------------------------------------------------------------
\* A byte is written, or read, under lock.
LEMMA WriteWake ==
  ASSUME LInv, IOInv, PipeWake, KeepsSleepers, nread \in Nat, nwrite \in Nat, NEW p \in Procs,
         pc[p] = "write_loop", pos[p] < arg[p], ~Full, UNCHANGED <<pc, frame, nread, writeopen>>,
         nwrite' = nwrite + 1, pos' = [pos EXCEPT ![p] = @ + 1]
  PROVE  PipeWake'
<1>1. lock \in HoldsNow(p) /\ lock \in Locks
  BY Zenon, PipeHolds, Names
<1>2. ASSUME NEW r \in Procs
      PROVE  /\ pc[r] \notin {"read_empty", "write_full", "read_loop"}
             /\ ~(pc[r] = "sleep" /\ frame[r].cv \in {empty, full})
             /\ pc[r] = "write_loop" => r = p
  BY Zenon, <1>1, PipeHolds, SameHolder
<1>3. PipeDecides'
  BY Zenon, <1>2 DEF PipeDecides
<1>4. pos[p] \in Nat /\ pos'[p] = pos[p] + 1
  BY Zenon, IOTypes
<1>5. ASSUME NEW r \in Procs, Sleeps(r, empty)' PROVE Waking(empty)' \/ Wrote(p)'
  <2>1. Sleeps(r, empty)
    BY Zenon, <1>2, <1>5, Names DEF KeepsSleepers
  <2>2. (Empty /\ writeopen) \/ Waking(empty) \/ \E s \in Procs : Wrote(s)
    BY Zenon, <2>1 DEF PipeWake, PipeSleeps
  <2>3. CASE Waking(empty)
    BY Zenon, <1>5, <2>3, Names DEF KeepsSleepers
  <2>4. CASE Empty
    BY <1>4, <2>4 DEF Empty, Wrote
  <2>5. CASE \E s \in Procs : Wrote(s)
    <3>1. Wrote(p)
      BY Zenon, <1>2, <2>5 DEF Wrote
    <3> QED
      BY <1>4, <3>1 DEF Wrote
  <2> QED
    BY Zenon, <2>2, <2>3, <2>4, <2>5
<1>6. ASSUME NEW r \in Procs, Sleeps(r, full)' PROVE Waking(full)'
  <2>1. Sleeps(r, full)
    BY Zenon, <1>2, <1>6, Names DEF KeepsSleepers
  <2>2. Full \/ Waking(full) \/ \E s \in Procs : HasRead(s)
    BY Zenon, <2>1 DEF PipeWake, PipeSleeps
  <2>3. Waking(full)
    BY Zenon, <1>2, <2>2 DEF HasRead
  <2> QED
    BY Zenon, <1>6, <2>3, Names DEF KeepsSleepers
<1>7. PipeSleeps'
  BY Zenon, <1>5, <1>6 DEF PipeSleeps
<1> QED
  BY Zenon, <1>3, <1>7 DEF PipeWake

\* A reader that has made room wakes the writers.
LEMMA ReadWake ==
  ASSUME LInv, IOInv, PipeWake, KeepsSleepers, NEW p \in Procs,
         pc[p] = "read_loop", ~Empty, UNCHANGED <<pc, frame, nwrite, writeopen>>,
         pos' = [pos EXCEPT ![p] = @ + 1]
  PROVE  PipeWake'
<1>1. lock \in HoldsNow(p) /\ lock \in Locks
  BY Zenon, PipeHolds, Names
<1>2. ASSUME NEW r \in Procs
      PROVE  /\ pc[r] \notin {"read_empty", "write_full", "write_loop"}
             /\ ~(pc[r] = "sleep" /\ frame[r].cv \in {empty, full})
  BY Zenon, <1>1, PipeHolds, SameHolder
<1>3. PipeDecides'
  BY Zenon, <1>2 DEF PipeDecides
<1>4. pos[p] \in Nat /\ pos'[p] = pos[p] + 1
  BY Zenon, IOTypes
<1>5. ASSUME NEW r \in Procs, Sleeps(r, empty)' PROVE Waking(empty)'
  <2>1. Sleeps(r, empty)
    BY Zenon, <1>2, <1>5, Names DEF KeepsSleepers
  <2>2. (Empty /\ writeopen) \/ Waking(empty) \/ \E s \in Procs : Wrote(s)
    BY Zenon, <2>1 DEF PipeWake, PipeSleeps
  <2>3. Waking(empty)
    BY Zenon, <1>2, <2>2 DEF Wrote
  <2> QED
    BY Zenon, <1>5, <2>3, Names DEF KeepsSleepers
<1>6. HasRead(p)'
  BY <1>4 DEF HasRead
<1>7. PipeSleeps'
  BY Zenon, <1>5, <1>6 DEF PipeSleeps
<1> QED
  BY Zenon, <1>3, <1>7 DEF PipeWake

\* An end is closed under lock_close, and wake_all is called for the readers.
LEMMA CloseWake ==
  ASSUME LInv, PipeWake, KeepsSleepers, NEW p \in Procs, Moves(p),
         pc[p] \in {"close_r", "close_w"}, Free(lock_close), pc'[p] = "wake", frame'[p].cv = empty,
         UNCHANGED <<nread, nwrite, pos>>
  PROVE  PipeWake'
<1>1. ASSUME NEW r \in Procs
      PROVE  pc[r] \notin {"read_empty", "write_full"} /\ ~(pc[r] = "sleep" /\ frame[r].cv \in {empty, full})
  BY Zenon, PipeHolds, NoHolder, Names
<1>2. ASSUME NEW r \in Procs
      PROVE  pc'[r] \notin {"read_empty", "write_full"} /\ ~(pc'[r] = "sleep" /\ frame'[r].cv \in {empty, full})
  <2>1. CASE r = p
    BY Zenon, <2>1
  <2>2. CASE r # p
    BY Zenon, <1>1, <2>2 DEF Moves
  <2> QED
    BY Zenon, <2>1, <2>2
<1>3. PipeDecides'
  BY Zenon, <1>2 DEF PipeDecides
<1>4. Waking(empty)'
  BY Zenon DEF Waking
<1>5. Full' <=> Full
  BY Zenon DEF Full
<1>6. ASSUME NEW r \in Procs, HasRead(r) PROVE HasRead(r)'
  BY Zenon, <1>6 DEF HasRead, Moves
<1>7. ASSUME NEW r \in Procs, Sleeps(r, full)' PROVE Full' \/ Waking(full)' \/ \E s \in Procs : HasRead(s)'
  <2>1. Sleeps(r, full)
    BY Zenon, <1>1, <1>7, Names DEF KeepsSleepers
  <2>2. Full \/ Waking(full) \/ \E s \in Procs : HasRead(s)
    BY Zenon, <2>1 DEF PipeWake, PipeSleeps
  <2>3. Waking(full) => Waking(full)'
    BY Zenon, <1>7, Names DEF KeepsSleepers
  <2> QED
    BY Zenon, <1>5, <1>6, <2>2, <2>3
<1>8. PipeSleeps'
  BY Zenon, <1>4, <1>7 DEF PipeSleeps
<1> QED
  BY Zenon, <1>3, <1>8 DEF PipeWake

\* Steps of read and write that move no byte: where p goes.
LEMMA QuietIO ==
  ASSUME PipeWake, KeepsSleepers, NEW p \in Procs, Moves(p), UNCHANGED <<nread, nwrite, writeopen>>,
         \A r \in Procs \ {p} : pos'[r] = pos[r], pc'[p] \notin {"read_empty", "write_full", "sleep"},
         Wrote(p) => Waking(empty)', HasRead(p) => Waking(full)'
  PROVE  PipeWake'
BY Zenon, PipeFrame

-----------------------------------------------------------------------------
\* What a step does to the invariants of the pipe.
IPStep == IOInv' /\ (SmallWrites /\ PipeWake => PipeWake')

\* A step that ends a call, when the caller owes nobody a wake-up.
LEMMA IOReturns ==
  ASSUME LInv, IOInv, KeepsSleepers, NEW p \in Procs, Moves(p), NEW rel, Return(p, rel),
         UNCHANGED <<nread, nwrite, writeopen, fds>>, SmallWrites => ~Wrote(p), ~HasRead(p)
  PROVE  IPStep
<1>1. /\ arg' = [arg EXCEPT ![p] = 0] /\ pos' = [pos EXCEPT ![p] = 0]
      /\ pc' = [pc EXCEPT ![p] = "user"]
  BY Zenon DEF Return, Goto
<1>2. pc'[p] = "user" /\ arg'[p] = 0 /\ pos'[p] = 0 /\ DOMAIN arg' = Procs /\ DOMAIN pos' = Procs
  BY Zenon, <1>1, IOTypes, Here
<1>3. \A r \in Procs \ {p} : arg'[r] = arg[r] /\ pos'[r] = pos[r]
  BY <1>1
<1>4. arg'[p] \in Sizes \cup {0} /\ pos'[p] \in 0 .. arg'[p]
  BY <1>2
<1>5. IOInv'
  BY Zenon, <1>2, <1>3, <1>4, IOFrame DEF IOInv
<1>6. ASSUME SmallWrites, PipeWake PROVE PipeWake'
  BY Zenon, <1>6, <1>2, <1>3, QuietIO
<1> QED
  BY Zenon, <1>5, <1>6 DEF IPStep

\* The steps of write keep IOInv and PipeWake.
LEMMA WriteIP ==
  ASSUME LInv, IOInv, nread \in Nat, nwrite \in Nat,
         NEW p \in Procs, write_lock(p) \/ write_loop(p) \/ write_full(p)
  PROVE  IPStep
<1>1. Apart(p) /\ KeepsSleepers /\ Moves(p)
  BY Zenon, PipeApart, ApartSleepers DEF PipeStep, Apart
<1>2. /\ arg[p] \in Nat /\ pos[p] \in Nat /\ pos[p] <= arg[p] /\ arg[p] \in Sizes \cup {0}
      /\ DOMAIN arg = Procs /\ DOMAIN pos = Procs /\ DOMAIN fds = Procs
      /\ \A r \in Procs : fds[r] \subseteq {"r", "w"}
  BY Zenon, IOTypes DEF IOInv
<1>3. DOMAIN pc = Procs /\ DOMAIN frame = Procs
  BY Zenon, Here
<1>4. CASE write_lock(p)
  <2>1. pc[p] = "write_lock" /\ pc'[p] = "write_loop" /\ UNCHANGED <<nread, nwrite, writeopen, fds, arg, pos>>
    BY Zenon, <1>3, <1>4 DEF write_lock, Goto, pipe_vars
  <2>2. InIO(p)' /\ ~Wrote(p) /\ ~HasRead(p)
    BY Zenon, <2>1 DEF InIO, IOLabel, Wrote, HasRead
  <2>3. IOInv'
    BY Zenon, <1>1, <1>2, <2>1, <2>2, IOSame
  <2>4. ASSUME SmallWrites, PipeWake PROVE PipeWake'
    BY Zenon, <2>4, <1>1, <2>1, <2>2, QuietIO
  <2> QED
    BY Zenon, <2>3, <2>4 DEF IPStep
<1>5. CASE write_full(p)
  <2>1. pc[p] = "write_full" /\ (PipeWake => Full) /\ ~Wrote(p) /\ ~HasRead(p)
    BY Zenon, <1>5 DEF write_full, PipeWake, PipeDecides, Wrote, HasRead
  <2>2. UNCHANGED <<nread, nwrite, writeopen, fds>>
    BY Zenon, <1>5 DEF write_full, ring
  <2>3. CASE readopen
    <3>1. Sleep(p, full, <<lock, lock_close>>, "write_woken", "io_killed") /\ UNCHANGED <<arg, pos>>
      BY Zenon, <1>5, <2>3 DEF write_full
    <3>2. pc'[p] = "sleep" /\ frame'[p].cv = full /\ frame'[p].ret = "write_woken"
      <4>1. FrameOK(p, pc[p], frame[p])
        BY Zenon, Here
      <4> QED
        BY Zenon, <1>3, <3>1, <4>1 DEF Sleep, Goto, FrameOK
    <3>3. InIO(p)'
      BY Zenon, <3>2 DEF InIO, IOLabel, InSleep
    <3>4. IOInv'
      BY ZenonT(60), <1>1, <1>2, <2>2, <3>1, <3>3, IOSame
    <3>5. ASSUME SmallWrites, PipeWake PROVE PipeWake'
      BY ZenonT(60), <3>5, <1>1, <2>1, <2>2, <3>1, <3>2, CvNames, PipeFrame
    <3> QED
      BY Zenon, <3>4, <3>5 DEF IPStep
  <2>4. CASE ~readopen
    BY ZenonT(60), <1>1, <1>5, <2>1, <2>2, <2>4, IOReturns DEF write_full
  <2> QED
    BY Zenon, <2>3, <2>4
<1>6. CASE write_loop(p)
  <2>1. pc[p] = "write_loop" /\ UNCHANGED <<nread, writeopen, fds>> /\ ~HasRead(p)
    BY Zenon, <1>6 DEF write_loop, HasRead
  <2>2. CASE /\ pos[p] < arg[p] /\ ~Full /\ nwrite' = nwrite + 1
             /\ pos' = [pos EXCEPT ![p] = @ + 1] /\ UNCHANGED <<pc, frame, arg>>
    <3>1. ASSUME SmallWrites, PipeWake PROVE PipeWake'
      BY ZenonT(60), <3>1, <1>1, <2>1, <2>2, WriteWake
    <3>2. /\ InIO(p)' /\ pos'[p] \in 0 .. arg'[p] /\ DOMAIN pos' = Procs
          /\ \A r \in Procs \ {p} : arg'[r] = arg[r] /\ pos'[r] = pos[r]
      BY <1>2, <2>1, <2>2 DEF InIO, IOLabel
    <3>3. IOInv'
      BY ZenonT(60), <1>1, <1>2, <2>1, <2>2, <3>2, IOFrame
    <3> QED
      BY Zenon, <3>1, <3>3 DEF IPStep
  <2>3. ASSUME SmallWrites, pos[p] < arg[p], Full PROVE ~Wrote(p)
    <3>1. arg[p] <= PIPESIZE /\ PIPESIZE \in Nat
      BY <1>2, <2>3, ShellAssumption DEF SmallWrites
    <3> QED
      BY <1>2, <2>3, <3>1 DEF Full, Wrote
  <2>4. CASE pos[p] < arg[p] /\ Full /\ Return(p, {lock}) /\ UNCHANGED nwrite
    BY ZenonT(60), <1>1, <2>1, <2>3, <2>4, IOReturns
  <2>5. CASE pos[p] < arg[p] /\ Full /\ Goto(p, "write_full") /\ UNCHANGED <<arg, pos, nwrite>>
    <3>1. pc'[p] = "write_full"
      BY Zenon, <1>3, <2>5 DEF Goto
    <3>2. InIO(p)'
      BY Zenon, <3>1 DEF InIO, IOLabel
    <3>3. IOInv'
      BY ZenonT(60), <1>1, <1>2, <2>1, <2>5, <3>2, IOSame
    <3>4. ASSUME SmallWrites, PipeWake PROVE PipeWake'
      BY ZenonT(60), <3>4, <1>1, <2>1, <2>3, <2>5, <3>1, PipeFrame
    <3> QED
      BY Zenon, <3>3, <3>4 DEF IPStep
  <2>6. CASE WakeAll(p, empty, None, "io_done") /\ UNCHANGED <<nwrite, arg, pos>>
    <3>1. PICK f : /\ To(p, "wake", f) /\ f.cv = empty /\ f.ret = "io_done"
      BY <2>6, WakeCall
    <3>2. pc'[p] = "wake" /\ frame'[p].cv = empty /\ frame'[p].ret = "io_done"
      BY Zenon, <3>1 DEF To
    <3>3. InIO(p)' /\ Waking(empty)'
      BY Zenon, <3>2 DEF InIO, IOLabel, InWake, Waking
    <3>4. IOInv'
      BY ZenonT(60), <1>1, <1>2, <2>1, <2>6, <3>3, IOSame
    <3>5. ASSUME SmallWrites, PipeWake PROVE PipeWake'
      BY ZenonT(60), <3>5, <1>1, <2>1, <2>6, <3>2, <3>3, QuietIO
    <3> QED
      BY Zenon, <3>4, <3>5 DEF IPStep
  <2> QED
    BY ZenonT(60), <1>6, <2>2, <2>4, <2>5, <2>6 DEF write_loop
<1> QED
  BY Zenon, <1>4, <1>5, <1>6

-----------------------------------------------------------------------------
\* The steps of read keep IOInv and PipeWake.
LEMMA ReadIP ==
  ASSUME LInv, IOInv, NEW p \in Procs, read_loop(p) \/ read_empty(p)
  PROVE  IPStep
<1>1. Apart(p) /\ KeepsSleepers /\ Moves(p)
  BY Zenon, PipeApart, ApartSleepers DEF PipeStep, Apart
<1>2. /\ arg[p] \in Nat /\ pos[p] \in Nat /\ pos[p] <= arg[p] /\ arg[p] \in Sizes \cup {0}
      /\ DOMAIN arg = Procs /\ DOMAIN pos = Procs /\ DOMAIN fds = Procs
      /\ \A r \in Procs : fds[r] \subseteq {"r", "w"}
  BY Zenon, IOTypes DEF IOInv
<1>3. DOMAIN pc = Procs /\ DOMAIN frame = Procs
  BY Zenon, Here
<1>5. CASE read_empty(p)
  <2>1. pc[p] = "read_empty" /\ (PipeWake => Empty) /\ ~Wrote(p) /\ ~HasRead(p)
    BY Zenon, <1>5 DEF read_empty, PipeWake, PipeDecides, Wrote, HasRead
  <2>2. UNCHANGED <<nread, nwrite, writeopen, fds>>
    BY Zenon, <1>5 DEF read_empty, ring
  <2>3. CASE writeopen
    <3>1. Sleep(p, empty, <<lock, lock_close>>, "read_woken", "io_killed") /\ UNCHANGED <<arg, pos>>
      BY Zenon, <1>5, <2>3 DEF read_empty
    <3>2. pc'[p] = "sleep" /\ frame'[p].cv = empty /\ frame'[p].ret = "read_woken"
      <4>1. FrameOK(p, pc[p], frame[p])
        BY Zenon, Here
      <4> QED
        BY Zenon, <1>3, <3>1, <4>1 DEF Sleep, Goto, FrameOK
    <3>3. InIO(p)'
      BY Zenon, <3>2 DEF InIO, IOLabel, InSleep
    <3>4. IOInv'
      BY ZenonT(60), <1>1, <1>2, <2>2, <3>1, <3>3, IOSame
    <3>5. ASSUME SmallWrites, PipeWake PROVE PipeWake'
      BY ZenonT(60), <3>5, <1>1, <2>1, <2>2, <2>3, <3>1, <3>2, CvNames, PipeFrame
    <3> QED
      BY Zenon, <3>4, <3>5 DEF IPStep
  <2>4. CASE ~writeopen
    BY ZenonT(60), <1>1, <1>5, <2>1, <2>2, <2>4, IOReturns DEF read_empty
  <2> QED
    BY Zenon, <2>3, <2>4
<1>6. CASE read_loop(p)
  <2>1. pc[p] = "read_loop" /\ UNCHANGED <<nwrite, writeopen, fds>> /\ ~Wrote(p)
    BY Zenon, <1>6 DEF read_loop, Wrote
  <2>2. CASE /\ pos[p] < arg[p] /\ ~Empty /\ pos' = [pos EXCEPT ![p] = @ + 1] /\ UNCHANGED <<pc, frame, arg>>
    <3>1. ASSUME SmallWrites, PipeWake PROVE PipeWake'
      BY ZenonT(60), <3>1, <1>1, <2>1, <2>2, ReadWake
    <3>2. /\ InIO(p)' /\ pos'[p] \in 0 .. arg'[p] /\ DOMAIN pos' = Procs
          /\ \A r \in Procs \ {p} : arg'[r] = arg[r] /\ pos'[r] = pos[r]
      BY <1>2, <2>1, <2>2 DEF InIO, IOLabel
    <3>3. IOInv'
      BY ZenonT(60), <1>1, <1>2, <2>1, <2>2, <3>2, IOFrame
    <3> QED
      BY Zenon, <3>1, <3>3 DEF IPStep
  <2>3. ASSUME pos[p] = 0 PROVE ~HasRead(p)
    BY <2>3 DEF HasRead
  <2>4. CASE pos[p] = 0 /\ Return(p, {lock}) /\ UNCHANGED nread
    BY ZenonT(60), <1>1, <2>1, <2>3, <2>4, IOReturns
  <2>5. CASE pos[p] = 0 /\ Empty /\ Goto(p, "read_empty") /\ UNCHANGED <<arg, pos, nread>>
    <3>1. pc'[p] = "read_empty"
      BY Zenon, <1>3, <2>5 DEF Goto
    <3>2. InIO(p)'
      BY Zenon, <3>1 DEF InIO, IOLabel
    <3>3. IOInv'
      BY ZenonT(60), <1>1, <1>2, <2>1, <2>5, <3>2, IOSame
    <3>4. ASSUME SmallWrites, PipeWake PROVE PipeWake'
      BY ZenonT(60), <3>4, <1>1, <2>1, <2>3, <2>5, <3>1, PipeFrame
    <3> QED
      BY Zenon, <3>3, <3>4 DEF IPStep
  <2>6. CASE WakeAll(p, full, None, "io_done") /\ UNCHANGED <<nread, arg, pos>>
    <3>1. PICK f : /\ To(p, "wake", f) /\ f.cv = full /\ f.ret = "io_done"
      BY <2>6, WakeCall
    <3>2. pc'[p] = "wake" /\ frame'[p].cv = full /\ frame'[p].ret = "io_done"
      BY Zenon, <3>1 DEF To
    <3>3. InIO(p)' /\ Waking(full)'
      BY Zenon, <3>2 DEF InIO, IOLabel, InWake, Waking
    <3>4. IOInv'
      BY Zenon, <1>1, <1>2, <2>1, <2>6, <3>3, IOSame
    <3>5. ASSUME SmallWrites, PipeWake PROVE PipeWake'
      BY Zenon, <3>5, <1>1, <2>1, <2>6, <3>2, <3>3, QuietIO
    <3> QED
      BY Zenon, <3>4, <3>5 DEF IPStep
  <2> QED
    BY ZenonT(60), <1>6, <2>2, <2>4, <2>5, <2>6 DEF read_loop
<1> QED
  BY Zenon, <1>5, <1>6

\* The ends of read and write, and the close of the pipe, keep IOInv and PipeWake.
LEMMA DoneIP ==
  ASSUME LInv, IOInv, NEW p \in Procs, io_woken(p) \/ io_return(p) \/ pipeclose(p) \/ pipeclosed(p)
  PROVE  IPStep
<1>1. Apart(p) /\ KeepsSleepers /\ Moves(p)
  BY Zenon, PipeApart, ApartSleepers DEF PipeStep, Apart
<1>2. DOMAIN fds = Procs /\ \A r \in Procs : fds[r] \subseteq {"r", "w"}
  BY Zenon DEF IOInv
<1>3. DOMAIN pc = Procs /\ DOMAIN frame = Procs /\ FrameOK(p, pc[p], frame[p])
  BY Zenon, Here
<1>4. CASE io_woken(p)
  <2>1. /\ pc[p] \in {"read_woken", "write_woken"} /\ pc'[p] \in {"read_loop", "write_loop"}
        /\ UNCHANGED <<nread, nwrite, writeopen, fds, arg, pos>>
    BY Zenon, <1>3, <1>4 DEF io_woken, Goto, pipe_vars
  <2>2. InIO(p)' /\ ~Wrote(p) /\ ~HasRead(p)
    BY Zenon, <2>1 DEF InIO, IOLabel, Wrote, HasRead
  <2>3. IOInv'
    BY Zenon, <1>1, <1>2, <2>1, <2>2, IOSame
  <2>4. ASSUME SmallWrites, PipeWake PROVE PipeWake'
    BY ZenonT(60), <2>4, <1>1, <2>1, <2>2, QuietIO
  <2> QED
    BY Zenon, <2>3, <2>4 DEF IPStep
<1>5. CASE io_return(p)
  <2>1. /\ pc[p] \in {"io_done", "io_killed"} /\ UNCHANGED <<nread, nwrite, writeopen, fds>>
        /\ Return(p, IF pc[p] = "io_done" THEN {lock} ELSE {lock, lock_close})
    BY Zenon, <1>5 DEF io_return, ring
  <2>2. ~Wrote(p) /\ ~HasRead(p)
    BY Zenon, <2>1 DEF Wrote, HasRead
  <2> QED
    BY Zenon, <1>1, <2>1, <2>2, IOReturns
<1>6. CASE pipeclose(p)
  <2>1. /\ pc[p] \in {"close_r", "close_w"} /\ Free(lock_close) /\ WakeAll(p, empty, None, "closed")
        /\ UNCHANGED <<nread, nwrite, fds, arg, pos>>
    BY Zenon, <1>6 DEF pipeclose
  <2>2. PICK f : /\ To(p, "wake", f) /\ f.cv = empty /\ f.ret = "closed"
    BY <2>1, WakeCall
  <2>3. pc'[p] = "wake" /\ frame'[p].cv = empty
    BY Zenon, <2>2 DEF To
  <2>4. ASSUME SmallWrites, PipeWake PROVE PipeWake'
    BY Zenon, <2>4, <1>1, <2>1, <2>3, CloseWake
  <2>5. ~InIO(p)
    BY Zenon, <2>1 DEF InIO, IOLabel, InSleep, InWake
  <2>6. IOInv'
    BY Zenon, <1>1, <1>2, <2>1, <2>5, IOSame
  <2> QED
    BY Zenon, <2>4, <2>6 DEF IPStep
<1>7. CASE pipeclosed(p)
  <2>1. /\ pc[p] = "closed" /\ pc'[p] = frame[p].exc /\ UNCHANGED <<nread, nwrite, writeopen, fds, arg, pos>>
    BY Zenon, <1>3, <1>7 DEF pipeclosed, Goto, pipe_vars
  <2>2. pc'[p] \in {"user", "exit"}
    BY Zenon, <1>3, <2>1 DEF FrameOK, InSleep
  <2>3. ~InIO(p) /\ ~Wrote(p) /\ ~HasRead(p)
    BY Zenon, <2>1 DEF InIO, IOLabel, InSleep, InWake, Wrote, HasRead
  <2>4. IOInv'
    BY ZenonT(60), <1>1, <1>2, <2>1, <2>3, IOSame
  <2>5. ASSUME SmallWrites, PipeWake PROVE PipeWake'
    BY ZenonT(60), <2>5, <1>1, <2>1, <2>2, <2>3, QuietIO
  <2> QED
    BY Zenon, <2>4, <2>5 DEF IPStep
<1> QED
  BY Zenon, <1>4, <1>5, <1>6, <1>7

\* The calls of read and write, and steps outside them.
LEMMA CallIP ==
  ASSUME LInv, IOInv, NEW p \in Procs, NEW n \in Sizes, write_call(p, n) \/ read_call(p, n)
  PROVE  IPStep
<1>1. Apart(p) /\ KeepsSleepers /\ Moves(p)
  BY Zenon, CallApart, ApartSleepers DEF Apart
<1>2. DOMAIN pc = Procs
  BY Zenon, Here
<1>3. /\ pc[p] = "user" /\ pc'[p] \in {"write_lock", "read_loop"} /\ arg' = [arg EXCEPT ![p] = n]
      /\ UNCHANGED <<nread, nwrite, writeopen, fds, pos>>
  BY Zenon, <1>2 DEF write_call, read_call, Goto, ring
<1>4. /\ ~InIO(p) /\ ~Wrote(p) /\ ~HasRead(p) /\ InIO(p)'
  BY Zenon, <1>3 DEF InIO, IOLabel, InSleep, InWake, Wrote, HasRead
<1>5. /\ pos[p] = 0 /\ DOMAIN arg = Procs /\ DOMAIN pos = Procs /\ DOMAIN fds = Procs
      /\ \A r \in Procs : fds[r] \subseteq {"r", "w"}
  BY Zenon, <1>4, IOTypes DEF IOInv
<1>6. n \in Nat
  BY Zenon, ShellAssumption
<1>7. /\ arg'[p] = n /\ pos'[p] \in 0 .. arg'[p] /\ DOMAIN arg' = Procs
      /\ \A r \in Procs \ {p} : arg'[r] = arg[r] /\ pos'[r] = pos[r]
  BY <1>3, <1>5, <1>6
<1>8. IOInv'
  BY Zenon, <1>1, <1>3, <1>4, <1>5, <1>7, IOFrame
<1>9. ASSUME SmallWrites, PipeWake PROVE PipeWake'
  BY Zenon, <1>9, <1>1, <1>3, <1>4, <1>7, QuietIO
<1> QED
  BY Zenon, <1>8, <1>9 DEF IPStep

\* Steps outside read and write keep IOInv and PipeWake.
LEMMA OutsideIP ==
  ASSUME LInv, IOInv, NEW m \in Procs, Apart(m), Outside(m), UNCHANGED <<nread, nwrite, writeopen, arg, pos>>,
         DOMAIN fds' = Procs, \A r \in Procs : fds'[r] \subseteq {"r", "w"}
  PROVE  IPStep
<1>0. Moves(m) /\ KeepsSleepers /\ ~InIO(m)
  BY Zenon, ApartSleepers DEF Apart, Outside
<1>1. IOInv'
  BY Zenon, <1>0, IOSame
<1>2. ASSUME SmallWrites, PipeWake PROVE PipeWake'
  BY Zenon, <1>2, <1>0, PipeOutside
<1> QED
  BY Zenon, <1>1, <1>2 DEF IPStep
=============================================================================
