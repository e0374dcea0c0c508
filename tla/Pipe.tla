-------------------------------- MODULE Pipe --------------------------------
(***************************************************************************)
(* A pipe (kernel/pipe.cc, struct ordered): a ring of PIPESIZE bytes, two  *)
(* locks and two condition variables.  Readers and writers hold lock while *)
(* they look at the ring, and lock_close too while they decide to sleep;   *)
(* close takes lock_close only.  The write end is closed by whoever gives  *)
(* up the last descriptor of it, the read end later, by the thread that    *)
(* finds its reference count at zero (include/file.hh).                    *)
(***************************************************************************)
EXTENDS Condvar

CONSTANTS PIPESIZE,  \* size of the ring
          MaxBytes,  \* bound on the bytes written
          worker     \* the refcache thread, which closes the read end

lock == <<"pipe", "lock">>
lock_close == <<"pipe", "lock_close">>
empty == <<"cv", "empty">>
full == <<"cv", "full">>

VARIABLES nread, nwrite, data, readopen, writeopen, nonblock,
          fds,      \* the ends that each process has open: "r", "w"
          arg, pos, \* of each process in read or write: n and i
          got       \* the bytes read so far, in order

pipe_vars == <<nread, nwrite, data, readopen, writeopen, nonblock, fds, arg, pos, got>>
ring == <<nread, nwrite, data, readopen, writeopen, nonblock, got>>

PipeInit ==
  /\ nread = 0 /\ nwrite = 0
  /\ data = [j \in 0 .. PIPESIZE - 1 |-> 0]
  /\ readopen = TRUE /\ writeopen = TRUE
  /\ nonblock \in BOOLEAN
  /\ arg = [p \in Procs |-> 0]
  /\ pos = [p \in Procs |-> 0]
  /\ got = <<>>

\* Mutants: one byte more than the ring holds; one byte less of it is used.
Full_overrun == nwrite = nread + PIPESIZE + 1
slot_short(j) == j % (PIPESIZE - 1)

Full == nwrite = nread + PIPESIZE
Empty == nread = nwrite
\* The place of byte number j + 1 in the ring
slot(j) == j % PIPESIZE
\* read or write returns, releasing the locks in rel.
Return(p, rel) ==
  /\ Locking(p, rel, {})
  /\ arg' = [arg EXCEPT ![p] = 0]
  /\ pos' = [pos EXCEPT ![p] = 0]
  /\ Goto(p, "user")

-----------------------------------------------------------------------------
\* ordered::write; the byte written is its number, nwrite + 1.  The test of a
\* non-blocking call reads nread twice around nwrite, which makes it one step.  A
\* call that returns at once changes nothing.
write_call(p, n) ==
  /\ pc[p] = "user" /\ "w" \in fds[p]
  /\ nwrite + n <= MaxBytes
  /\ ~(nonblock /\ Full) /\ readopen
  /\ arg' = [arg EXCEPT ![p] = n]
  /\ Goto(p, "write_lock")
  /\ UNCHANGED <<holder, waiters, oncv, state, killed, frame, panic, ring, fds, pos>>

write_lock(p) ==
  /\ pc[p] = "write_lock"
  /\ Free(lock)
  /\ Locking(p, {}, {lock})
  /\ Goto(p, "write_loop")
  /\ UNCHANGED <<waiters, oncv, state, killed, frame, pipe_vars>>

\* One turn of the loop: a byte, or no room and, unless it returns, lock_close; at
\* the end the readers are woken.
write_loop(p) ==
  /\ pc[p] = "write_loop"
  /\ \/ /\ pos[p] < arg[p] /\ ~Full
        /\ data' = [data EXCEPT ![slot(nwrite)] = nwrite + 1]
        /\ nwrite' = nwrite + 1
        /\ pos' = [pos EXCEPT ![p] = @ + 1]
        /\ UNCHANGED <<holder, panic, pc, frame, arg>>
     \/ /\ pos[p] < arg[p] /\ Full
        /\ IF nonblock \/ killed[p]
           THEN Return(p, {lock})
           ELSE /\ Free(lock_close)
                /\ Locking(p, {}, {lock_close})
                /\ Goto(p, "write_full")
                /\ UNCHANGED <<arg, pos>>
        /\ UNCHANGED <<data, nwrite, frame>>
     \/ /\ pos[p] = arg[p]
        /\ WakeAll(p, empty, None, "io_done")
        /\ UNCHANGED <<holder, panic, data, nwrite, arg, pos>>
  /\ UNCHANGED <<waiters, oncv, state, killed, nread, readopen, writeopen, nonblock, fds, got>>

write_full(p) ==
  /\ pc[p] = "write_full"
  /\ IF readopen
     THEN /\ Sleep(p, full, <<lock, lock_close>>, "write_woken", "io_killed")
          /\ UNCHANGED <<holder, panic, arg, pos>>
     ELSE Return(p, {lock, lock_close}) /\ UNCHANGED frame
  /\ UNCHANGED <<waiters, oncv, state, killed, ring, fds>>

-----------------------------------------------------------------------------
\* ordered::read; a call that waits for the lock is one that is not made yet.  The
\* test of a non-blocking call comes with the lock here; in the code the last byte
\* may go in between, and the call then leaves the loop with -1 and changes nothing.
read_call(p, n) ==
  /\ pc[p] = "user" /\ "r" \in fds[p]
  /\ ~(nonblock /\ Empty)
  /\ Free(lock)
  /\ Locking(p, {}, {lock})
  /\ arg' = [arg EXCEPT ![p] = n]
  /\ Goto(p, "read_loop")
  /\ UNCHANGED <<waiters, oncv, state, killed, frame, ring, fds, pos>>

\* Nothing to read yet; a byte; or the end of the read, with a byte at least.
read_loop(p) ==
  /\ pc[p] = "read_loop"
  /\ \/ /\ pos[p] = 0 /\ Empty
        /\ IF nonblock \/ killed[p]
           THEN Return(p, {lock})
           ELSE /\ Free(lock_close)
                /\ Locking(p, {}, {lock_close})
                /\ Goto(p, "read_empty")
                /\ UNCHANGED <<arg, pos>>
        /\ UNCHANGED <<nread, got, frame>>
     \/ /\ pos[p] < arg[p] /\ ~Empty
        /\ got' = Append(got, data[slot(nread)])
        /\ nread' = nread + 1
        /\ pos' = [pos EXCEPT ![p] = @ + 1]
        /\ UNCHANGED <<holder, panic, pc, frame, arg>>
     \/ /\ pos[p] > 0 /\ (pos[p] = arg[p] \/ Empty)
        /\ WakeAll(p, full, None, "io_done")
        /\ UNCHANGED <<holder, panic, nread, got, arg, pos>>
  /\ UNCHANGED <<waiters, oncv, state, killed, nwrite, data, readopen, writeopen, nonblock, fds>>

\* Mutant: a read at the end of the file tries again.
read_empty_retry(p) ==
  /\ pc[p] = "read_empty"
  /\ IF writeopen
     THEN /\ Sleep(p, empty, <<lock, lock_close>>, "read_woken", "io_killed")
          /\ UNCHANGED <<holder, panic>>
     ELSE Locking(p, {lock_close}, {}) /\ Goto(p, "read_loop") /\ UNCHANGED frame
  /\ UNCHANGED <<waiters, oncv, state, killed, pipe_vars>>

read_empty(p) ==
  /\ pc[p] = "read_empty"
  /\ IF writeopen
     THEN /\ Sleep(p, empty, <<lock, lock_close>>, "read_woken", "io_killed")
          /\ UNCHANGED <<holder, panic, arg, pos>>
     ELSE Return(p, {lock, lock_close}) /\ UNCHANGED frame
  /\ UNCHANGED <<waiters, oncv, state, killed, ring, fds>>

\* Back from sleep, lclose is released and the loop repeated; after an exception and
\* at the end, the scoped locks are released.
io_woken(p) ==
  /\ pc[p] \in {"read_woken", "write_woken"}
  /\ Locking(p, {lock_close}, {})
  /\ Goto(p, IF pc[p] = "read_woken" THEN "read_loop" ELSE "write_loop")
  /\ UNCHANGED <<waiters, oncv, state, killed, frame, pipe_vars>>

\* Mutants: lock_close released without being held; kept after an exception.
io_return_both(p) ==
  /\ pc[p] \in {"io_done", "io_killed"}
  /\ Return(p, {lock, lock_close})
  /\ UNCHANGED <<waiters, oncv, state, killed, frame, ring, fds>>
io_return_leak(p) ==
  /\ pc[p] \in {"io_done", "io_killed"}
  /\ Return(p, {lock})
  /\ UNCHANGED <<waiters, oncv, state, killed, frame, ring, fds>>

io_return(p) ==
  /\ pc[p] \in {"io_done", "io_killed"}
  /\ Return(p, IF pc[p] = "io_done" THEN {lock} ELSE {lock, lock_close})
  /\ UNCHANGED <<waiters, oncv, state, killed, frame, ring, fds>>

-----------------------------------------------------------------------------
\* Process p closes its descriptors of the given ends.  Whoever closes the last one
\* of the write end calls ordered::close(1), then goes on at label ret.
close_fds(p, ends, ret) ==
  /\ fds' = [fds EXCEPT ![p] = @ \ ends]
  /\ IF "w" \in ends \cap fds[p] /\ \A q \in Procs \ {p} : "w" \notin fds[q]
     THEN frame' = [frame EXCEPT ![p].exc = ret] /\ Goto(p, "close_w")
     ELSE Goto(p, ret) /\ UNCHANGED frame
  /\ UNCHANGED <<holder, waiters, oncv, state, killed, panic, ring, arg, pos>>

\* The worker finds that nobody has the read end open any more.
reader_onzero(p) ==
  /\ p = worker /\ pc[p] = "user" /\ readopen
  /\ \A q \in Procs : "r" \notin fds[q]
  /\ Goto(p, "close_r")
  /\ UNCHANGED <<holder, waiters, oncv, state, killed, frame, panic, pipe_vars>>

\* Mutant: close wakes the writers and not the readers.
pipeclose_full(p) ==
  /\ pc[p] \in {"close_r", "close_w"}
  /\ Free(lock_close)
  /\ Locking(p, {}, {lock_close})
  /\ IF pc[p] = "close_w" THEN writeopen' = FALSE /\ UNCHANGED readopen
                          ELSE readopen' = FALSE /\ UNCHANGED writeopen
  /\ WakeAll(p, full, None, "closed")
  /\ UNCHANGED <<waiters, oncv, state, killed, nread, nwrite, data, nonblock, fds, arg, pos, got>>

\* ordered::close, for either end.  The deletion of the pipe after the second
\* close, when no descriptor leads to it any more, is left out.
pipeclose(p) ==
  /\ pc[p] \in {"close_r", "close_w"}
  /\ Free(lock_close)
  /\ Locking(p, {}, {lock_close})
  /\ IF pc[p] = "close_w" THEN writeopen' = FALSE /\ UNCHANGED readopen
                          ELSE readopen' = FALSE /\ UNCHANGED writeopen
  /\ WakeAll(p, empty, None, "closed")
  /\ UNCHANGED <<waiters, oncv, state, killed, nread, nwrite, data, nonblock, fds, arg, pos, got>>

pipeclosed(p) ==
  /\ pc[p] = "closed"
  /\ Locking(p, {lock_close}, {})
  /\ frame' = [frame EXCEPT ![p] = NoFrame]
  /\ Goto(p, frame[p].exc)
  /\ UNCHANGED <<waiters, oncv, state, killed, pipe_vars>>

PipeStep(p) ==
  \/ write_lock(p) \/ write_loop(p) \/ write_full(p)
  \/ read_loop(p) \/ read_empty(p) \/ io_woken(p) \/ io_return(p)
  \/ pipeclose(p) \/ pipeclosed(p)
=============================================================================
