------------------------------ MODULE MCShell -------------------------------
\* Instances of Shell for TLC.
EXTENDS Shell, TLC

MCCvs == {empty, full} \cup {cv(p) : p \in Procs}
MCSpins == {lock, lock_close}

\* The parent writes to a child that reads; either may kill, close or exit.
MCCalls ==
  [q \in Procs |->
    CASE q = bootproc -> {"wait"}
      [] q = worker -> {}
      [] q = first -> {"fork", "write", "close_r", "wait", "kill", "exit"}
      [] OTHER -> {"read", "close_w", "exit"}]
=============================================================================
