------------------------------ MODULE MCOplog -------------------------------
\* Instances of Oplog for TLC.
EXTENDS Oplog, TLC

CONSTANTS a, b, t1, t2

\* Both logs share the only way.
OneWay == [l \in Logs |-> 1]

Mnum == [l \in Logs |-> IF l = a THEN 1 ELSE 2]

\* Both threads use core 0 for calls that read the clock under the lock; one of them
\* creates and renames on core 1.
SharedCore == [t \in Threads |->
  IF t = t1 THEN {Link(a, 0)}
            ELSE {Unlink(b, 0), Create(b, a, Mnum, 1), Rename(b, a, Mnum, 1)}]
=============================================================================
