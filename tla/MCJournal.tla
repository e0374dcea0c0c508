----------------------------- MODULE MCJournal -----------------------------
\* Instances of Journal for TLC.
EXTENDS Journal

\* fsync and sync on every core
AllCalls == Cpus \X {"fsync", "sync"}

\* fsync on every core
FsyncCalls == Cpus \X {"fsync"}

\* fsync on core 0, sync on core 1
MixedCalls == {<<0, "fsync">>, <<1, "sync">>}

Symmetry == Permutations(Threads)
=============================================================================
