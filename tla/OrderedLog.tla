----------------------------- MODULE OrderedLog -----------------------------
(***************************************************************************)
(* What the operation log of ScaleFS promises (include/oplog.hh,           *)
(* mfs_logged_object).  A system call appends its operations to some logs  *)
(* at one instant, its time stamp.  Synchronizing a log up to a time moves *)
(* exactly the operations up to that time into the operation vector, in    *)
(* the order of their time stamps.                                         *)
(***************************************************************************)
EXTENDS Naturals, Sequences, SequencesExt

CONSTANTS Logs,     \* the logged objects
          MaxAdds   \* most operations one call appends

VARIABLES now,      \* the time stamp counter
          due,      \* of each log, the operations performed but not yet in its vector
          vec,      \* of each log, operation_vec with all operations it ever held
          upto      \* of each log, the time it is synchronized up to

vars == <<now, due, vec, upto>>

Init ==
  /\ now = 0
  /\ due = [l \in Logs |-> {}]
  /\ vec = [l \in Logs |-> <<>>]
  /\ upto = [l \in Logs |-> 0]

Later == now' \in Nat /\ now' > now

Tick == Later /\ UNCHANGED <<due, vec, upto>>

\* One call appends its k-th operation to the log adds[k].
Perform(adds) ==
  /\ Later
  /\ due' = [l \in Logs |->
               due[l] \cup {[tsc |-> now', k |-> k] : k \in {j \in DOMAIN adds : adds[j] = l}}]
  /\ UNCHANGED <<vec, upto>>

\* The orders in which a set of operations may be applied.
Orders(S) == {s \in SetToSeqs(S) : \A i, j \in DOMAIN s : i < j => s[i].tsc <= s[j].tsc}

Synchronize(l, max) ==
  LET ready == {o \in due[l] : o.tsc <= max} IN
  /\ max > upto[l]
  /\ upto' = [upto EXCEPT ![l] = max]
  /\ due' = [due EXCEPT ![l] = @ \ ready]
  /\ \E s \in Orders(ready) : vec' = [vec EXCEPT ![l] = @ \o s]
  /\ UNCHANGED now

Next ==
  \/ Tick
  \/ \E adds \in BoundedSeq(Logs, MaxAdds) : Perform(adds)
  \/ \E l \in Logs, max \in 0 .. now : Synchronize(l, max)

Spec == Init /\ [][Next]_vars

-----------------------------------------------------------------------------
\* Once a log is synchronized up to a time, no operation that took effect by that time
\* is still on its way to it.
Complete == \A l \in Logs : \A o \in due[l] : o.tsc > upto[l]

\* The operations of a log are applied in the order of their time stamps, across all
\* synchronizations (the assertion of add_op).
Sorted == \A l \in Logs : \A i, j \in DOMAIN vec[l] : i < j => vec[l][i].tsc <= vec[l][j].tsc
=============================================================================
