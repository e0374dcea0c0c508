-------------------------- MODULE OrderedLogProofs --------------------------
(***************************************************************************)
(* Complete and Sorted hold in every state of the ordered log, for any     *)
(* number of logs and operations.                                          *)
(***************************************************************************)
EXTENDS OrderedLog, FiniteSetTheorems, TLAPS

Op == [tsc : Nat, k : Nat]

Types ==
  /\ now \in Nat
  /\ due \in [Logs -> SUBSET Op]
  /\ vec \in [Logs -> Seq(Op)]
  /\ upto \in [Logs -> Nat]

\* What is due lies between the time synchronized and now, and came from a call.
DueInv ==
  \A l \in Logs : \A o \in due[l] : upto[l] < o.tsc /\ o.tsc <= now /\ o.k \in 1 .. MaxAdds

\* What has been applied lies before the time synchronized.
VecInv ==
  \A l \in Logs : /\ upto[l] <= now
                  /\ \A i \in DOMAIN vec[l] : vec[l][i].tsc <= upto[l]

LInv == Types /\ DueInv /\ VecInv /\ Sorted

-----------------------------------------------------------------------------
\* Only finitely many operations can be due.
LEMMA DueFinite ==
  ASSUME LInv, MaxAdds \in Nat, NEW l \in Logs
  PROVE  IsFiniteSet(due[l])
<1> DEFINE P == (0 .. now) \X (1 .. MaxAdds)
           R == [tsc : 0 .. now, k : 1 .. MaxAdds]
           f == [p \in P |-> [tsc |-> p[1], k |-> p[2]]]
<1>1. now \in Nat BY DEF LInv, Types
<1>2. IsFiniteSet(0 .. now) /\ IsFiniteSet(1 .. MaxAdds)
  BY <1>1, FS_Interval
<1>3. IsFiniteSet(P)
  BY <1>2, FS_Product
<1>4. f \in Surjection(P, R)
  <2>1. f \in [P -> R] OBVIOUS
  <2>2. ASSUME NEW r \in R PROVE \E p \in P : f[p] = r
    <3>1. <<r.tsc, r.k>> \in P OBVIOUS
    <3>2. f[<<r.tsc, r.k>>] = r BY <3>1
    <3> QED BY <3>1, <3>2
  <2> QED BY <2>1, <2>2 DEF Surjection
<1>5. IsFiniteSet(R)
  BY <1>3, <1>4, FS_Surjection
<1>6. due[l] \subseteq R
  <2> SUFFICES ASSUME NEW o \in due[l] PROVE o \in R OBVIOUS
  <2>1. o \in Op /\ o.tsc <= now /\ o.k \in 1 .. MaxAdds
    BY DEF LInv, Types, DueInv
  <2> QED BY <2>1, <1>1 DEF Op
<1> QED BY <1>5, <1>6, FS_Subset

\* An order in which finitely many operations may be applied is a sequence of them,
\* ordered by their time stamps.
LEMMA OrdersSeq ==
  ASSUME NEW S \in SUBSET Op, IsFiniteSet(S), NEW s \in Orders(S)
  PROVE  /\ s \in Seq(Op)
         /\ \A i \in DOMAIN s : s[i] \in S
         /\ \A i, j \in DOMAIN s : i < j => s[i].tsc <= s[j].tsc
<1>1. Cardinality(S) \in Nat BY FS_CardinalityType
<1>2. s \in [1 .. Cardinality(S) -> S] BY DEF Orders, SetToSeqs
<1>3. \A i, j \in DOMAIN s : i < j => s[i].tsc <= s[j].tsc BY DEF Orders
<1>4. s \in Seq(S) BY <1>1, <1>2
<1> QED BY <1>2, <1>3, <1>4

-----------------------------------------------------------------------------
\* Time passes.
LEMMA TickStep == LInv /\ Tick => LInv'
<1> SUFFICES ASSUME LInv, Tick PROVE LInv' OBVIOUS
<1> USE DEF Tick, Later
<1>1. Types' BY DEF LInv, Types
<1>2. DueInv'
  <2> SUFFICES ASSUME NEW l \in Logs, NEW o \in due[l]
               PROVE  upto[l] < o.tsc /\ o.tsc <= now' /\ o.k \in 1 .. MaxAdds
    BY DEF DueInv
  <2>1. o.tsc \in Nat BY DEF LInv, Types, Op
  <2> QED BY <2>1 DEF LInv, Types, DueInv
<1>3. VecInv'
  BY DEF LInv, Types, VecInv
<1>4. Sorted' BY DEF LInv, Sorted
<1> QED BY <1>1, <1>2, <1>3, <1>4 DEF LInv

\* A call's operations are later than any time synchronized.
LEMMA PerformStep ==
  ASSUME MaxAdds \in Nat, LInv, NEW adds \in BoundedSeq(Logs, MaxAdds), Perform(adds)
  PROVE  LInv'
<1> DEFINE new(l) == {[tsc |-> now', k |-> k] : k \in {j \in DOMAIN adds : adds[j] = l}}
<1>1. now \in Nat /\ now' \in Nat /\ now < now' BY DEF Perform, Later, LInv, Types
<1>2. DOMAIN adds \subseteq 1 .. MaxAdds BY DEF BoundedSeq, SeqOf
<1>3. \A l \in Logs : due'[l] = due[l] \cup new(l) BY DEF Perform
<1>4. ASSUME NEW l \in Logs, NEW o \in new(l)
      PROVE  o \in Op /\ o.tsc = now' /\ o.k \in 1 .. MaxAdds
  BY <1>1, <1>2 DEF Op
<1>5. Types'
  <2>1. due' \in [Logs -> SUBSET Op]
    <3>1. due' = [l \in Logs |-> due[l] \cup new(l)] BY DEF Perform
    <3>2. ASSUME NEW l \in Logs PROVE due[l] \cup new(l) \in SUBSET Op
      BY <1>4 DEF LInv, Types
    <3> HIDE DEF new
    <3> QED BY <3>1, <3>2
  <2> QED BY <1>1, <2>1 DEF LInv, Types, Perform
<1> HIDE DEF new
<1>6. DueInv'
  <2> SUFFICES ASSUME NEW l \in Logs, NEW o \in due'[l]
               PROVE  upto[l] < o.tsc /\ o.tsc <= now' /\ o.k \in 1 .. MaxAdds
    BY DEF DueInv, Perform
  <2>1. CASE o \in due[l]
    <3>1. o.tsc \in Nat BY <2>1 DEF LInv, Types, Op
    <3> QED BY <1>1, <2>1, <3>1 DEF LInv, DueInv
  <2>2. CASE o \in new(l)
    <3>1. upto[l] \in Nat /\ upto[l] <= now BY DEF LInv, Types, VecInv
    <3> QED BY <1>1, <1>4, <2>2, <3>1
  <2> QED BY <1>3, <2>1, <2>2
<1>7. VecInv' BY <1>1 DEF LInv, Types, VecInv, Perform
<1>8. Sorted' BY DEF LInv, Sorted, Perform
<1> QED BY <1>5, <1>6, <1>7, <1>8 DEF LInv

\* Synchronizing takes everything up to its time, and all of it is later than what was
\* applied before.
LEMMA SynchronizeStep ==
  ASSUME MaxAdds \in Nat, LInv, NEW l \in Logs, NEW max \in 0 .. now, Synchronize(l, max)
  PROVE  LInv'
<1> DEFINE ready == {o \in due[l] : o.tsc <= max}
<1>1. PICK s \in Orders(ready) : vec' = [vec EXCEPT ![l] = @ \o s]
  BY DEF Synchronize
<1>2. /\ upto' = [upto EXCEPT ![l] = max] /\ due' = [due EXCEPT ![l] = @ \ ready]
      /\ max > upto[l] /\ UNCHANGED now
  BY DEF Synchronize
<1>3. ready \in SUBSET Op BY DEF LInv, Types
<1>4. IsFiniteSet(ready) BY DueFinite, FS_Subset
<1>5. /\ s \in Seq(Op)
      /\ \A i \in DOMAIN s : s[i] \in ready
      /\ \A i, j \in DOMAIN s : i < j => s[i].tsc <= s[j].tsc
  <2> HIDE DEF ready
  <2> QED BY <1>3, <1>4, OrdersSeq
<1>6. \A i \in DOMAIN s : s[i].tsc \in Nat /\ upto[l] < s[i].tsc /\ s[i].tsc <= max
  BY <1>3, <1>5 DEF LInv, DueInv, Op
<1>7. /\ now \in Nat /\ max \in Nat /\ upto[l] \in Nat /\ vec[l] \in Seq(Op) /\ max <= now
      /\ \A i \in DOMAIN vec[l] : vec[l][i].tsc \in Nat /\ vec[l][i].tsc <= upto[l]
  <2>1. now \in Nat /\ upto[l] \in Nat /\ vec[l] \in Seq(Op) BY DEF LInv, Types
  <2>2. max \in Nat /\ max <= now BY <2>1
  <2>3. ASSUME NEW i \in DOMAIN vec[l] PROVE vec[l][i].tsc \in Nat
    <3>1. vec[l][i] \in Op BY <2>1
    <3> QED BY <3>1 DEF Op
  <2>4. \A i \in DOMAIN vec[l] : vec[l][i].tsc <= upto[l] BY DEF LInv, VecInv
  <2> QED BY <2>1, <2>2, <2>3, <2>4
<1>8. vec'[l] = vec[l] \o s /\ \A m \in Logs \ {l} : vec'[m] = vec[m]
  BY <1>1 DEF LInv, Types
<1>9. upto'[l] = max /\ \A m \in Logs \ {l} : upto'[m] = upto[m]
  BY <1>2 DEF LInv, Types
<1>10. Types'
  <2>1. vec' \in [Logs -> Seq(Op)] BY <1>1, <1>5, <1>7 DEF LInv, Types
  <2>2. due' \in [Logs -> SUBSET Op] BY <1>2 DEF LInv, Types
  <2> QED BY <1>2, <1>7, <2>1, <2>2 DEF LInv, Types
<1>11. DueInv'
  <2> SUFFICES ASSUME NEW m \in Logs, NEW o \in due'[m]
               PROVE  upto'[m] < o.tsc /\ o.tsc <= now' /\ o.k \in 1 .. MaxAdds
    BY DEF DueInv
  <2>1. o \in due[m] /\ (m = l => ~(o.tsc <= max)) BY <1>2 DEF LInv, Types
  <2>2. o.tsc \in Nat BY <2>1 DEF LInv, Types, Op
  <2> QED BY <1>2, <1>7, <1>9, <2>1, <2>2 DEF LInv, DueInv
<1>12. \A i \in DOMAIN vec'[l] :
         IF i <= Len(vec[l]) THEN i \in DOMAIN vec[l] /\ vec'[l][i] = vec[l][i]
         ELSE i - Len(vec[l]) \in DOMAIN s /\ vec'[l][i] = s[i - Len(vec[l])]
  BY <1>5, <1>7, <1>8
<1>13. VecInv'
  <2> SUFFICES ASSUME NEW m \in Logs
               PROVE  /\ upto'[m] <= now'
                      /\ \A i \in DOMAIN vec'[m] : vec'[m][i].tsc <= upto'[m]
    BY DEF VecInv
  <2>1. CASE m = l
    <3> SUFFICES ASSUME NEW i \in DOMAIN vec'[l] PROVE vec'[l][i].tsc <= max
      BY <1>2, <1>7, <1>9, <2>1
    <3>1. CASE i <= Len(vec[l])
      <4>1. i \in DOMAIN vec[l] /\ vec'[l][i] = vec[l][i] BY <1>12, <3>1
      <4>2. vec[l][i].tsc \in Nat /\ vec[l][i].tsc <= upto[l] BY <1>7, <4>1
      <4>3. vec[l][i].tsc <= max BY <1>2, <1>7, <4>2
      <4> QED BY <4>1, <4>3
    <3>2. CASE ~(i <= Len(vec[l])) BY <1>6, <1>12, <3>2
    <3> QED BY <3>1, <3>2
  <2>2. CASE m # l BY <1>2, <1>8, <1>9, <2>2 DEF LInv, VecInv
  <2> QED BY <2>1, <2>2
<1>14. Sorted'
  <2> SUFFICES ASSUME NEW m \in Logs, NEW i \in DOMAIN vec'[m], NEW j \in DOMAIN vec'[m], i < j
               PROVE  vec'[m][i].tsc <= vec'[m][j].tsc
    BY DEF Sorted
  <2>1. CASE m # l BY <1>8, <2>1 DEF LInv, Sorted
  <2>2. CASE m = l
    <3>1. i \in Nat /\ j \in Nat /\ Len(vec[l]) \in Nat
      BY <1>5, <1>7, <1>8, <2>2
    <3> DEFINE n == Len(vec[l])
    <3>2. CASE j <= n
      <4>1. i <= n BY <3>1, <3>2
      <4>2. /\ i \in DOMAIN vec[l] /\ vec'[l][i] = vec[l][i]
            /\ j \in DOMAIN vec[l] /\ vec'[l][j] = vec[l][j]
        BY <1>12, <2>2, <3>2, <4>1
      <4>3. vec[l][i].tsc <= vec[l][j].tsc BY <4>2 DEF LInv, Sorted
      <4> QED BY <2>2, <4>2, <4>3
    <3>3. CASE i <= n /\ ~(j <= n)
      <4>1. i \in DOMAIN vec[l] /\ vec'[l][i] = vec[l][i] BY <1>12, <2>2, <3>3
      <4>2. j - n \in DOMAIN s /\ vec'[l][j] = s[j - n] BY <1>12, <2>2, <3>3
      <4>3. vec[l][i].tsc \in Nat /\ vec[l][i].tsc <= upto[l] BY <1>7, <4>1
      <4>4. s[j - n].tsc \in Nat /\ upto[l] < s[j - n].tsc BY <1>6, <4>2
      <4>5. vec[l][i].tsc <= s[j - n].tsc
        <5> HIDE DEF n
        <5> QED BY <1>7, <4>3, <4>4
      <4> QED BY <2>2, <4>1, <4>2, <4>5
    <3>4. CASE ~(i <= n) /\ ~(j <= n)
      <4>1. i - n \in DOMAIN s /\ vec'[l][i] = s[i - n] BY <1>12, <2>2, <3>4
      <4>2. j - n \in DOMAIN s /\ vec'[l][j] = s[j - n] BY <1>12, <2>2, <3>4
      <4>3. i - n < j - n BY <3>1
      <4>4. s[i - n].tsc <= s[j - n].tsc BY <1>5, <4>1, <4>2, <4>3
      <4> QED BY <2>2, <4>1, <4>2, <4>4
    <3> QED BY <3>1, <3>2, <3>3, <3>4
  <2> QED BY <2>1, <2>2
<1> QED BY <1>10, <1>11, <1>13, <1>14 DEF LInv

-----------------------------------------------------------------------------
\* The invariant holds of every behaviour of the ordered log.
LEMMA LogInvariant ==
  ASSUME MaxAdds \in Nat
  PROVE  Spec => []LInv
<1>1. Init => LInv
  BY DEF Init, LInv, Types, DueInv, VecInv, Sorted, Op
<1>2. LInv /\ [Next]_vars => LInv'
  <2> SUFFICES ASSUME LInv, [Next]_vars PROVE LInv' OBVIOUS
  <2>1. CASE Tick BY <2>1, TickStep
  <2>2. CASE \E adds \in BoundedSeq(Logs, MaxAdds) : Perform(adds) BY <2>2, PerformStep
  <2>3. CASE \E l \in Logs, max \in 0 .. now : Synchronize(l, max) BY <2>3, SynchronizeStep
  <2>4. CASE UNCHANGED vars
    BY <2>4 DEF vars, LInv, Types, DueInv, VecInv, Sorted
  <2> QED BY <2>1, <2>2, <2>3, <2>4 DEF Next
<1> QED BY <1>1, <1>2, PTL DEF Spec

\* synchronize_upto_tsc leaves nothing behind that took effect by its time.
THEOREM CompleteHolds ==
  ASSUME MaxAdds \in Nat
  PROVE  Spec => []Complete
<1>1. LInv => Complete BY DEF LInv, Types, DueInv, Complete, Op
<1> QED BY <1>1, LogInvariant, PTL

\* However calls and synchronizations alternate, operations are applied in the order
\* of their time stamps (the assertions of flush_finish_max_timestamp and add_op).
THEOREM SortedHolds ==
  ASSUME MaxAdds \in Nat
  PROVE  Spec => []Sorted
<1>1. LInv => Sorted BY DEF LInv
<1> QED BY <1>1, LogInvariant, PTL
=============================================================================
