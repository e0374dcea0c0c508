------------------------- MODULE StableStoreProofs -------------------------
(***************************************************************************)
(* AckedDurable holds in every state of the stable store.                  *)
(***************************************************************************)
EXTENDS StableStore, TLAPS

USE SMTT(60), ZenonT(60)

\* A pending transaction is newer than the durable versions of its blocks.
PendingNewer == \A t \in pending : \A b \in t.blocks : image[b] < t.n

StoreType ==
    /\ image \in [Blocks -> Nat]
    /\ \A t \in pending : t.n \in Nat /\ t.blocks \subseteq Blocks
    /\ acked \subseteq Blocks \X Nat

SInv == StoreType /\ PendingNewer /\ AckedDurable

\* A commit only replaces versions by newer ones (add_transaction_to_queue
\* orders the transactions that share a block).
LEMMA CommitGrows ==
    ASSUME SInv, NEW T \in SUBSET pending, Commit(T)
    PROVE  \A b \in Blocks : image[b] <= image'[b]
<1> SUFFICES ASSUME NEW b \in Blocks PROVE image[b] <= image'[b]
  OBVIOUS
<1>1. image[b] \in Nat /\ image'[b] \in Nat /\ Updated(b, T)
  BY DEF SInv, StoreType, Commit
<1>2. CASE \A t \in T : b \notin t.blocks
  BY <1>1, <1>2 DEF Updated
<1>3. CASE ~ \A t \in T : b \notin t.blocks
  <2>1. PICK t \in T : b \in t.blocks /\ image'[b] = t.n
    BY <1>1, <1>3 DEF Updated
  <2>2. t.n \in Nat /\ image[b] < t.n
    BY <2>1 DEF SInv, StoreType, PendingNewer
  <2> QED BY <1>1, <2>1, <2>2
<1> QED BY <1>2, <1>3

\* What stays pending is still newer than what a commit made durable.
LEMMA CommitKeepsNewer ==
    ASSUME SInv, NEW T \in SUBSET pending, Commit(T)
    PROVE  PendingNewer'
<1> SUFFICES ASSUME NEW u \in pending \ T, NEW b \in u.blocks PROVE image'[b] < u.n
  BY DEF PendingNewer, Commit
<1>1. b \in Blocks /\ u.n \in Nat /\ image[b] < u.n
  BY DEF SInv, StoreType, PendingNewer
<1>2. Updated(b, T)
  BY <1>1 DEF Commit
<1>3. CASE \A t \in T : b \notin t.blocks
  BY <1>1, <1>2, <1>3 DEF Updated
<1>4. CASE ~ \A t \in T : b \notin t.blocks
  <2>1. PICK t \in T : b \in t.blocks /\ image'[b] = t.n
    BY <1>2, <1>4 DEF Updated
  <2>2. t.n < u.n
    BY <2>1 DEF Commit
  <2> QED BY <2>1, <2>2
<1> QED BY <1>3, <1>4

\* Every step keeps the invariant.
LEMMA StoreStep == SInv /\ [Next]_storeVars => SInv'
<1> SUFFICES ASSUME SInv, [Next]_storeVars PROVE SInv'
  OBVIOUS
<1>1. ASSUME NEW t \in pending', Submit(t) PROVE SInv'
  BY <1>1 DEF Submit, SInv, StoreType, PendingNewer, AckedDurable
<1>2. ASSUME NEW T \in SUBSET pending, Commit(T) PROVE SInv'
  <2>1. PendingNewer'
    BY <1>2, CommitKeepsNewer
  <2>2. StoreType'
    BY <1>2 DEF SInv, StoreType, Commit
  <2>3. AckedDurable'
    <3> SUFFICES ASSUME NEW p \in acked PROVE image'[p[1]] >= p[2]
      BY <1>2 DEF AckedDurable, Commit
    <3>1. p[1] \in Blocks /\ p[2] \in Nat /\ image[p[1]] >= p[2]
      BY DEF SInv, StoreType, AckedDurable
    <3>2. image[p[1]] <= image'[p[1]]
      BY <1>2, <3>1, CommitGrows
    <3>3. image[p[1]] \in Nat /\ image'[p[1]] \in Nat
      BY <1>2, <3>1 DEF SInv, StoreType, Commit
    <3> QED BY <3>1, <3>2, <3>3
  <2> QED BY <2>1, <2>2, <2>3 DEF SInv
<1>3. ASSUME NEW P \in SUBSET acked', Return(P) PROVE SInv'
  BY <1>3 DEF Return, SInv, StoreType, PendingNewer, AckedDurable
<1>4. CASE Crash
  BY <1>4 DEF Crash, SInv, StoreType, PendingNewer, AckedDurable
<1>5. CASE UNCHANGED storeVars
  BY <1>5 DEF storeVars, SInv, StoreType, PendingNewer, AckedDurable
<1> QED BY <1>1, <1>2, <1>3, <1>4, <1>5 DEF Next

\* A version that fsync or sync has returned for is never lost, for any
\* number of blocks and transactions.
THEOREM AckedDurableHolds == Spec => []AckedDurable
<1>1. Init => SInv
  BY DEF Init, SInv, StoreType, PendingNewer, AckedDurable
<1>2. SInv => AckedDurable
  BY DEF SInv
<1> QED BY <1>1, <1>2, StoreStep, PTL DEF Spec
=============================================================================
