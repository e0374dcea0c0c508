---------------------------- MODULE StableStore ----------------------------
(***************************************************************************)
(* What fsync and sync promise about the disk: a store of block versions   *)
(* that survives crashes and changes by whole transactions.  A version is  *)
(* the number of the transaction that wrote it.                            *)
(***************************************************************************)
EXTENDS Naturals

CONSTANT Blocks

VARIABLES image,     \* per block: its durable version
          pending,   \* transactions not yet durable: number n, blocks
          acked      \* <<block, version>> that a call has returned for

storeVars == <<image, pending, acked>>

Init == image = [b \in Blocks |-> 0] /\ pending = {} /\ acked = {}

\* A call submits a transaction, newer than what is durable.
Submit(t) ==
    /\ t.n \in Nat /\ t.blocks \subseteq Blocks
    /\ \A b \in t.blocks : image[b] < t.n
    /\ pending' = pending \union {t}
    /\ UNCHANGED <<image, acked>>

\* Block b gets the last version that T has of it.
Updated(b, T) ==
    IF \A t \in T : b \notin t.blocks THEN image'[b] = image[b]
    ELSE \E t \in T : /\ b \in t.blocks /\ image'[b] = t.n
                      /\ \A u \in T : b \in u.blocks => u.n <= t.n

\* A set of transactions becomes durable at once; earlier updates of the
\* same blocks are durable before or with it.
Commit(T) ==
    /\ \A t \in T, u \in pending \ T : t.blocks \cap u.blocks # {} => t.n < u.n
    /\ image' \in [Blocks -> Nat]
    /\ \A b \in Blocks : Updated(b, T)
    /\ pending' = pending \ T
    /\ UNCHANGED acked

\* A call returns for updates that are durable.
Return(P) ==
    /\ P \subseteq Blocks \X Nat
    /\ \A p \in P : image[p[1]] >= p[2]
    /\ acked' = acked \union P
    /\ UNCHANGED <<image, pending>>

Crash == pending' = {} /\ UNCHANGED <<image, acked>>

Next == \/ \E t \in pending' : Submit(t)
        \/ \E T \in SUBSET pending : Commit(T)
        \/ \E P \in SUBSET acked' : Return(P)
        \/ Crash

Spec == Init /\ [][Next]_storeVars

\* What a call has returned for stays on the disk, whatever happens later.
AckedDurable == \A p \in acked : image[p[1]] >= p[2]
=============================================================================
