----------------------------- MODULE MCRefcache -----------------------------
(***************************************************************************)
(* Refcache on small instances.  Only differences of epochs matter, so TLC *)
(* identifies states that differ by a shift of all the epochs: the runs    *)
(* are not bounded in the number of epochs.                                *)
(***************************************************************************)
EXTENDS Refcache, TLC

OneWay == [o \in Objs |-> 0]

\* The object with a weak reference is the one that is shared.
WeakShared == [o \in Objs |-> IF o \in WeakObjs THEN 2 ELSE 1]
AllShared == [o \in Objs |-> 2]

Symmetry == Permutations(Cores)

Age(e) == IF e = 0 THEN 0 ELSE e - global_epoch + Latency + 10

Shifted ==
    <<refcount, [o \in Objs |-> Age(review_epoch[o])], dirty, weak, cacheVars,
      listVars, [c \in Cores |-> Age(local_epoch[c])], global_epoch_left,
      pc, [c \in Cores |-> IF pc[c] = "get" THEN <<arg[c]>> ELSE <<>>],
      reviewable,
      [c \in Cores |-> IF pc[c] = "review" THEN epoch[c] - global_epoch ELSE 0],
      held, onzeroed,
      [o \in Objs |-> IF held[o] # 0 \/ Freed(o) THEN 0
                      ELSE last[o] - global_epoch]>>
=============================================================================
