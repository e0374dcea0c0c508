---------------------------- MODULE RefcacheInv -----------------------------
(***************************************************************************)
(* What the proofs about Refcache are carried out with: the inductive      *)
(* invariants of the epoch barrier, the counts, the review lists and the   *)
(* grace period, and the names for what an operation does to a cache and   *)
(* to the object it evicts.                                                *)
(***************************************************************************)
EXTENDS Refcache

\* The part of the state the barrier depends on.
EpochTypeOK ==
    /\ local_epoch \in [Cores -> Nat]
    /\ global_epoch \in Nat
    /\ pc \in [Cores -> {"run", "get", "flush", "flushed", "review"}]

\* A core that flushes has joined the global epoch, so the epoch cannot move
\* on before it ends.
FlushIsExact == \A c \in Cores : pc[c] = "flush" => local_epoch[c] = global_epoch

\* The inductive invariant of the barrier.
BarrierInv == EpochTypeOK /\ EpochBarrier /\ FlushIsExact

\* ------------------------------------------------------------- sequences
Rng(s) == {s[i] : i \in 1 .. Len(s)}

\* No element occurs twice in s.
Once(s) == \A i, j \in 1 .. Len(s) : s[i] = s[j] => i = j

\* The elements of s are in the order of their values in re.
Asc(s, re) == \A i, j \in 1 .. Len(s) : i <= j => re[s[i]] <= re[s[j]]

\* ------------------------------------------------------------ the caches
\* A delta is kept only for an object that has a way, and no two objects of a
\* cache share one.
CacheInv ==
    \A c \in Cores :
        /\ \A o \in Objs : delta[c][o] # 0 => o \in ways[c]
        /\ \A v, w \in ways[c] : Way[v] = Way[w] => v = w

\* What evict does to the object v, by the outcome of its three tests.
Evicted(c, v, n) ==
    /\ refcount' = [refcount EXCEPT ![v] = @ + delta[c][v]]
    /\ \/ refcount'[v] # 0 /\ UNCHANGED <<review_epoch, dirty, review_, weak>>
       \/ refcount'[v] = 0 /\ review_epoch[v] # 0 /\ mark_dirty(v)
       \/ refcount'[v] = 0 /\ review_epoch[v] = 0 /\ own(c, v, n)

\* What an operation on o does to the cache of core c and to the object v it
\* evicts, if any.
Cached(c, o, d) ==
    /\ ways' = [ways EXCEPT ![c] = @ \union {o}]
    /\ delta' = [delta EXCEPT ![c] = [delta[c] EXCEPT ![o] = delta[c][o] + d]]
    /\ delta[c][o] \notin {IntMin, IntMax}
    /\ UNCHANGED <<objVars, review_>>

\* A way is taken from another object, which is evicted.
Replaced(c, o, d, v) ==
    /\ v \in ways[c] /\ v # o /\ delta[c][o] = 0 /\ o \notin ways[c]
    /\ ways' = [ways EXCEPT ![c] = (@ \ {v}) \union {o}]
    /\ delta' = [delta EXCEPT ![c] = [delta[c] EXCEPT ![v] = 0, ![o] = d]]
    /\ Evicted(c, v, 3)

\* A delta at its limit is evicted and started anew.
Refreshed(c, o, d) ==
    /\ o \in ways[c]
    /\ ways' = ways
    /\ delta' = [delta EXCEPT ![c] = [delta[c] EXCEPT ![o] = d]]
    /\ Evicted(c, o, 3)

\* The objects, their lists and the caches: what an eviction changes.
ObjType ==
    /\ refcount \in [Objs -> Int]
    /\ review_epoch \in [Objs -> Nat]
    /\ dirty \in [Objs -> BOOLEAN]
    /\ weak \in [Objs -> {"none", "ok", "dying", "null"}]
    /\ review_ \in [Cores -> Seq(Objs)]

\* The types of the caches.
CacheType ==
    /\ ways \in [Cores -> SUBSET Objs]
    /\ delta \in [Cores -> [Objs -> IntMin..IntMax]]

\* What refcount_ and the delta of core c gain together.
Gain(c, x) == (refcount'[x] - refcount[x]) + (delta'[c][x] - delta[c][x])

\* What an eviction leaves alone.
CoreType ==
    /\ reap_ \in [Cores -> SUBSET Objs]
    /\ local_epoch \in [Cores -> Nat]
    /\ global_epoch \in Nat
    /\ global_epoch_left \in Nat
    /\ pc \in [Cores -> {"run", "get", "flush", "flushed", "review"}]
    /\ arg \in [Cores -> Objs]
    /\ reviewable \in [Cores -> Seq(Objs)]
    /\ epoch \in [Cores -> Nat]
    /\ held \in [Objs -> Nat]
    /\ onzeroed \in SUBSET Objs
    /\ last \in [Objs -> Nat]

\* A core reviews as long as it has something left to review.
Reviews == \A c \in Cores : pc[c] = "review" <=> Len(reviewable[c]) # 0

\* The inductive invariant of the counts.
CountInv == TypeOK /\ BarrierInv /\ CacheInv /\ TrueCount /\ Reviews

\* Without a cached delta, refcount_ alone counts the references of an object.
Settled ==
    \A o \in Objs : (\A c \in Cores : delta[c][o] = 0) => held[o] = refcount[o]

\* What review cuts off is the part of the list that is due.
Cutoffs ==
    \A c \in Cores :
        LET l == review_[c]
            n == cutoff(l, global_epoch) IN
        /\ n \in 0 .. Len(l)
        /\ \A i \in 1 .. n : review_epoch[l[i]] <= global_epoch
        /\ n < Len(l) => review_epoch[l[n + 1]] > global_epoch

\* -------------------------------------------------------- the review lists
Listed(c) == Rng(review_[c]) \cup Rng(reviewable[c])

\* An object is linked once, and exactly while it has a review epoch.
LinkInv ==
    /\ \A c \in Cores : /\ Once(review_[c]) /\ Once(reviewable[c])
                        /\ Rng(review_[c]) \cap Rng(reviewable[c]) = {}
    /\ \A c, d \in Cores : c # d => Listed(c) \cap Listed(d) = {}
    /\ \A o \in Objs : review_epoch[o] # 0 <=> \E c \in Cores : o \in Listed(c)

\* The epochs a core's list spans, by what the core is doing: they are what
\* lets it append the next object at the end.
Window(c) ==
    LET all == {review_epoch[x] : x \in Rng(review_[c])}
        now == local_epoch[c] IN
    /\ \A e \in all : e <= now + 3
    /\ pc[c] \in {"run", "get"} => \A e \in all : e > now
    /\ pc[c] = "flush" => \A e \in all : e <= now + 2
    /\ pc[c] = "flushed" => (\A e \in all : e <= now + 2) \/ (\A e \in all : e > now)
    /\ pc[c] = "review" => /\ \A e \in all : epoch[c] < e /\ e <= epoch[c] + 2
                           /\ epoch[c] \in {now, now + 1}
                           /\ epoch[c] <= global_epoch
    /\ \A x \in Rng(reviewable[c]) : review_epoch[x] <= epoch[c]

\* Every review list is in the order of the review epochs, within its window.
OrderInv == \A c \in Cores : Asc(review_[c], review_epoch) /\ Window(c)

\* A core evicts while it flushes, or in an operation.
Evicting(c, n) ==
    /\ UNCHANGED <<epochVars, reviewable, epoch>>
    /\ \/ n = 2 /\ pc[c] = "flush" /\ pc' = pc
       \/ n = 3 /\ pc[c] = "run" /\ pc' = pc
       \/ n = 3 /\ pc[c] = "get" /\ pc' = [pc EXCEPT ![c] = "run"]

\* A weak reference is dying only while its object is under review.
DyingInv == \A o \in Objs : weak[o] = "dying" => review_epoch[o] # 0

\* The inductive invariant of the review lists.
ListInv == CountInv /\ LinkInv /\ OrderInv /\ DyingInv

\* ------------------------------------------------------- the grace period
\* Core c has a delta for o, or is about to take one.
Active(c, o) == o \in ways[c] \/ (pc[c] = "get" /\ arg[c] = o)

\* Core c has finished the flush that a review in epoch e waits for.
Passed(c, e) == local_epoch[c] >= e - 1 /\ ~(pc[c] = "flush" /\ local_epoch[c] = e - 1)

\* The object a review would free: its count was zero when its review epoch
\* was set, and nobody has been seen to use it since.
Clean(o) ==
    review_epoch[o] # 0 /\ ~dirty[o] /\ refcount[o] = 0 /\ weak[o] # "ok"

\* As long as any core is still active on such an object, one of them has to
\* flush before the review, which will then see it.
Graced(o) ==
    Clean(o) => \/ \A c \in Cores : ~Active(c, o)
                \/ \E c \in Cores : Active(c, o) /\ ~Passed(c, review_epoch[o])

\* The grace period is kept for every object.
Grace == \A o \in Objs : Graced(o)

\* No core is ahead of the epoch a review has read: what PromptReview is for.
Prompt == \A c, d \in Cores : pc[d] = "review" => local_epoch[c] <= epoch[d]

\* A freed object is unreferenced and not under review.
FreedInv ==
    /\ FreedUnreferenced
    /\ \A o \in Objs : Freed(o) => review_epoch[o] = 0

\* The inductive invariant of the grace period.
GraceInv == ListInv /\ Prompt /\ Grace /\ FreedInv

\* What is claimed of a freed object.
Dead(o) ==
    /\ held[o] = 0 /\ \A c \in Cores : ~Active(c, o)
    /\ weak[o] \in {"none", "null"} /\ review_epoch[o] = 0
=============================================================================
