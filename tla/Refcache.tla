------------------------------ MODULE Refcache ------------------------------
(***************************************************************************)
(* Reference counting with per-core delta caches (include/refcache.hh,     *)
(* kernel/refcache.cc).  A core records increments and decrements in its   *)
(* own cache, flushes the cache once per epoch from the timer interrupt,   *)
(* and reviews the objects whose global count it has seen at zero once     *)
(* every core has flushed again.  A weak reference turns into a reference  *)
(* unless the review breaks it first.                                      *)
(*                                                                         *)
(* Interrupts are off in inc, dec, weakref::get and tick, so a core does   *)
(* one of them at a time; everything under an object's lock is one step.   *)
(***************************************************************************)
EXTENDS Integers, FiniteSets, Sequences, Functions

CONSTANTS Cores,
          Objs,
          WeakObjs,    \* the objects of a subclass of weak_referenced
          Way,         \* hash_way: Way[o] is the cache slot of object o
          IntMax,      \* INT_MAX of the 32-bit delta of a way
          MaxRef,      \* bound: references to each object at a time
          PromptReview \* timing: a review ends before the next epoch's ticks

ASSUME CoresAssumption == IsFiniteSet(Cores) /\ Cores # {}
ASSUME ObjsAssumption == Objs # {}
ASSUME IntMaxAssumption == IntMax \in Nat \ {0}

VARIABLES refcount,     \* referenced: refcount_
          review_epoch, \* review_epoch_, 0 when no core reviews the object
          dirty,        \* dirty_
          weak,         \* the weak reference: "none", "ok", "dying", "null"
          ways,         \* per core: the objects its cache holds
          delta,        \* per core and object: the delta of its way
          review_,      \* per core: the review list
          reap_,        \* per core: objects whose onzero is due
          local_epoch,
          global_epoch,
          global_epoch_left,
          pc,           \* per core: what it is executing
          arg,          \* per core: the object weakref::get works on
          reviewable,   \* per core: review(): what is left of the cut list
          epoch,        \* per core: review(): the epoch it has read
          held,         \* per object: references that exist
          onzeroed,     \* objects whose onzero has been called
          last          \* per object: epoch of the last operation on it

objVars == <<refcount, review_epoch, dirty, weak>>
cacheVars == <<ways, delta>>
epochVars == <<local_epoch, global_epoch, global_epoch_left>>
listVars == <<review_, reap_>>
coreVars == <<pc, arg, reviewable, epoch>>
clientVars == <<held, onzeroed, last>>
vars == <<objVars, cacheVars, epochVars, listVars, coreVars, clientVars>>

IntMin == -IntMax - 1

\* A new object has one reference, counted globally.
Init ==
    /\ refcount = [o \in Objs |-> 1]
    /\ review_epoch = [o \in Objs |-> 0]
    /\ dirty = [o \in Objs |-> FALSE]
    /\ weak = [o \in Objs |-> "none"]
    /\ ways = [c \in Cores |-> {}]
    /\ delta = [c \in Cores |-> [o \in Objs |-> 0]]
    /\ review_ = [c \in Cores |-> <<>>]
    /\ reap_ = [c \in Cores |-> {}]
    /\ local_epoch = [c \in Cores |-> 0]
    /\ global_epoch = 1
    /\ global_epoch_left = Cardinality(Cores)
    /\ pc = [c \in Cores |-> "run"]
    /\ arg \in [Cores -> Objs] /\ \A c, d \in Cores : arg[c] = arg[d]
    /\ reviewable = [c \in Cores |-> <<>>]
    /\ epoch = [c \in Cores |-> 0]
    /\ held = [o \in Objs |-> 1]
    /\ onzeroed = {}
    /\ last = [o \in Objs |-> 0]

\* ------------------------------------------------------------- eviction
\* Core c becomes the reviewer of o, n epochs after its own.
own(c, o, n) ==
    /\ review_epoch' = [review_epoch EXCEPT ![o] = local_epoch[c] + n]
    /\ dirty' = [dirty EXCEPT ![o] = FALSE]
    /\ review_' = [review_ EXCEPT ![c] = Append(@, o)]
    /\ weak' = [weak EXCEPT ![o] = IF @ = "ok" THEN "dying" ELSE @]

mark_dirty(o) ==
    /\ dirty' = [dirty EXCEPT ![o] = TRUE]
    /\ UNCHANGED <<review_epoch, review_, weak>>

\* Mutant: an object that has a reviewer gets a second one.
own_zero_again(c, o, exact) == own(c, o, IF exact THEN 2 ELSE 3)

\* The global count of o has dropped to zero: find it a reviewer, or tell the
\* one it has that it was non-zero meanwhile.  Unless the local epoch is
\* exact, the global one may be one ahead.
own_zero(c, o, exact) ==
    IF review_epoch[o] = 0 THEN own(c, o, IF exact THEN 2 ELSE 3)
    ELSE mark_dirty(o)

\* The object side of evict; the caller clears the way.
evict(c, o, exact) ==
    /\ refcount' = [refcount EXCEPT ![o] = @ + delta[c][o]]
    /\ IF refcount'[o] = 0 THEN own_zero(c, o, exact)
       ELSE UNCHANGED <<review_epoch, dirty, review_, weak>>

\* Mutant: a delta at the end of its range is not evicted.
victims_conflict(c, o) == {v \in ways[c] : v # o /\ Way[v] = Way[o]}

\* What get_way(o) must evict: the other object in o's way, or o itself
\* when its delta cannot take another step.
victims(c, o) ==
    {v \in ways[c] : \/ v # o /\ Way[v] = Way[o]
                     \/ v = o /\ delta[c][o] \in {IntMax, IntMin}}

\* Mutant: the object that loses its way loses its delta with it.
get_way_lost(c, o, d) ==
    LET out == victims(c, o) IN
    /\ ways' = [ways EXCEPT ![c] = (@ \ out) \union {o}]
    /\ delta' = [delta EXCEPT ![c] = [v \in Objs |->
                    (IF v \in out THEN 0 ELSE @[v]) + (IF v = o THEN d ELSE 0)]]
    /\ UNCHANGED <<objVars, review_>>

\* get_way(o) followed by the update of the delta.
get_way(c, o, d) ==
    LET out == victims(c, o) IN
    /\ ways' = [ways EXCEPT ![c] = (@ \ out) \union {o}]
    /\ delta' = [delta EXCEPT ![c] = [v \in Objs |->
                    (IF v \in out THEN 0 ELSE @[v]) + (IF v = o THEN d ELSE 0)]]
    /\ IF out = {} THEN UNCHANGED <<objVars, review_>>
       ELSE \E v \in out : evict(c, v, FALSE)

touched(o) == last' = [last EXCEPT ![o] = global_epoch]

\* ------------------------------------------------- operations on objects
\* referenced::inc, on a copy of a reference that exists.
inc(c, o) ==
    /\ pc[c] = "run" /\ held[o] \in 1..(MaxRef[o] - 1)
    /\ get_way(c, o, 1)
    /\ held' = [held EXCEPT ![o] = @ + 1]
    /\ touched(o)
    /\ UNCHANGED <<epochVars, reap_, coreVars, onzeroed>>

dec(c, o) ==
    /\ pc[c] = "run" /\ held[o] > 0
    /\ get_way(c, o, -1)
    /\ held' = [held EXCEPT ![o] = @ - 1]
    /\ touched(o)
    /\ UNCHANGED <<epochVars, reap_, coreVars, onzeroed>>

\* The weakref constructor, given a reference to o.
make_weakref(c, o) ==
    /\ pc[c] = "run" /\ o \in WeakObjs /\ held[o] > 0 /\ weak[o] = "none"
    /\ weak' = [weak EXCEPT
                  ![o] = IF review_epoch[o] # 0 THEN "dying" ELSE "ok"]
    /\ UNCHANGED <<refcount, review_epoch, dirty, cacheVars, epochVars,
                   listVars, coreVars, clientVars>>

\* weakref::get: revive the pointer ...
get_revive(c, o) ==
    /\ pc[c] = "run" /\ weak[o] \in {"ok", "dying"} /\ held[o] < MaxRef[o]
    /\ weak' = [weak EXCEPT ![o] = "ok"]
    /\ pc' = [pc EXCEPT ![c] = "get"]
    /\ arg' = [arg EXCEPT ![c] = o]
    /\ touched(o)
    /\ UNCHANGED <<refcount, review_epoch, dirty, cacheVars, epochVars,
                   listVars, reviewable, epoch, held, onzeroed>>

\* ... and then count the new reference.
get_inc(c) ==
    LET o == arg[c] IN
    /\ pc[c] = "get"
    /\ get_way(c, o, 1)
    /\ held' = [held EXCEPT ![o] = @ + 1]
    /\ touched(o)
    /\ pc' = [pc EXCEPT ![c] = "run"]
    /\ UNCHANGED <<epochVars, reap_, arg, reviewable, epoch, onzeroed>>

\* ------------------------------------------------------ the timer interrupt
\* A review that has read an older epoch than the one core c would join.
late_review == \E d \in Cores : pc[d] = "review" /\ epoch[d] < global_epoch

\* tick: flush joins the global epoch unless the core already has.
tick(c) ==
    /\ pc[c] = "run"
    /\ IF local_epoch[c] = global_epoch
       THEN /\ pc' = [pc EXCEPT ![c] = "flushed"]
            /\ UNCHANGED local_epoch
       ELSE /\ PromptReview => ~late_review
            /\ pc' = [pc EXCEPT ![c] = "flush"]
            /\ local_epoch' = [local_epoch EXCEPT ![c] = global_epoch]
    /\ UNCHANGED <<objVars, cacheVars, global_epoch, global_epoch_left,
                   listVars, arg, reviewable, epoch, clientVars>>

\* One way of the flush loop.
flush_way(c, o) ==
    /\ pc[c] = "flush" /\ o \in ways[c]
    /\ evict(c, o, TRUE)
    /\ ways' = [ways EXCEPT ![c] = @ \ {o}]
    /\ delta' = [delta EXCEPT ![c][o] = 0]
    /\ UNCHANGED <<epochVars, reap_, coreVars, clientVars>>

\* Mutant: the epoch moves on when one core has still to reach it.
flush_end_early(c) ==
    /\ pc[c] = "flush" /\ ways[c] = {}
    /\ IF global_epoch_left <= 2
       THEN /\ global_epoch_left' = Cardinality(Cores)
            /\ global_epoch' = global_epoch + 1
       ELSE /\ global_epoch_left' = global_epoch_left - 1
            /\ UNCHANGED global_epoch
    /\ pc' = [pc EXCEPT ![c] = "flushed"]
    /\ UNCHANGED <<objVars, cacheVars, local_epoch, listVars, arg, reviewable,
                   epoch, clientVars>>

\* The end of flush: the last core to reach the epoch starts the next one.
flush_end(c) ==
    /\ pc[c] = "flush" /\ ways[c] = {}
    /\ IF global_epoch_left = 1
       THEN /\ global_epoch_left' = Cardinality(Cores)
            /\ global_epoch' = global_epoch + 1
       ELSE /\ global_epoch_left' = global_epoch_left - 1
            /\ UNCHANGED global_epoch
    /\ pc' = [pc EXCEPT ![c] = "flushed"]
    /\ UNCHANGED <<objVars, cacheVars, local_epoch, listVars, arg, reviewable,
                   epoch, clientVars>>

\* The length of the part of list l that epoch e allows to review.
cutoff(l, e) ==
    CHOOSE n \in 0..Len(l) :
        /\ \A i \in 1..n : review_epoch[l[i]] <= e
        /\ n < Len(l) => review_epoch[l[n + 1]] > e

\* review: read the epoch and cut the review list.
review(c) ==
    LET n == cutoff(review_[c], global_epoch) IN
    /\ pc[c] = "flushed"
    /\ epoch' = [epoch EXCEPT ![c] = global_epoch]
    /\ reviewable' = [reviewable EXCEPT ![c] = SubSeq(review_[c], 1, n)]
    /\ review_' = [review_ EXCEPT ![c] = SubSeq(@, n + 1, Len(@))]
    /\ pc' = [pc EXCEPT ![c] = IF n = 0 THEN "run" ELSE "review"]
    /\ UNCHANGED <<objVars, cacheVars, epochVars, reap_, arg, clientVars>>

\* Each round of the review loop takes the next object of the cut list.
review_next(c, o) ==
    /\ pc[c] = "review" /\ o = Head(reviewable[c])
    /\ reviewable' = [reviewable EXCEPT ![c] = Tail(@)]
    /\ pc' = [pc EXCEPT ![c] = IF Len(reviewable[c]) = 1 THEN "run" ELSE @]
    /\ UNCHANGED <<refcount, cacheVars, epochVars, arg, epoch, clientVars>>

\* Mutant: a revived weak reference does not stop the review.
unstable_weak(o) == dirty[o]

\* The count is zero, but was not all the time or may not be: the object is
\* dirty, or its weak reference has been revived and try_break fails.
unstable(o) == dirty[o] \/ weak[o] = "ok"

\* Mutant: a revived weak reference is not marked dying again.
review_requeue_revived(c, o) ==
    /\ review_next(c, o)
    /\ refcount[o] = 0 /\ unstable(o)
    /\ dirty' = [dirty EXCEPT ![o] = FALSE]
    /\ review_epoch' = [review_epoch EXCEPT ![o] = epoch[c] + 2]
    /\ review_' = [review_ EXCEPT ![c] = Append(@, o)]
    /\ UNCHANGED <<weak, reap_>>

review_requeue(c, o) ==
    /\ review_next(c, o)
    /\ refcount[o] = 0 /\ unstable(o)
    /\ weak' = [weak EXCEPT ![o] = IF ~dirty[o] THEN "dying" ELSE @]
    /\ dirty' = [dirty EXCEPT ![o] = FALSE]
    /\ review_epoch' = [review_epoch EXCEPT ![o] = epoch[c] + 2]
    /\ review_' = [review_ EXCEPT ![c] = Append(@, o)]
    /\ UNCHANGED reap_

\* It was zero for the whole round: break the weak reference and free it.
review_free(c, o) ==
    /\ review_next(c, o)
    /\ refcount[o] = 0 /\ ~unstable(o)
    /\ weak' = [weak EXCEPT ![o] = IF @ = "dying" THEN "null" ELSE @]
    /\ review_epoch' = [review_epoch EXCEPT ![o] = 0]
    /\ reap_' = [reap_ EXCEPT ![c] = @ \union {o}]
    /\ UNCHANGED <<dirty, review_>>

\* Mutant: a disowned object stays marked dying.
review_disown_dying(c, o) ==
    /\ review_next(c, o)
    /\ refcount[o] # 0
    /\ review_epoch' = [review_epoch EXCEPT ![o] = 0]
    /\ UNCHANGED <<weak, dirty, review_, reap_>>

\* It is non-zero: the core that sees it at zero next will review it.
review_disown(c, o) ==
    /\ review_next(c, o)
    /\ refcount[o] # 0
    /\ weak' = [weak EXCEPT ![o] = IF @ = "dying" THEN "ok" ELSE @]
    /\ review_epoch' = [review_epoch EXCEPT ![o] = 0]
    /\ UNCHANGED <<dirty, review_, reap_>>

\* The core's reaper thread calls onzero for what the review has freed.
reaper(c) ==
    /\ reap_[c] # {}
    /\ onzeroed' = onzeroed \union reap_[c]
    /\ reap_' = [reap_ EXCEPT ![c] = {}]
    /\ UNCHANGED <<objVars, cacheVars, epochVars, review_, coreVars, held, last>>

Next ==
    \/ \E c \in Cores : \/ get_inc(c) \/ tick(c) \/ flush_end(c)
                        \/ review(c) \/ reaper(c)
    \/ \E c \in Cores, o \in Objs :
          \/ inc(c, o) \/ dec(c, o) \/ make_weakref(c, o) \/ get_revive(c, o)
          \/ flush_way(c, o) \/ review_requeue(c, o) \/ review_free(c, o)
          \/ review_disown(c, o)

Spec == Init /\ [][Next]_vars

\* ------------------------------------------------------------- properties
TypeOK ==
    /\ refcount \in [Objs -> Int]
    /\ review_epoch \in [Objs -> Nat]
    /\ dirty \in [Objs -> BOOLEAN]
    /\ weak \in [Objs -> {"none", "ok", "dying", "null"}]
    /\ ways \in [Cores -> SUBSET Objs]
    /\ delta \in [Cores -> [Objs -> IntMin..IntMax]]
    /\ review_ \in [Cores -> Seq(Objs)]
    /\ reap_ \in [Cores -> SUBSET Objs]
    /\ local_epoch \in [Cores -> Nat]
    /\ global_epoch \in Nat
    /\ global_epoch_left \in Nat
    /\ pc \in [Cores -> {"run", "get", "flush", "flushed", "review"}]
    /\ arg \in [Cores -> Objs]
    /\ reviewable \in [Cores -> Seq(Objs)]
    /\ epoch \in [Cores -> Nat]
    /\ held \in [Objs -> Nat]
    /\ onzeroed \in SUBSET Objs
    /\ last \in [Objs -> Nat]

\* The comment on global_epoch: every local epoch is the global one or the
\* one before, which eviction relies on, and global_epoch_left counts the
\* cores that have not finished the flush for the current epoch.
Pending == {c \in Cores : local_epoch[c] < global_epoch \/ pc[c] = "flush"}

EpochBarrier ==
    /\ \A c \in Cores : local_epoch[c] \in {global_epoch - 1, global_epoch}
    /\ global_epoch_left = Cardinality(Pending)

\* referenced::refcount_: "This object's true reference count is the sum of
\* this and each core's cached reference delta", across every eviction.
TrueCount ==
    \A o \in Objs :
        held[o] = refcount[o] + FoldFunction(+, 0, [c \in Cores |-> delta[c][o]])

\* An object is freed only when no reference to it exists or is being made
\* from its weak reference, and no core has a delta left for it.
Freed(o) == o \in onzeroed \/ \E c \in Cores : o \in reap_[c]

FreedUnreferenced ==
    \A o \in Objs : Freed(o) =>
        /\ held[o] = 0
        /\ \A c \in Cores : /\ o \notin ways[c]
                            /\ pc[c] = "get" => arg[c] # o
        /\ weak[o] \in {"none", "null"}

\* An object has at most one reviewer, the one review_epoch_ stands for: it
\* is linked once in all the review lists, and never while it is reaped.
Occurrences(o, l) == Cardinality({i \in 1..Len(l) : l[i] = o})

OneReviewer ==
    \A o \in Objs :
        /\ FoldFunction(+, 0, [c \in Cores |-> Occurrences(o, review_[c])
                                               + Occurrences(o, reviewable[c])])
             = IF review_epoch[o] = 0 THEN 0 ELSE 1
        /\ Freed(o) => review_epoch[o] = 0

\* The panics and the assertion of refcache hold back: review lists are in
\* epoch order and within three epochs of the global one, and a weak
\* reference is dying only while its object is under review.
NoPanic ==
    /\ \A c \in Cores : \A i \in 1..Len(review_[c]) :
          /\ review_epoch[review_[c][i]] <= global_epoch + 3
          /\ i > 1 => review_epoch[review_[c][i - 1]] <= review_epoch[review_[c][i]]
    /\ \A o \in Objs : weak[o] = "dying" => review_epoch[o] # 0

\* The header comment: objects are collected "within an adjustable time bound
\* of when their reference count drops to zero".
Latency == 10

CollectedInTime ==
    \A o \in Objs : held[o] = 0 /\ ~Freed(o) => global_epoch <= last[o] + Latency
=============================================================================
