------------------------ MODULE RefcacheListProofs -------------------------
(***************************************************************************)
(* Steps of refcache, case by case, and the review lists: what evict, the  *)
(* flush, the epochs, the weak references and the review itself do to the  *)
(* order of the lists and to the epochs they span.  The second part is the *)
(* grace period: an object that looks unused is freed only after every core *)
(* that may still have a delta for it has flushed.                         *)
(***************************************************************************)
EXTENDS RefcacheInv, TLAPS

\* What the type invariant says of a core and of the objects.
LEMMA CoreTypes ==
    ASSUME TypeOK, NEW c \in Cores
    PROVE  /\ review_[c] \in Seq(Objs) /\ reviewable[c] \in Seq(Objs)
           /\ review_ \in [Cores -> Seq(Objs)] /\ reviewable \in [Cores -> Seq(Objs)]
           /\ Len(review_[c]) \in Nat /\ Len(reviewable[c]) \in Nat
           /\ review_epoch \in [Objs -> Nat]
           /\ local_epoch[c] \in Nat /\ epoch[c] \in Nat /\ global_epoch \in Nat
           /\ local_epoch \in [Cores -> Nat] /\ epoch \in [Cores -> Nat]
           /\ pc \in [Cores -> {"run", "get", "flush", "flushed", "review"}]
BY DEF TypeOK

\* evict is one of the three cases of Evicted, exact or not.
LEMMA EvictCases ==
    ASSUME NEW c, NEW v, NEW exact \in BOOLEAN, evict(c, v, exact)
    PROVE  Evicted(c, v, IF exact THEN 2 ELSE 3)
BY Zenon DEF evict, own_zero, Evicted

\* The range of a delta: there is room for a step either way from zero.
LEMMA DeltaRange ==
    /\ IntMin \in Int /\ IntMax \in Int /\ IntMin <= -2 /\ IntMax >= 1
    /\ 0 \in IntMin..IntMax /\ 1 \in IntMin..IntMax /\ -1 \in IntMin..IntMax
    /\ TypeOK => \A c \in Cores, x \in Objs :
                    /\ delta[c][x] \in IntMin..IntMax
                    /\ delta[c][x] \in Int
<1>1. IntMin \in Int /\ IntMax \in Int /\ IntMin <= -2 /\ IntMax >= 1
  BY IntMaxAssumption DEF IntMin
<1>2. 0 \in IntMin..IntMax /\ 1 \in IntMin..IntMax /\ -1 \in IntMin..IntMax
  BY <1>1
<1>3. ASSUME TypeOK, NEW c \in Cores, NEW x \in Objs
      PROVE  delta[c][x] \in IntMin..IntMax /\ delta[c][x] \in Int
  <2>1. delta[c][x] \in IntMin..IntMax
    BY <1>3 DEF TypeOK
  <2> QED
    BY <1>1, <2>1
<1> QED
  BY Zenon, <1>1, <1>2, <1>3

\* A cached delta is an integer.
LEMMA DeltaType ==
    ASSUME TypeOK
    PROVE  delta \in [Cores -> [Objs -> Int]]
<1>1. IntMin \in Int /\ IntMax \in Int
  BY Zenon, DeltaRange
<1>2. delta \in [Cores -> [Objs -> IntMin .. IntMax]]
  BY Zenon DEF TypeOK
<1> QED
  BY <1>1, <1>2

\* get_way hits the cache, replaces another object or refreshes a full delta.
LEMMA GetWayCases ==
    ASSUME TypeOK, CacheInv, NEW c \in Cores, NEW o \in Objs, NEW d \in {1, -1},
           get_way(c, o, d)
    PROVE  /\ \/ Cached(c, o, d)
              \/ \E v \in Objs : Replaced(c, o, d, v)
              \/ Refreshed(c, o, d)
           /\ \A v, w \in ways'[c] : Way[v] = Way[w] => v = w
<1> DEFINE out == victims(c, o)
<1>a. ways \in [Cores -> SUBSET Objs] /\ delta \in [Cores -> [Objs -> Int]]
  BY Zenon, DeltaType DEF TypeOK
<1>b. IntMin \in Int /\ IntMax \in Int /\ 0 \notin {IntMin, IntMax}
  BY DeltaRange
<1>0. /\ ways \in [Cores -> SUBSET Objs] /\ delta[c] \in [Objs -> Int]
      /\ delta \in [Cores -> [Objs -> Int]]
      /\ IntMin \in Int /\ IntMax \in Int /\ 0 \notin {IntMin, IntMax}
      /\ d \in Int /\ \A v \in Objs : delta[c][v] \in Int
  BY <1>a, <1>b
<1>1. /\ ways' = [ways EXCEPT ![c] = (@ \ out) \union {o}]
      /\ delta' = [delta EXCEPT ![c] = [v \in Objs |->
                     (IF v \in out THEN 0 ELSE delta[c][v]) + (IF v = o THEN d ELSE 0)]]
      /\ IF out = {} THEN UNCHANGED <<objVars, review_>>
         ELSE \E v \in out : evict(c, v, FALSE)
  BY Zenon DEF get_way
<1>2. \A v \in out : /\ v \in ways[c] /\ v \in Objs
                     /\ v = o \/ Way[v] = Way[o]
                     /\ v = o => delta[c][o] \in {IntMin, IntMax}
  BY Zenon, <1>0 DEF victims
<1>3. \A v \in ways[c] : v \in out \/ (v # o => Way[v] # Way[o])
  BY Zenon DEF victims
<1> HIDE DEF out
<1>4. \A v, w \in ways'[c] : Way[v] = Way[w] => v = w
  <2>1. ways'[c] = (ways[c] \ out) \union {o}
    BY Zenon, <1>0, <1>1
  <2> QED
    BY Zenon, <1>3, <2>1 DEF CacheInv
<1>5. CASE out = {}
  <2>1. o \in ways[c] => delta[c][o] \notin {IntMin, IntMax}
    BY Zenon, <1>5 DEF victims, out
  <2>2. delta[c][o] \notin {IntMin, IntMax}
    BY Zenon, <1>0, <2>1 DEF CacheInv
  <2>3. ways' = [ways EXCEPT ![c] = @ \union {o}]
    BY Zenon, <1>1, <1>5
  <2>4. [v \in Objs |-> (IF v \in out THEN 0 ELSE delta[c][v]) + (IF v = o THEN d ELSE 0)]
           = [delta[c] EXCEPT ![o] = delta[c][o] + d]
    <3>1. \A v \in Objs : (IF v \in out THEN 0 ELSE delta[c][v]) + (IF v = o THEN d ELSE 0)
                            = IF v = o THEN delta[c][o] + d ELSE delta[c][v]
      BY <1>0, <1>5
    <3> QED
      BY Zenon, <1>0, <3>1
  <2>5. UNCHANGED <<objVars, review_>>
    BY Zenon, <1>1, <1>5
  <2>6. delta' = [delta EXCEPT ![c] = [delta[c] EXCEPT ![o] = delta[c][o] + d]]
    BY Zenon, <1>1, <2>4
  <2> QED
    BY Zenon, <1>4, <2>2, <2>3, <2>5, <2>6 DEF Cached
<1>6. ASSUME NEW v \in out, evict(c, v, FALSE), out # {} PROVE out = {v}
  BY <1>2 DEF CacheInv
<1>7. ASSUME NEW v \in out, evict(c, v, FALSE), out # {}, v # o
      PROVE  Replaced(c, o, d, v)
  <2>1. out = {v} /\ v \in ways[c] /\ v \in Objs /\ Way[v] = Way[o]
    BY Zenon, <1>2, <1>6, <1>7
  <2>2. o \notin ways[c] /\ delta[c][o] = 0
    BY Zenon, <1>7, <2>1 DEF CacheInv
  <2>3. [w \in Objs |-> (IF w \in out THEN 0 ELSE delta[c][w]) + (IF w = o THEN d ELSE 0)]
           = [delta[c] EXCEPT ![v] = 0, ![o] = d]
    <3>1. \A w \in Objs : (IF w \in out THEN 0 ELSE delta[c][w]) + (IF w = o THEN d ELSE 0)
                            = IF w = o THEN d ELSE IF w = v THEN 0 ELSE delta[c][w]
      BY <1>0, <1>7, <2>1, <2>2
    <3> QED
      BY Zenon, <1>0, <1>7, <2>1, <3>1
  <2>4. Evicted(c, v, 3)
    BY Zenon, <1>7, EvictCases
  <2> QED
    BY Zenon, <1>1, <1>7, <2>1, <2>2, <2>3, <2>4 DEF Replaced
<1>8. ASSUME NEW v \in out, evict(c, v, FALSE), out # {}, v = o
      PROVE  Refreshed(c, o, d)
  <2>1. out = {o} /\ o \in ways[c]
    BY Zenon, <1>2, <1>6, <1>8
  <2>2. [w \in Objs |-> (IF w \in out THEN 0 ELSE delta[c][w]) + (IF w = o THEN d ELSE 0)]
           = [delta[c] EXCEPT ![o] = d]
    <3>1. \A w \in Objs : (IF w \in out THEN 0 ELSE delta[c][w]) + (IF w = o THEN d ELSE 0)
                            = IF w = o THEN d ELSE delta[c][w]
      BY <1>0, <2>1
    <3> QED
      BY Zenon, <1>0, <3>1
  <2>3. ways' = ways
    BY Zenon, <1>0, <1>1, <2>1
  <2>4. Evicted(c, o, 3)
    BY Zenon, <1>8, EvictCases
  <2> QED
    BY Zenon, <1>1, <2>1, <2>2, <2>3, <2>4 DEF Refreshed
<1> QED
  BY Zenon, <1>1, <1>2, <1>4, <1>5, <1>7, <1>8

\* An eviction keeps the types of the objects.
LEMMA EvictedType ==
    ASSUME TypeOK, NEW c \in Cores, NEW v \in Objs, NEW n \in Nat, Evicted(c, v, n)
    PROVE  ObjType'
<1>a. delta[c][v] \in Int
  BY Zenon, DeltaRange
<1>b. local_epoch[c] \in Nat /\ review_[c] \in Seq(Objs)
  BY Zenon, CoreTypes
<1>c. ObjType
  BY Zenon DEF TypeOK, ObjType
<1>d. refcount[v] \in Int
  BY Zenon, <1>c DEF ObjType
<1>0. /\ ObjType /\ local_epoch[c] + n \in Nat
      /\ refcount[v] \in Int /\ delta[c][v] \in Int /\ review_[c] \in Seq(Objs)
  BY <1>a, <1>b, <1>c, <1>d
<1>1. refcount' \in [Objs -> Int]
  BY <1>0 DEF Evicted, ObjType
<1>2. CASE UNCHANGED <<review_epoch, dirty, review_, weak>>
  BY Zenon, <1>0, <1>1, <1>2 DEF ObjType
<1>3. CASE mark_dirty(v)
  BY Zenon, <1>0, <1>1, <1>3 DEF ObjType, mark_dirty
<1>4. CASE own(c, v, n)
  <2>1. Append(review_[c], v) \in Seq(Objs)
    BY <1>0
  <2>2. review_' \in [Cores -> Seq(Objs)]
    BY Zenon, <1>0, <1>4, <2>1 DEF own, ObjType
  <2>3. review_epoch' \in [Objs -> Nat] /\ dirty' \in [Objs -> BOOLEAN]
    BY Zenon, <1>0, <1>4 DEF own, ObjType
  <2>4. weak' \in [Objs -> {"none", "ok", "dying", "null"}]
    BY Zenon, <1>0, <1>4 DEF own, ObjType
  <2> QED
    BY Zenon, <1>1, <2>2, <2>3, <2>4 DEF ObjType
<1> QED
  BY Zenon, <1>2, <1>3, <1>4 DEF Evicted

\* The same for a way of the flush loop.
LEMMA FlushWayStep ==
    ASSUME TypeOK, CacheInv, NEW c \in Cores, NEW o \in Objs, flush_way(c, o)
    PROVE  /\ ObjType' /\ CacheType' /\ CacheInv'
           /\ delta' = [delta EXCEPT ![c] = delta'[c]]
           /\ \A x \in Objs : Gain(c, x) = 0
           /\ Evicted(c, o, 2)
<1>0. /\ ways \in [Cores -> SUBSET Objs] /\ delta \in [Cores -> [Objs -> IntMin..IntMax]]
      /\ \A x \in Objs : refcount[x] \in Int /\ delta[c][x] \in Int
      /\ 0 \in IntMin..IntMax /\ refcount \in [Objs -> Int]
  BY Zenon, DeltaRange DEF TypeOK
<1>1. /\ ways' = [ways EXCEPT ![c] = ways[c] \ {o}]
      /\ delta' = [delta EXCEPT ![c] = [delta[c] EXCEPT ![o] = 0]]
      /\ Evicted(c, o, 2)
  BY Zenon, EvictCases DEF flush_way
<1>2. /\ ObjType' /\ refcount' = [refcount EXCEPT ![o] = @ + delta[c][o]]
  BY Zenon, <1>1, EvictedType DEF Evicted
<1>3. CacheType'
  BY Zenon, <1>0, <1>1 DEF CacheType
<1>4. /\ \A x \in Objs : delta'[c][x] = IF x = o THEN 0 ELSE delta[c][x]
      /\ ways'[c] = ways[c] \ {o}
      /\ \A e \in Cores \ {c} : delta'[e] = delta[e] /\ ways'[e] = ways[e]
  BY Zenon, <1>0, <1>1
<1>5. CacheInv'
  BY ZenonT(60), <1>4 DEF CacheInv
<1>6. delta' = [delta EXCEPT ![c] = delta'[c]]
  BY Zenon, <1>0, <1>1
<1>7. \A x \in Objs : Gain(c, x) = 0
  BY <1>0, <1>2, <1>4 DEF Gain
<1> QED
  BY Zenon, <1>1, <1>2, <1>3, <1>5, <1>6, <1>7

\* What stays the same while core c evicts.
LEMMA EvictingFrame ==
    ASSUME TypeOK, NEW c \in Cores, NEW n, Evicting(c, n)
    PROVE  /\ \A d \in Cores \ {c} : /\ pc'[d] = pc[d] /\ local_epoch'[d] = local_epoch[d]
                                     /\ epoch'[d] = epoch[d]
           /\ global_epoch' = global_epoch /\ global_epoch' >= global_epoch
           /\ local_epoch' = local_epoch /\ epoch' = epoch /\ reviewable' = reviewable
           /\ \/ n = 2 /\ pc[c] = "flush" /\ pc'[c] = "flush"
              \/ n = 3 /\ pc[c] \in {"run", "get"} /\ pc'[c] = "run"
           /\ n \in Nat
BY DEF Evicting, TypeOK, epochVars

\* The tail of a list without repetitions is the list without its head.
LEMMA TailOnce ==
    ASSUME NEW S, NEW s \in Seq(S), s # <<>>, Once(s)
    PROVE  /\ Tail(s) \in Seq(S) /\ Once(Tail(s))
           /\ Head(s) \in Rng(s) /\ Head(s) \in S
           /\ Rng(Tail(s)) = Rng(s) \ {Head(s)}
<1> DEFINE t == Tail(s)
<1>1. /\ t \in Seq(S) /\ Len(s) \in Nat \ {0} /\ Len(t) = Len(s) - 1
      /\ \A i \in 1 .. Len(t) : t[i] = s[i + 1]
      /\ Head(s) = s[1] /\ s[1] \in S
  OBVIOUS
<1> HIDE DEF t
<1>2. Once(t)
  BY <1>1 DEF Once
<1>3. Rng(t) \subseteq Rng(s) \ {Head(s)}
  BY <1>1 DEF Rng, Once
<1>4. ASSUME NEW x \in Rng(s) \ {Head(s)} PROVE x \in Rng(t)
  <2>1. PICK i \in 1 .. Len(s) : x = s[i]
    BY Zenon DEF Rng
  <2>2. i # 1 /\ i - 1 \in 1 .. Len(t) /\ t[i - 1] = x
    BY <1>1, <1>4, <2>1
  <2> QED
    BY Zenon, <2>2 DEF Rng
<1>5. Head(s) \in Rng(s)
  BY <1>1 DEF Rng
<1> QED
  BY Zenon, <1>1, <1>2, <1>3, <1>4, <1>5 DEF t

\* What every round of the review loop does to core c.
LEMMA RoundFrame ==
    ASSUME TypeOK, Reviews, LinkInv, OrderInv, NEW c \in Cores, NEW o \in Objs, review_next(c, o)
    PROVE  LET B == Tail(reviewable[c]) IN
           /\ reviewable' = [reviewable EXCEPT ![c] = B]
           /\ B \in Seq(Objs) /\ Once(B) /\ Rng(B) = Rng(reviewable[c]) \ {o}
           /\ o \in Rng(reviewable[c]) /\ o \notin Rng(review_[c])
           /\ review_epoch[o] # 0 /\ pc[c] = "review" /\ pc'[c] \in {"run", "review"}
           /\ local_epoch' = local_epoch /\ epoch' = epoch /\ global_epoch' = global_epoch
           /\ \A d \in Cores \ {c} : /\ pc'[d] = pc[d] /\ local_epoch'[d] = local_epoch[d]
                                     /\ epoch'[d] = epoch[d]
<1> DEFINE r == reviewable[c]
<1>0. r \in Seq(Objs) /\ pc \in [Cores -> {"run", "get", "flush", "flushed", "review"}]
  BY Zenon, CoreTypes
<1>1. /\ pc[c] = "review" /\ o = Head(r)
      /\ reviewable' = [reviewable EXCEPT ![c] = Tail(r)]
      /\ pc' = [pc EXCEPT ![c] = IF Len(r) = 1 THEN "run" ELSE pc[c]]
      /\ local_epoch' = local_epoch /\ epoch' = epoch /\ global_epoch' = global_epoch
  BY Zenon DEF review_next, epochVars
<1>2. r # <<>> /\ Once(r) /\ Rng(review_[c]) \cap Rng(r) = {}
  BY Zenon, <1>1 DEF Reviews, LinkInv
<1>3. pc'[c] \in {"run", "review"} /\ \A d \in Cores \ {c} : pc'[d] = pc[d]
  BY Zenon, <1>0, <1>1
<1> HIDE DEF r
<1>4. /\ Tail(r) \in Seq(Objs) /\ Once(Tail(r)) /\ Rng(Tail(r)) = Rng(r) \ {o} /\ o \in Rng(r)
  BY Zenon, <1>0, <1>1, <1>2, TailOnce
<1>5. review_epoch[o] # 0
  <2>1. o \in Listed(c)
    BY Zenon, <1>4 DEF Listed, r
  <2> QED
    BY Zenon, <2>1 DEF LinkInv
<1> QED
  BY Zenon, <1>1, <1>2, <1>3, <1>4, <1>5 DEF r

\* A new element at the end of a list without repetitions.
LEMMA AppendOnce ==
    ASSUME NEW S, NEW s \in Seq(S), NEW x \in S
    PROVE  /\ Append(s, x) \in Seq(S)
           /\ Rng(Append(s, x)) = Rng(s) \cup {x}
           /\ Once(s) /\ x \notin Rng(s) => Once(Append(s, x))
<1> DEFINE t == Append(s, x)
<1>1. /\ t \in Seq(S) /\ Len(s) \in Nat /\ Len(t) = Len(s) + 1
      /\ \A i \in 1 .. Len(s) : t[i] = s[i]
      /\ t[Len(s) + 1] = x
  OBVIOUS
<1> HIDE DEF t
<1>2. Rng(t) = Rng(s) \cup {x}
  BY <1>1 DEF Rng
<1>3. Once(s) /\ x \notin Rng(s) => Once(t)
  BY <1>1 DEF Once, Rng
<1> QED
  BY Zenon, <1>1, <1>2, <1>3 DEF t

\* Both parts of a list without repetitions are such lists, and disjoint.
LEMMA CutOnce ==
    ASSUME NEW S, NEW s \in Seq(S), NEW n \in 0 .. Len(s), NEW re, Once(s)
    PROVE  LET a == SubSeq(s, 1, n)
               b == SubSeq(s, n + 1, Len(s))
           IN  /\ a \in Seq(S) /\ b \in Seq(S) /\ Once(a) /\ Once(b)
               /\ Rng(a) \cup Rng(b) = Rng(s) /\ Rng(a) \cap Rng(b) = {}
               /\ Len(a) = n
               /\ \A x \in Rng(a) : \E i \in 1 .. n : x = s[i]
               /\ \A x \in Rng(b) : \E i \in n + 1 .. Len(s) : x = s[i]
               /\ Asc(s, re) => Asc(b, re)
<1> DEFINE a == SubSeq(s, 1, n)
           b == SubSeq(s, n + 1, Len(s))
<1>0. Len(s) \in Nat /\ n \in Nat /\ n <= Len(s) /\ \A i \in 1 .. Len(s) : s[i] \in S
  OBVIOUS
<1>1. /\ Len(a) = n /\ \A i \in 1 .. n : a[i] = s[i]
  BY <1>0
<1>2. /\ Len(b) = Len(s) - n /\ \A i \in 1 .. Len(s) - n : b[i] = s[i + n]
  BY <1>0
<1>3. a \in Seq(S)
  BY <1>0
<1>4. b \in Seq(S)
  BY <1>0
<1> HIDE DEF a, b
<1>5. Once(a)
  BY <1>0, <1>1 DEF Once
<1>12. Once(b)
  <2> SUFFICES ASSUME NEW i \in 1 .. Len(s) - n, NEW j \in 1 .. Len(s) - n, b[i] = b[j]
               PROVE  i = j
    BY Zenon, <1>2 DEF Once
  <2>1. i + n \in 1 .. Len(s) /\ j + n \in 1 .. Len(s) /\ s[i + n] = s[j + n]
    BY <1>0, <1>2
  <2>2. i + n = j + n
    BY Zenon, <2>1 DEF Once
  <2> QED
    BY <1>0, <2>2
<1>6. \A x \in Rng(a) : \E i \in 1 .. n : x = s[i]
  BY Zenon, <1>0, <1>1 DEF Rng
<1>7. ASSUME NEW x \in Rng(b) PROVE \E i \in n + 1 .. Len(s) : x = s[i]
  <2>1. PICK j \in 1 .. Len(s) - n : x = b[j]
    BY Zenon, <1>2 DEF Rng
  <2>2. j + n \in n + 1 .. Len(s) /\ x = s[j + n]
    BY <1>0, <1>2, <2>1
  <2> QED
    BY Zenon, <2>2
<1>8. Rng(a) \cap Rng(b) = {}
  <2> SUFFICES ASSUME NEW x \in Rng(a), x \in Rng(b) PROVE FALSE
    BY Zenon
  <2>1. PICK i \in 1 .. n : x = s[i]
    BY Zenon, <1>6
  <2>2. PICK j \in n + 1 .. Len(s) : x = s[j]
    BY Zenon, <1>7
  <2>3. i \in 1 .. Len(s) /\ j \in 1 .. Len(s) /\ s[i] = s[j] /\ i # j
    BY <1>0, <2>1, <2>2
  <2> QED
    BY Zenon, <2>3 DEF Once
<1>9. Rng(s) \subseteq Rng(a) \cup Rng(b)
  <2> SUFFICES ASSUME NEW x \in Rng(s) PROVE x \in Rng(a) \/ x \in Rng(b)
    BY Zenon
  <2>1. PICK i \in 1 .. Len(s) : x = s[i]
    BY Zenon DEF Rng
  <2>2. CASE i <= n
    BY <1>0, <1>1, <2>1, <2>2 DEF Rng
  <2>3. CASE i > n
    <3>1. i - n \in 1 .. Len(b) /\ b[i - n] = x
      BY <1>0, <1>2, <2>1, <2>3
    <3> QED
      BY Zenon, <3>1 DEF Rng
  <2> QED
    BY <1>0, <2>2, <2>3
<1>10. Rng(a) \cup Rng(b) \subseteq Rng(s)
  <2>1. \A i \in 1 .. n : i \in 1 .. Len(s)
    BY <1>0
  <2>2. \A i \in n + 1 .. Len(s) : i \in 1 .. Len(s)
    BY <1>0
  <2>3. \A i \in 1 .. Len(s) : s[i] \in Rng(s)
    BY Zenon DEF Rng
  <2> QED
    BY Zenon, <1>6, <1>7, <2>1, <2>2, <2>3
<1>11. ASSUME Asc(s, re) PROVE Asc(b, re)
  <2> SUFFICES ASSUME NEW i \in 1 .. Len(s) - n, NEW j \in 1 .. Len(s) - n, i <= j
               PROVE  re[b[i]] <= re[b[j]]
    BY Zenon, <1>2 DEF Asc
  <2>1. i + n \in 1 .. Len(s) /\ j + n \in 1 .. Len(s) /\ i + n <= j + n
    BY <1>0
  <2>2. re[s[i + n]] <= re[s[j + n]]
    BY Zenon, <1>11, <2>1 DEF Asc
  <2>3. b[i] = s[i + n] /\ b[j] = s[j + n]
    BY Zenon, <1>2
  <2> QED
    BY Zenon, <2>2, <2>3
<1> QED
  BY ZenonT(60), <1>1, <1>3, <1>4, <1>5, <1>6, <1>7, <1>8, <1>9, <1>10, <1>11, <1>12 DEF a, b

\* An ordered list stays ordered when the largest element is appended.
LEMMA AscAppend ==
    ASSUME NEW s \in Seq(Objs), NEW re \in [Objs -> Nat], NEW v \in Objs, NEW e \in Nat,
           Asc(s, re), v \notin Rng(s), \A x \in Rng(s) : re[x] <= e
    PROVE  Asc(Append(s, v), [re EXCEPT ![v] = e])
<1> DEFINE t == Append(s, v)
           f == [re EXCEPT ![v] = e]
<1>1. /\ Len(s) \in Nat /\ Len(t) = Len(s) + 1
      /\ \A i \in 1 .. Len(s) : t[i] = s[i] /\ s[i] \in Objs /\ s[i] \in Rng(s)
      /\ t[Len(s) + 1] = v
  BY DEF Rng
<1>2. f[v] = e /\ \A x \in Objs : x # v => f[x] = re[x]
  BY Zenon
<1> HIDE DEF t, f
<1> SUFFICES ASSUME NEW i \in 1 .. Len(t), NEW j \in 1 .. Len(t), i <= j
             PROVE  f[t[i]] <= f[t[j]]
  BY Zenon DEF Asc, t, f
<1>3. CASE j <= Len(s)
  <2>1. i \in 1 .. Len(s) /\ j \in 1 .. Len(s)
    BY <1>1, <1>3
  <2>2. re[s[i]] <= re[s[j]]
    BY Zenon, <2>1 DEF Asc
  <2>3. /\ t[i] = s[i] /\ t[j] = s[j] /\ s[i] # v /\ s[j] # v
        /\ s[i] \in Objs /\ s[j] \in Objs
    BY Zenon, <1>1, <2>1
  <2> QED
    BY Zenon, <1>2, <2>2, <2>3
<1>4. CASE j = Len(s) + 1 /\ i <= Len(s)
  <2>1. i \in 1 .. Len(s) /\ t[j] = v
    BY <1>1, <1>4
  <2>2. t[i] = s[i] /\ s[i] # v /\ s[i] \in Objs /\ s[i] \in Rng(s)
    BY Zenon, <1>1, <2>1
  <2>3. re[s[i]] <= e
    BY Zenon, <2>2
  <2> QED
    BY Zenon, <1>2, <2>1, <2>2, <2>3
<1>5. CASE j = Len(s) + 1 /\ i = j
  BY <1>1, <1>2, <1>5
<1> QED
  BY <1>1, <1>3, <1>4, <1>5

\* The order of a list depends only on the epochs of its elements.
LEMMA AscFrame ==
    ASSUME NEW s, NEW re, NEW f, Asc(s, re), \A x \in Rng(s) : f[x] = re[x]
    PROVE  Asc(s, f)
BY Zenon DEF Asc, Rng

\* A step that leaves a core's lists and what they hold alone.
LEMMA WindowFrame ==
    ASSUME NEW d, Window(d), review_'[d] = review_[d], reviewable'[d] = reviewable[d],
           pc'[d] = pc[d], local_epoch'[d] = local_epoch[d], epoch'[d] = epoch[d],
           epoch[d] \in Nat, global_epoch \in Nat, global_epoch' \in Nat,
           global_epoch' >= global_epoch,
           \A x \in Rng(review_[d]) \cup Rng(reviewable[d]) : review_epoch'[x] = review_epoch[x]
    PROVE  Window(d)'
<1> DEFINE all == {review_epoch[x] : x \in Rng(review_[d])}
           now == local_epoch[d]
<1>1. {review_epoch'[x] : x \in Rng(review_'[d])} = all
  BY Zenon
<1>2. \A x \in Rng(reviewable'[d]) : review_epoch'[x] = review_epoch[x]
  BY Zenon
<1>3. epoch[d] <= global_epoch => epoch[d] <= global_epoch'
  OBVIOUS
<1>4. /\ \A e \in all : e <= now + 3
      /\ pc[d] \in {"run", "get"} => \A e \in all : e > now
      /\ pc[d] = "flush" => \A e \in all : e <= now + 2
      /\ pc[d] = "flushed" => (\A e \in all : e <= now + 2) \/ (\A e \in all : e > now)
      /\ pc[d] = "review" => /\ \A e \in all : epoch[d] < e /\ e <= epoch[d] + 2
                             /\ epoch[d] \in {now, now + 1}
                             /\ epoch[d] <= global_epoch
      /\ \A x \in Rng(reviewable[d]) : review_epoch[x] <= epoch[d]
  BY Zenon DEF Window
<1> HIDE DEF all
<1> QED
  BY Zenon, <1>1, <1>2, <1>3, <1>4 DEF Window

\* A step of core c, which turns its lists into A and B.
LEMMA ListStep ==
    ASSUME TypeOK, TypeOK', LinkInv, OrderInv, NEW c \in Cores, NEW A, NEW B,
           review_' = [review_ EXCEPT ![c] = A],
           reviewable' = [reviewable EXCEPT ![c] = B],
           Once(A), Once(B), Rng(A) \cap Rng(B) = {},
           \A x \in (Rng(A) \cup Rng(B)) \ Listed(c) : review_epoch[x] = 0,
           \A x \in Objs : IF x \in Rng(A) \cup Rng(B) \cup Listed(c)
                           THEN review_epoch'[x] # 0 <=> x \in Rng(A) \cup Rng(B)
                           ELSE review_epoch'[x] = review_epoch[x],
           \A d \in Cores \ {c} : /\ pc'[d] = pc[d] /\ local_epoch'[d] = local_epoch[d]
                                  /\ epoch'[d] = epoch[d],
           global_epoch' >= global_epoch,
           Asc(A, review_epoch'), Window(c)'
    PROVE  LinkInv' /\ OrderInv'
<1> DEFINE L == Rng(A) \cup Rng(B)
<1>1. /\ review_'[c] = A /\ reviewable'[c] = B
      /\ \A d \in Cores \ {c} : review_'[d] = review_[d] /\ reviewable'[d] = reviewable[d]
  BY ZenonT(60) DEF TypeOK
<1>2. Listed(c)' = L /\ \A d \in Cores \ {c} : Listed(d)' = Listed(d)
  BY Zenon, <1>1 DEF Listed
<1>3. \A d \in Cores : Listed(d) \subseteq Objs
  <2> SUFFICES ASSUME NEW d \in Cores PROVE Listed(d) \subseteq Objs
    BY Zenon
  <2>1. review_[d] \in Seq(Objs) /\ reviewable[d] \in Seq(Objs)
    BY Zenon DEF TypeOK
  <2> QED
    BY <2>1 DEF Listed, Rng
<1>4. ASSUME NEW d \in Cores \ {c}, NEW x \in Listed(d)
      PROVE  x \in Objs /\ x \notin L /\ x \notin Listed(c) /\ review_epoch'[x] = review_epoch[x]
  <2>1. x \in Objs /\ review_epoch[x] # 0 /\ x \notin Listed(c)
    BY Zenon, <1>3 DEF LinkInv
  <2> QED
    BY Zenon, <2>1
<1>5. \A e \in Cores : /\ Once(review_'[e]) /\ Once(reviewable'[e])
                       /\ Rng(review_'[e]) \cap Rng(reviewable'[e]) = {}
  BY ZenonT(60), <1>1 DEF LinkInv
<1>6. ASSUME NEW d \in Cores, NEW e \in Cores, d # e
      PROVE  Listed(d)' \cap Listed(e)' = {}
  <2>1. CASE d = c
    BY <1>2, <1>4, <1>6, <2>1
  <2>2. CASE e = c
    BY <1>2, <1>4, <1>6, <2>2
  <2>3. CASE d # c /\ e # c
    BY <1>2, <1>6, <2>3 DEF LinkInv
  <2> QED
    BY Zenon, <2>1, <2>2, <2>3
<1>7. ASSUME NEW x \in Objs
      PROVE  review_epoch'[x] # 0 <=> \E d \in Cores : x \in Listed(d)'
  <2>1. CASE x \in L
    BY Zenon, <1>2, <2>1
  <2>2. CASE x \in Listed(c) /\ x \notin L
    <3>1. review_epoch'[x] = 0
      BY Zenon, <2>2
    <3>2. \A d \in Cores \ {c} : x \notin Listed(d)
      BY Zenon, <2>2 DEF LinkInv
    <3> QED
      BY ZenonT(60), <1>2, <2>2, <3>1, <3>2
  <2>3. CASE x \notin Listed(c) /\ x \notin L
    <3>1. review_epoch'[x] = review_epoch[x]
      BY Zenon, <2>3
    <3>2. review_epoch[x] # 0 <=> \E d \in Cores : x \in Listed(d)
      BY Zenon DEF LinkInv
    <3> QED
      BY ZenonT(60), <1>2, <2>3, <3>1, <3>2
  <2> QED
    BY Zenon, <2>1, <2>2, <2>3
<1>8. LinkInv'
  BY Zenon, <1>5, <1>6, <1>7 DEF LinkInv
<1>9. ASSUME NEW d \in Cores \ {c} PROVE Asc(review_'[d], review_epoch') /\ Window(d)'
  <2>0. Asc(review_[d], review_epoch) /\ Window(d)
    BY Zenon DEF OrderInv
  <2>1. \A x \in Rng(review_[d]) \cup Rng(reviewable[d]) : review_epoch'[x] = review_epoch[x]
    BY Zenon, <1>4 DEF Listed
  <2>2. Asc(review_'[d], review_epoch')
    BY <1>1, <2>0, <2>1, AscFrame
  <2>3. /\ review_'[d] = review_[d] /\ reviewable'[d] = reviewable[d]
        /\ pc'[d] = pc[d] /\ local_epoch'[d] = local_epoch[d] /\ epoch'[d] = epoch[d]
    BY Zenon, <1>1
  <2>4. global_epoch \in Nat /\ global_epoch' \in Nat /\ epoch[d] \in Nat
    BY Zenon DEF TypeOK
  <2>5. Window(d)'
    BY Zenon, <2>0, <2>1, <2>3, <2>4, WindowFrame
  <2> QED
    BY Zenon, <2>2, <2>5
<1>10. OrderInv'
  BY Zenon, <1>1, <1>9 DEF OrderInv
<1> QED
  BY Zenon, <1>8, <1>10

\* A step that changes no list.
LEMMA ListFrame ==
    ASSUME TypeOK, TypeOK', LinkInv, OrderInv, NEW c \in Cores,
           UNCHANGED <<review_, reviewable, review_epoch>>,
           \A d \in Cores \ {c} : /\ pc'[d] = pc[d] /\ local_epoch'[d] = local_epoch[d]
                                  /\ epoch'[d] = epoch[d],
           global_epoch' >= global_epoch, Window(c)'
    PROVE  LinkInv' /\ OrderInv'
<1> DEFINE A == review_[c]
           B == reviewable[c]
<1>1. review_' = [review_ EXCEPT ![c] = A] /\ reviewable' = [reviewable EXCEPT ![c] = B]
  BY Zenon DEF TypeOK
<1>2. /\ Once(A) /\ Once(B) /\ Rng(A) \cap Rng(B) = {} /\ Listed(c) = Rng(A) \cup Rng(B)
  BY Zenon DEF LinkInv, Listed
<1>3. Asc(A, review_epoch')
  BY Zenon DEF OrderInv
<1>4. \A x \in Objs : x \in Listed(c) => review_epoch[x] # 0
  BY Zenon DEF LinkInv
<1>5. \A x \in Objs : IF x \in Rng(A) \cup Rng(B) \cup Listed(c)
                      THEN review_epoch'[x] # 0 <=> x \in Rng(A) \cup Rng(B)
                      ELSE review_epoch'[x] = review_epoch[x]
  BY Zenon, <1>2, <1>4
<1>6. \A x \in (Rng(A) \cup Rng(B)) \ Listed(c) : review_epoch[x] = 0
  BY Zenon, <1>2
<1> HIDE DEF A, B
<1> QED
  BY Zenon, <1>1, <1>2, <1>3, <1>5, <1>6, ListStep

\* evict gives an object that has no reviewer to core c (own).
LEMMA OwnLists ==
    ASSUME TypeOK, TypeOK', LinkInv, OrderInv, NEW c \in Cores, NEW v \in Objs, NEW n,
           Evicting(c, n), review_epoch[v] = 0, own(c, v, n)
    PROVE  LinkInv' /\ OrderInv'
<1> DEFINE A == Append(review_[c], v)
           B == reviewable[c]
           e == local_epoch[c] + n
           now == local_epoch[c]
<1>a. n \in Nat
  BY Zenon, EvictingFrame
<1>0. /\ review_[c] \in Seq(Objs) /\ now \in Nat /\ n \in Nat /\ e \in Nat
      /\ review_epoch \in [Objs -> Nat] /\ review_ \in [Cores -> Seq(Objs)]
      /\ reviewable \in [Cores -> Seq(Objs)] /\ B \in Seq(Objs)
  BY <1>a, CoreTypes
<1>1. v \notin Listed(c)
  BY Zenon DEF LinkInv
<1>2. Once(review_[c]) /\ Once(B) /\ Rng(review_[c]) \cap Rng(B) = {}
  BY Zenon DEF LinkInv
<1>3. Rng(A) = Rng(review_[c]) \cup {v} /\ Once(A)
  BY <1>0, <1>1, <1>2, AppendOnce DEF Listed
<1>4. /\ review_' = [review_ EXCEPT ![c] = A]
      /\ review_epoch' = [review_epoch EXCEPT ![v] = e]
  BY Zenon DEF own
<1>5. reviewable' = [reviewable EXCEPT ![c] = B]
  BY Zenon, <1>0, EvictingFrame
<1>6. Window(c) /\ Asc(review_[c], review_epoch)
  BY Zenon DEF OrderInv
<1>7. \A x \in Rng(review_[c]) : review_epoch[x] \in Nat /\ x \in Objs
  BY <1>0 DEF Rng
<1>8. \/ /\ n = 2 /\ pc'[c] = "flush"
         /\ \A x \in Rng(review_[c]) : review_epoch[x] <= now + 2
      \/ /\ n = 3 /\ pc'[c] = "run"
         /\ \A x \in Rng(review_[c]) : review_epoch[x] <= now + 3 /\ review_epoch[x] > now
  BY <1>6, EvictingFrame DEF Window
<1>9. \A x \in Rng(review_[c]) : review_epoch[x] <= e
  BY Zenon, <1>0, <1>7, <1>8
<1>10. Asc(A, review_epoch')
  <2>1. v \notin Rng(review_[c])
    BY Zenon, <1>1 DEF Listed
  <2> QED
    BY Zenon, <1>0, <1>4, <1>6, <1>9, <2>1, AscAppend
<1>11. e # 0
  BY <1>0, <1>8
<1>12. /\ review_epoch'[v] = e
       /\ \A x \in Objs : x # v => review_epoch'[x] = review_epoch[x]
  BY Zenon, <1>0, <1>4
<1>13. review_'[c] = A /\ reviewable'[c] = B
  BY Zenon, <1>0, <1>4, <1>5
<1>14. \A x \in Rng(B) : review_epoch'[x] <= epoch[c]
  <2>1. \A x \in Rng(B) : x \in Objs /\ x # v
    BY <1>0, <1>1 DEF Listed, Rng
  <2>2. \A x \in Rng(B) : review_epoch[x] <= epoch[c]
    BY Zenon, <1>6 DEF Window
  <2> QED
    BY Zenon, <1>12, <2>1, <2>2
<1>15. Window(c)'
  <2>1. \A x \in Rng(A) : x = v \/ (x \in Rng(review_[c]) /\ review_epoch'[x] = review_epoch[x])
    BY Zenon, <1>3, <1>7, <1>12
  <2>2. local_epoch'[c] = now /\ epoch'[c] = epoch[c]
    BY Zenon, EvictingFrame
  <2>3. CASE n = 2 /\ pc'[c] = "flush"
    <3>0. review_epoch'[v] = now + 2 /\ now \in Nat
      BY Zenon, <1>0, <1>12, <2>3
    <3>1. ASSUME NEW x \in Rng(A)
          PROVE  review_epoch'[x] <= now + 2 /\ review_epoch'[x] <= now + 3
      <4>1. CASE x = v
        BY <3>0, <4>1
      <4>2. CASE x \in Rng(review_[c]) /\ review_epoch'[x] = review_epoch[x]
        <5>1. review_epoch[x] \in Nat /\ review_epoch[x] <= now + 2
          BY Zenon, <1>7, <1>8, <2>3, <4>2
        <5> QED
          BY <3>0, <4>2, <5>1
      <4> QED
        BY Zenon, <2>1, <4>1, <4>2
    <3> QED
      BY Zenon, <1>13, <1>14, <2>2, <2>3, <3>1 DEF Window
  <2>4. CASE n = 3 /\ pc'[c] = "run"
    <3>0. review_epoch'[v] = now + 3 /\ now \in Nat
      BY Zenon, <1>0, <1>12, <2>4
    <3>1. ASSUME NEW x \in Rng(A)
          PROVE  review_epoch'[x] > now /\ review_epoch'[x] <= now + 3
      <4>1. CASE x = v
        BY <3>0, <4>1
      <4>2. CASE x \in Rng(review_[c]) /\ review_epoch'[x] = review_epoch[x]
        BY Zenon, <1>8, <2>4, <4>2
      <4> QED
        BY Zenon, <2>1, <4>1, <4>2
    <3> QED
      BY Zenon, <1>13, <1>14, <2>2, <2>4, <3>1 DEF Window
  <2> QED
    BY Zenon, <1>8, <2>3, <2>4
<1>16. /\ Rng(A) \cap Rng(B) = {}
       /\ \A x \in (Rng(A) \cup Rng(B)) \ Listed(c) : review_epoch[x] = 0
  BY Zenon, <1>1, <1>2, <1>3 DEF Listed
<1>17. \A x \in Objs : IF x \in Rng(A) \cup Rng(B) \cup Listed(c)
                       THEN review_epoch'[x] # 0 <=> x \in Rng(A) \cup Rng(B)
                       ELSE review_epoch'[x] = review_epoch[x]
  <2>1. \A x \in Objs : x \in Listed(c) => review_epoch[x] # 0
    BY Zenon DEF LinkInv
  <2>2. Rng(A) \cup Rng(B) = Listed(c) \cup {v}
    BY Zenon, <1>3 DEF Listed
  <2> QED
    BY Zenon, <1>1, <1>11, <1>12, <2>1, <2>2
<1> HIDE DEF A, B
<1> QED
  BY Zenon, <1>2, <1>3, <1>4, <1>5, <1>10, <1>15, <1>16, <1>17, EvictingFrame, ListStep

\* evict leaves the review lists alone.
LEMMA QuietLists ==
    ASSUME TypeOK, TypeOK', LinkInv, OrderInv, NEW c \in Cores, NEW n,
           Evicting(c, n), UNCHANGED <<review_epoch, review_>>
    PROVE  LinkInv' /\ OrderInv'
<1>1. Window(c)
  BY Zenon DEF OrderInv
<1>2. Window(c)'
  BY <1>1, EvictingFrame DEF Window
<1>3. UNCHANGED <<review_, reviewable, review_epoch>>
  BY Zenon, EvictingFrame
<1> QED
  BY Zenon, <1>2, <1>3, EvictingFrame, ListFrame

\* Whatever evict does, the review lists stay in order.
LEMMA EvictLists ==
    ASSUME TypeOK, TypeOK', LinkInv, OrderInv, NEW c \in Cores, NEW v \in Objs, NEW n,
           Evicting(c, n), Evicted(c, v, n)
    PROVE  LinkInv' /\ OrderInv'
<1>1. CASE review_epoch[v] = 0 /\ own(c, v, n)
  BY Zenon, <1>1, OwnLists
<1>2. CASE UNCHANGED <<review_epoch, review_>>
  BY Zenon, <1>2, QuietLists
<1> QED
  BY Zenon, <1>1, <1>2 DEF Evicted, mark_dirty

\* inc, dec and the second half of weakref::get.
LEMMA OperationLists ==
    ASSUME TypeOK, TypeOK', CacheInv, LinkInv, OrderInv, NEW c \in Cores, NEW o \in Objs,
           NEW d \in {1, -1}, get_way(c, o, d), Evicting(c, 3)
    PROVE  LinkInv' /\ OrderInv'
<1>1. \/ Cached(c, o, d)
      \/ \E v \in Objs : Replaced(c, o, d, v)
      \/ Refreshed(c, o, d)
  BY Zenon, GetWayCases
<1>2. CASE Cached(c, o, d)
  BY Zenon, <1>2, QuietLists DEF Cached, objVars
<1>3. ASSUME NEW v \in Objs, Replaced(c, o, d, v) PROVE LinkInv' /\ OrderInv'
  BY Zenon, <1>3, EvictLists DEF Replaced
<1>4. CASE Refreshed(c, o, d)
  BY Zenon, <1>4, EvictLists DEF Refreshed
<1> QED
  BY Zenon, <1>1, <1>2, <1>3, <1>4

\* tick: the list of a core that joins the epoch ends within the next two.
LEMMA TickLists ==
    ASSUME TypeOK, TypeOK', BarrierInv, LinkInv, OrderInv, NEW c \in Cores, tick(c)
    PROVE  LinkInv' /\ OrderInv'
<1>0. /\ pc \in [Cores -> {"run", "get", "flush", "flushed", "review"}]
      /\ local_epoch \in [Cores -> Nat] /\ global_epoch \in Nat /\ local_epoch[c] \in Nat
      /\ review_[c] \in Seq(Objs) /\ review_epoch \in [Objs -> Nat]
  BY Zenon DEF TypeOK
<1>1. /\ UNCHANGED <<review_, reviewable, review_epoch>> /\ epoch' = epoch
      /\ global_epoch' = global_epoch
  BY Zenon DEF tick, objVars, listVars
<1>2. \A d \in Cores \ {c} : /\ pc'[d] = pc[d] /\ local_epoch'[d] = local_epoch[d]
                             /\ epoch'[d] = epoch[d]
  BY Zenon, <1>0, <1>1 DEF tick
<1>3. Window(c) /\ pc[c] = "run"
  BY Zenon DEF OrderInv, tick
<1>4. \A x \in Rng(review_[c]) : review_epoch[x] \in Nat
  BY <1>0 DEF Rng
<1>e. global_epoch' >= global_epoch
  BY <1>0, <1>1
<1>5. CASE local_epoch[c] = global_epoch
  <2>1. pc'[c] = "flushed" /\ local_epoch'[c] = local_epoch[c]
    BY Zenon, <1>0, <1>5 DEF tick
  <2>2. Window(c)'
    BY Zenon, <1>1, <1>3, <2>1 DEF Window
  <2> QED
    BY Zenon, <1>1, <1>2, <1>e, <2>2, ListFrame
<1>6. CASE local_epoch[c] # global_epoch
  <2>1. pc'[c] = "flush" /\ local_epoch'[c] = global_epoch
    BY Zenon, <1>0, <1>6 DEF tick
  <2>2. global_epoch = local_epoch[c] + 1
    BY <1>0, <1>6 DEF BarrierInv, EpochBarrier
  <2>3. \A x \in Rng(review_[c]) : review_epoch[x] <= local_epoch[c] + 3
    BY Zenon, <1>3 DEF Window
  <2>4. \A x \in Rng(review_[c]) : /\ review_epoch[x] <= global_epoch + 2
                                   /\ review_epoch[x] <= global_epoch + 3
    BY <1>0, <1>4, <2>2, <2>3
  <2>5. Window(c)'
    BY ZenonT(60), <1>1, <1>3, <2>1, <2>4 DEF Window
  <2> QED
    BY Zenon, <1>1, <1>2, <1>e, <2>5, ListFrame
<1> QED
  BY Zenon, <1>5, <1>6

\* The steps that change neither the lists nor the epochs of any core.
LEMMA OtherLists ==
    ASSUME TypeOK, TypeOK', BarrierInv, LinkInv, OrderInv, NEW c \in Cores, NEW o \in Objs,
           make_weakref(c, o) \/ get_revive(c, o) \/ flush_end(c) \/ reaper(c)
    PROVE  LinkInv' /\ OrderInv'
<1>0. /\ pc \in [Cores -> {"run", "get", "flush", "flushed", "review"}]
      /\ global_epoch \in Nat
  BY Zenon DEF TypeOK
<1>1. /\ UNCHANGED <<review_, reviewable, review_epoch>> /\ epoch' = epoch
      /\ local_epoch' = local_epoch /\ global_epoch' \in {global_epoch, global_epoch + 1}
  <2>1. CASE make_weakref(c, o)
    BY Zenon, <2>1 DEF make_weakref, listVars, coreVars, epochVars
  <2>2. CASE get_revive(c, o)
    BY Zenon, <2>2 DEF get_revive, listVars, epochVars
  <2>3. CASE flush_end(c)
    BY Zenon, <2>3 DEF flush_end, objVars, listVars
  <2>4. CASE reaper(c)
    BY Zenon, <2>4 DEF reaper, objVars, coreVars, epochVars
  <2> QED
    BY Zenon, <2>1, <2>2, <2>3, <2>4
<1>2. \/ pc' = pc
      \/ pc[c] = "run" /\ pc' = [pc EXCEPT ![c] = "get"]
      \/ pc[c] = "flush" /\ pc' = [pc EXCEPT ![c] = "flushed"]
  BY Zenon DEF make_weakref, get_revive, flush_end, reaper, coreVars
<1>3. \/ pc'[c] = pc[c]
      \/ pc[c] = "run" /\ pc'[c] = "get"
      \/ pc[c] = "flush" /\ pc'[c] = "flushed"
  BY Zenon, <1>0, <1>2
<1>4. \A d \in Cores \ {c} : /\ pc'[d] = pc[d] /\ local_epoch'[d] = local_epoch[d]
                             /\ epoch'[d] = epoch[d]
  BY Zenon, <1>0, <1>1, <1>2
<1>5. Window(c)
  BY ZenonT(60) DEF OrderInv
<1>6. pc'[c] = "review" => epoch[c] <= global_epoch'
  <2>1. epoch[c] \in Nat
    BY Zenon DEF TypeOK
  <2> QED
    BY <1>0, <1>1, <1>3, <1>5, <2>1 DEF Window
<1>7. Window(c)'
  BY Zenon, <1>1, <1>3, <1>5, <1>6 DEF Window
<1> QED
  BY <1>0, <1>1, <1>4, <1>7, ListFrame

-----------------------------------------------------------------------------
\* review: what it leaves on the list is beyond the epoch it has read.
LEMMA ReviewLists ==
    ASSUME TypeOK, TypeOK', BarrierInv, Cutoffs, Reviews, LinkInv, OrderInv,
           NEW c \in Cores, review(c)
    PROVE  LinkInv' /\ OrderInv'
<1> DEFINE l == review_[c]
           n == cutoff(l, global_epoch)
           A == SubSeq(l, n + 1, Len(l))
           B == SubSeq(l, 1, n)
<1>0. /\ l \in Seq(Objs) /\ global_epoch \in Nat /\ review_epoch \in [Objs -> Nat]
      /\ Len(l) \in Nat /\ local_epoch[c] \in Nat
      /\ pc \in [Cores -> {"run", "get", "flush", "flushed", "review"}]
      /\ epoch \in [Cores -> Nat]
  BY Zenon, CoreTypes
<1>1. /\ n \in 0 .. Len(l)
      /\ \A i \in 1 .. n : review_epoch[l[i]] <= global_epoch
      /\ n < Len(l) => review_epoch[l[n + 1]] > global_epoch
  BY Zenon DEF Cutoffs
<1>2. /\ pc[c] = "flushed"
      /\ epoch' = [epoch EXCEPT ![c] = global_epoch]
      /\ reviewable' = [reviewable EXCEPT ![c] = B]
      /\ review_' = [review_ EXCEPT ![c] = A]
      /\ pc' = [pc EXCEPT ![c] = IF n = 0 THEN "run" ELSE "review"]
      /\ UNCHANGED <<review_epoch, local_epoch, global_epoch>>
  BY Zenon DEF review, objVars, epochVars
<1> HIDE DEF n
<1>3. Once(l) /\ Asc(l, review_epoch) /\ Window(c) /\ Len(reviewable[c]) = 0
  BY Zenon, <1>2 DEF LinkInv, OrderInv, Reviews
<1> HIDE DEF l
<1>4. /\ A \in Seq(Objs) /\ B \in Seq(Objs) /\ Once(A) /\ Once(B)
      /\ Rng(A) \cup Rng(B) = Rng(l) /\ Rng(A) \cap Rng(B) = {}
      /\ \A x \in Rng(B) : \E i \in 1 .. n : x = l[i]
      /\ \A x \in Rng(A) : \E i \in n + 1 .. Len(l) : x = l[i]
      /\ Asc(A, review_epoch)
  BY <1>0, <1>1, <1>3, CutOnce
<1> HIDE DEF A, B
<1>5. \A x \in Rng(B) : review_epoch[x] <= global_epoch
  BY Zenon, <1>1, <1>4
<1>6. ASSUME NEW x \in Rng(A) PROVE review_epoch[x] > global_epoch
  <2>1. PICK i \in n + 1 .. Len(l) : x = l[i]
    BY Zenon, <1>4
  <2>2. n \in Nat /\ n + 1 \in 1 .. Len(l) /\ i \in 1 .. Len(l) /\ n + 1 <= i /\ n < Len(l)
    BY <1>0, <1>1, <2>1
  <2>3. review_epoch[l[n + 1]] <= review_epoch[l[i]]
    BY Zenon, <1>3, <2>2 DEF Asc
  <2>4. review_epoch[l[n + 1]] \in Nat /\ review_epoch[l[i]] \in Nat
    BY <1>0, <2>2
  <2> QED
    BY <1>0, <1>1, <2>1, <2>2, <2>3, <2>4
<1>7. \A x \in Rng(l) : review_epoch[x] \in Nat /\ review_epoch[x] <= local_epoch[c] + 3
  <2>1. \A x \in Rng(l) : review_epoch[x] \in Nat
    BY <1>0 DEF Rng
  <2> QED
    BY Zenon, <1>3, <2>1 DEF Window, l
<1>8. local_epoch[c] <= global_epoch
  <2>1. local_epoch[c] \in {global_epoch - 1, global_epoch}
    BY Zenon DEF BarrierInv, EpochBarrier
  <2> QED
    BY <1>0, <2>1
<1>9. n # 0 => \A x \in Rng(A) : review_epoch[x] <= global_epoch + 2
  <2> SUFFICES ASSUME n # 0, NEW x \in Rng(A) PROVE review_epoch[x] <= global_epoch + 2
    BY Zenon
  <2>1. \/ \A y \in Rng(l) : review_epoch[y] <= local_epoch[c] + 2
        \/ \A y \in Rng(l) : review_epoch[y] > local_epoch[c]
    BY Zenon, <1>2, <1>3 DEF Window, l
  <2>2. x \in Rng(l) /\ review_epoch[x] \in Nat /\ review_epoch[x] <= local_epoch[c] + 3
    BY Zenon, <1>4, <1>7
  <2>3. CASE \A y \in Rng(l) : review_epoch[y] <= local_epoch[c] + 2
    BY <1>0, <1>8, <2>2, <2>3
  <2>4. CASE \A y \in Rng(l) : review_epoch[y] > local_epoch[c]
    <3>1. 1 \in 1 .. n /\ 1 \in 1 .. Len(l)
      BY <1>0, <1>1
    <3>2. l[1] \in Rng(l) /\ review_epoch[l[1]] <= global_epoch
      BY Zenon, <1>1, <3>1 DEF Rng
    <3>3. review_epoch[l[1]] \in Nat /\ review_epoch[l[1]] > local_epoch[c]
      BY Zenon, <1>7, <2>4, <3>2
    <3> QED
      BY <1>0, <2>2, <3>2, <3>3
  <2> QED
    BY Zenon, <2>1, <2>3, <2>4
<1>10. /\ review_'[c] = A /\ reviewable'[c] = B /\ epoch'[c] = global_epoch
       /\ local_epoch'[c] = local_epoch[c] /\ pc'[c] = IF n = 0 THEN "run" ELSE "review"
  <2>1. review_ \in [Cores -> Seq(Objs)] /\ reviewable \in [Cores -> Seq(Objs)]
    BY Zenon DEF TypeOK
  <2> QED
    BY Zenon, <1>0, <1>2, <2>1
<1>11. global_epoch \in {local_epoch[c], local_epoch[c] + 1}
  BY <1>0 DEF BarrierInv, EpochBarrier
<1>12. Window(c)'
  <2>1. \A x \in Rng(A) : /\ review_epoch[x] <= local_epoch[c] + 3
                          /\ review_epoch[x] > local_epoch[c]
    BY <1>0, <1>4, <1>6, <1>7, <1>8
  <2>2. CASE n = 0
    BY <1>2, <1>5, <1>10, <2>1, <2>2 DEF Window
  <2>3. CASE n # 0
    BY <1>0, <1>2, <1>5, <1>6, <1>9, <1>10, <1>11, <2>1, <2>3 DEF Window
  <2> QED
    BY Zenon, <2>2, <2>3
<1>13. Listed(c) = Rng(A) \cup Rng(B)
  <2>1. Rng(reviewable[c]) = {}
    BY <1>3 DEF Rng
  <2>2. Listed(c) = Rng(l)
    BY Zenon, <2>1 DEF Listed, l
  <2> QED
    BY Zenon, <1>4, <2>2
<1>14. \A x \in Objs : IF x \in Rng(A) \cup Rng(B) \cup Listed(c)
                       THEN review_epoch'[x] # 0 <=> x \in Rng(A) \cup Rng(B)
                       ELSE review_epoch'[x] = review_epoch[x]
  <2>1. \A x \in Objs : x \in Listed(c) => review_epoch[x] # 0
    BY Zenon DEF LinkInv
  <2> QED
    BY Zenon, <1>2, <1>13, <2>1
<1>15. \A d \in Cores \ {c} : /\ pc'[d] = pc[d] /\ local_epoch'[d] = local_epoch[d]
                              /\ epoch'[d] = epoch[d]
  BY Zenon, <1>0, <1>2
<1>16. \A x \in (Rng(A) \cup Rng(B)) \ Listed(c) : review_epoch[x] = 0
  BY Zenon, <1>13
<1>17. global_epoch' >= global_epoch /\ Asc(A, review_epoch')
  BY <1>0, <1>2, <1>4
<1> QED
  BY Zenon, <1>2, <1>4, <1>12, <1>14, <1>15, <1>16, <1>17, ListStep

\* An object that goes round again follows those the core has been given
\* since, which are due within two epochs of the one it reviews.
LEMMA RequeueLists ==
    ASSUME TypeOK, TypeOK', Reviews, LinkInv, OrderInv, NEW c \in Cores, NEW o \in Objs,
           review_requeue(c, o)
    PROVE  LinkInv' /\ OrderInv'
<1> DEFINE A == Append(review_[c], o)
           B == Tail(reviewable[c])
           e == epoch[c] + 2
<1>0. /\ review_[c] \in Seq(Objs) /\ review_epoch \in [Objs -> Nat] /\ epoch[c] \in Nat
      /\ local_epoch[c] \in Nat /\ review_ \in [Cores -> Seq(Objs)] /\ e \in Nat
      /\ reviewable \in [Cores -> Seq(Objs)] /\ global_epoch \in Nat
      /\ reviewable[c] \in Seq(Objs)
  BY CoreTypes
<1>1. /\ reviewable' = [reviewable EXCEPT ![c] = B]
      /\ B \in Seq(Objs) /\ Once(B) /\ Rng(B) = Rng(reviewable[c]) \ {o}
      /\ o \in Rng(reviewable[c]) /\ o \notin Rng(review_[c])
      /\ pc[c] = "review" /\ pc'[c] \in {"run", "review"}
      /\ local_epoch' = local_epoch /\ epoch' = epoch /\ global_epoch' = global_epoch
      /\ \A d \in Cores \ {c} : /\ pc'[d] = pc[d] /\ local_epoch'[d] = local_epoch[d]
                                /\ epoch'[d] = epoch[d]
  BY Zenon, RoundFrame DEF review_requeue
<1>2. review_' = [review_ EXCEPT ![c] = A] /\ review_epoch' = [review_epoch EXCEPT ![o] = e]
  BY Zenon DEF review_requeue
<1> HIDE DEF B
<1>3. /\ Once(review_[c]) /\ Rng(review_[c]) \cap Rng(reviewable[c]) = {}
      /\ Window(c) /\ Asc(review_[c], review_epoch)
  BY Zenon DEF LinkInv, OrderInv
<1>4. Rng(A) = Rng(review_[c]) \cup {o} /\ Once(A)
  BY <1>0, <1>1, <1>3, AppendOnce
<1>5. /\ \A x \in Rng(review_[c]) : epoch[c] < review_epoch[x] /\ review_epoch[x] <= e
      /\ epoch[c] \in {local_epoch[c], local_epoch[c] + 1} /\ epoch[c] <= global_epoch
      /\ \A x \in Rng(reviewable[c]) : review_epoch[x] <= epoch[c]
  BY Zenon, <1>1, <1>3 DEF Window
<1>6. Asc(A, review_epoch')
  BY Zenon, <1>0, <1>1, <1>2, <1>3, <1>5, AscAppend
<1> HIDE DEF A
<1>7. /\ review_epoch'[o] = e
      /\ \A x \in Objs : x # o => review_epoch'[x] = review_epoch[x]
  BY Zenon, <1>0, <1>2
<1>8. /\ review_'[c] = A /\ reviewable'[c] = B
      /\ local_epoch'[c] = local_epoch[c] /\ epoch'[c] = epoch[c]
  BY Zenon, <1>0, <1>1, <1>2
<1>9. \A x \in Rng(A) : /\ epoch[c] < review_epoch'[x] /\ review_epoch'[x] <= e
                        /\ review_epoch'[x] \in Nat
  <2>0. epoch[c] \in Nat /\ e = epoch[c] + 2
    BY Zenon, <1>0
  <2>1. \A x \in Rng(review_[c]) : x \in Objs /\ review_epoch[x] \in Nat
    BY <1>0 DEF Rng
  <2>2. \A x \in Rng(review_[c]) : x = o \/ review_epoch'[x] = review_epoch[x]
    BY Zenon, <1>7, <2>1
  <2>3. epoch[c] < review_epoch'[o] /\ review_epoch'[o] <= e /\ review_epoch'[o] \in Nat
    BY <1>7, <2>0
  <2> QED
    BY Zenon, <1>4, <1>5, <2>1, <2>2, <2>3
<1>10. \A x \in Rng(B) : review_epoch'[x] <= epoch[c]
  <2>1. \A x \in Rng(reviewable[c]) : x \in Objs
    BY <1>0 DEF Rng
  <2> QED
    BY Zenon, <1>1, <1>5, <1>7, <2>1
<1>11. Window(c)'
  <2>1. \A x \in Rng(A) : /\ review_epoch'[x] <= local_epoch[c] + 3
                          /\ review_epoch'[x] > local_epoch[c]
    <3>1. e <= local_epoch[c] + 3 /\ local_epoch[c] <= epoch[c]
      BY <1>0, <1>5
    <3> HIDE DEF e
    <3> QED
      BY <1>0, <1>9, <3>1
  <2> QED
    BY <1>1, <1>5, <1>8, <1>9, <1>10, <2>1 DEF Window
<1>12. /\ Rng(A) \cap Rng(B) = {} /\ Listed(c) = Rng(A) \cup Rng(B)
  BY Zenon, <1>1, <1>3, <1>4 DEF Listed
<1>13. \A x \in Objs : IF x \in Rng(A) \cup Rng(B) \cup Listed(c)
                       THEN review_epoch'[x] # 0 <=> x \in Rng(A) \cup Rng(B)
                       ELSE review_epoch'[x] = review_epoch[x]
  <2>1. \A x \in Objs : x \in Listed(c) => review_epoch[x] # 0
    BY Zenon DEF LinkInv
  <2>2. e # 0
    BY <1>0
  <2>3. o \in Listed(c)
    BY Zenon, <1>4, <1>12
  <2> QED
    BY Zenon, <1>7, <1>12, <2>1, <2>2, <2>3
<1>14. \A x \in (Rng(A) \cup Rng(B)) \ Listed(c) : review_epoch[x] = 0
  BY Zenon, <1>12
<1>15. global_epoch' >= global_epoch
  BY <1>0, <1>1
<1> HIDE DEF e
<1> QED
  BY Zenon, <1>1, <1>2, <1>4, <1>6, <1>11, <1>12, <1>13, <1>14, <1>15, ListStep

\* An object that leaves the list loses its review epoch.
LEMMA LeaveLists ==
    ASSUME TypeOK, TypeOK', Reviews, LinkInv, OrderInv, NEW c \in Cores, NEW o \in Objs,
           review_free(c, o) \/ review_disown(c, o)
    PROVE  LinkInv' /\ OrderInv'
<1> DEFINE A == review_[c]
           B == Tail(reviewable[c])
<1>0. /\ A \in Seq(Objs) /\ review_epoch \in [Objs -> Nat] /\ epoch[c] \in Nat
      /\ local_epoch[c] \in Nat /\ review_ \in [Cores -> Seq(Objs)]
      /\ reviewable \in [Cores -> Seq(Objs)] /\ global_epoch \in Nat
      /\ reviewable[c] \in Seq(Objs)
  BY Zenon, CoreTypes
<1>a. review_next(c, o)
  BY Zenon DEF review_free, review_disown
<1>1. /\ reviewable' = [reviewable EXCEPT ![c] = B]
      /\ B \in Seq(Objs) /\ Once(B) /\ Rng(B) = Rng(reviewable[c]) \ {o}
      /\ o \in Rng(reviewable[c]) /\ o \notin Rng(A)
      /\ pc[c] = "review" /\ pc'[c] \in {"run", "review"}
      /\ local_epoch' = local_epoch /\ epoch' = epoch /\ global_epoch' = global_epoch
      /\ \A d \in Cores \ {c} : /\ pc'[d] = pc[d] /\ local_epoch'[d] = local_epoch[d]
                                /\ epoch'[d] = epoch[d]
  BY Zenon, <1>a, RoundFrame
<1>2. review_' = [review_ EXCEPT ![c] = A] /\ review_epoch' = [review_epoch EXCEPT ![o] = 0]
  BY Zenon, <1>0 DEF review_free, review_disown
<1> HIDE DEF B
<1>3. /\ Once(A) /\ Rng(A) \cap Rng(reviewable[c]) = {} /\ Window(c) /\ Asc(A, review_epoch)
  BY Zenon DEF LinkInv, OrderInv
<1>5. /\ \A x \in Rng(A) : epoch[c] < review_epoch[x] /\ review_epoch[x] <= epoch[c] + 2
      /\ epoch[c] \in {local_epoch[c], local_epoch[c] + 1} /\ epoch[c] <= global_epoch
      /\ \A x \in Rng(reviewable[c]) : review_epoch[x] <= epoch[c]
  BY Zenon, <1>1, <1>3 DEF Window
<1> HIDE DEF A
<1>7. /\ review_epoch'[o] = 0
      /\ \A x \in Objs : x # o => review_epoch'[x] = review_epoch[x]
  BY Zenon, <1>0, <1>2
<1>8. /\ review_'[c] = A /\ reviewable'[c] = B
      /\ local_epoch'[c] = local_epoch[c] /\ epoch'[c] = epoch[c]
  BY Zenon, <1>0, <1>1, <1>2
<1>9. \A x \in Rng(A) : x \in Objs /\ review_epoch'[x] = review_epoch[x] /\ review_epoch[x] \in Nat
  <2>1. \A x \in Rng(A) : x \in Objs /\ review_epoch[x] \in Nat
    BY <1>0 DEF Rng
  <2> QED
    BY Zenon, <1>1, <1>7, <2>1
<1>6. Asc(A, review_epoch')
  BY Zenon, <1>3, <1>9, AscFrame
<1>10. \A x \in Rng(B) : review_epoch'[x] <= epoch[c]
  <2>1. \A x \in Rng(reviewable[c]) : x \in Objs
    BY <1>0 DEF Rng
  <2> QED
    BY Zenon, <1>1, <1>5, <1>7, <2>1
<1>11. Window(c)'
  <2>0. epoch[c] \in Nat /\ local_epoch[c] \in Nat
    BY Zenon, <1>0
  <2>1. ASSUME NEW x \in Rng(A)
        PROVE  /\ review_epoch'[x] <= local_epoch[c] + 3
               /\ review_epoch'[x] > local_epoch[c]
               /\ epoch[c] < review_epoch'[x] /\ review_epoch'[x] <= epoch[c] + 2
    <3>1. /\ review_epoch'[x] = review_epoch[x] /\ review_epoch[x] \in Nat
          /\ epoch[c] < review_epoch[x] /\ review_epoch[x] <= epoch[c] + 2
          /\ epoch[c] \in {local_epoch[c], local_epoch[c] + 1}
      BY Zenon, <1>5, <1>9
    <3> QED
      BY <2>0, <3>1
  <2> QED
    BY <1>1, <1>5, <1>8, <1>10, <2>1 DEF Window
<1>12. /\ Rng(A) \cap Rng(B) = {} /\ Listed(c) = Rng(A) \cup Rng(B) \cup {o}
       /\ o \notin Rng(A) \cup Rng(B)
  BY Zenon, <1>1, <1>3 DEF Listed, A
<1>13. \A x \in Objs : IF x \in Rng(A) \cup Rng(B) \cup Listed(c)
                       THEN review_epoch'[x] # 0 <=> x \in Rng(A) \cup Rng(B)
                       ELSE review_epoch'[x] = review_epoch[x]
  <2>1. \A x \in Objs : x \in Listed(c) => review_epoch[x] # 0
    BY Zenon DEF LinkInv
  <2> QED
    BY Zenon, <1>7, <1>12, <2>1
<1>14. \A x \in (Rng(A) \cup Rng(B)) \ Listed(c) : review_epoch[x] = 0
  BY Zenon, <1>12
<1>15. global_epoch' >= global_epoch
  BY <1>0, <1>1
<1> QED
  BY Zenon, <1>1, <1>2, <1>3, <1>6, <1>11, <1>12, <1>13, <1>14, <1>15, ListStep

\* When the global epoch has reached e, every core has flushed for e.
LEMMA ReachedPassed ==
    ASSUME TypeOK, BarrierInv, NEW c \in Cores, NEW e \in Nat, e <= global_epoch
    PROVE  Passed(c, e)
<1>1. local_epoch[c] \in Nat /\ global_epoch \in Nat
  BY Zenon DEF TypeOK
<1>2. local_epoch[c] \in {global_epoch - 1, global_epoch}
  BY Zenon DEF BarrierInv, EpochBarrier
<1>3. pc[c] = "flush" => local_epoch[c] = global_epoch
  BY Zenon DEF BarrierInv, FlushIsExact
<1> QED
  BY <1>1, <1>2, <1>3 DEF Passed

\* What evict leaves of v: a count that is not zero, a dirty object, or one
\* that every core flushes for before its review.
LEMMA EvictGrace ==
    ASSUME TypeOK, TypeOK', BarrierInv, NEW c \in Cores, NEW v \in Objs, NEW n,
           Evicting(c, n), Evicted(c, v, n)
    PROVE  Graced(v)'
<1>0. /\ local_epoch \in [Cores -> Nat] /\ global_epoch \in Nat
      /\ dirty \in [Objs -> BOOLEAN] /\ review_epoch \in [Objs -> Nat]
  BY Zenon DEF TypeOK
<1>1. CASE refcount'[v] # 0
  BY Zenon, <1>1 DEF Graced, Clean
<1>2. CASE mark_dirty(v)
  <2>1. dirty'[v]
    BY Zenon, <1>0, <1>2 DEF mark_dirty
  <2> QED
    BY Zenon, <2>1 DEF Graced, Clean
<1>3. CASE own(c, v, n)
  <2>1. review_epoch'[v] = local_epoch[c] + n
    BY Zenon, <1>0, <1>3 DEF own
  <2>2. local_epoch[c] + n >= global_epoch + 2 /\ local_epoch[c] + n \in Nat
    <3>1. local_epoch[c] \in {global_epoch - 1, global_epoch} /\ local_epoch[c] \in Nat
      BY Zenon, <1>0 DEF BarrierInv, EpochBarrier
    <3>2. pc[c] = "flush" => local_epoch[c] = global_epoch
      BY Zenon DEF BarrierInv, FlushIsExact
    <3>3. n = 3 \/ (n = 2 /\ pc[c] = "flush")
      BY Zenon DEF Evicting
    <3> QED
      BY <1>0, <3>1, <3>2, <3>3
  <2>3. ASSUME NEW d \in Cores PROVE ~Passed(d, local_epoch[c] + n)'
    <3>1. local_epoch'[d] = local_epoch[d] /\ local_epoch[d] \in Nat
      BY Zenon, <1>0, EvictingFrame
    <3>2. local_epoch[d] \in {global_epoch - 1, global_epoch}
      BY Zenon DEF BarrierInv, EpochBarrier
    <3>3. local_epoch'[c] = local_epoch[c]
      BY Zenon, EvictingFrame
    <3>5. n \in Nat
      BY Zenon, EvictingFrame
    <3>6. local_epoch[d] < local_epoch[c] + n - 1
      BY <1>0, <2>2, <3>1, <3>2, <3>5
    <3> QED
      BY <1>0, <3>1, <3>3, <3>5, <3>6 DEF Passed
  <2>4. \A d \in Cores : ~Passed(d, review_epoch[v])'
    BY <2>1, <2>3, EvictingFrame DEF Passed
  <2> QED
    BY Zenon, <2>4 DEF Graced
<1> QED
  BY Zenon, <1>1, <1>2, <1>3 DEF Evicted

\* A step after which whoever was active on x still is, and nobody else.
LEMMA GraceFrame ==
    ASSUME NEW x \in Objs, Graced(x), Clean(x)' => Clean(x),
           review_epoch'[x] = review_epoch[x],
           \A d \in Cores : Active(d, x)' <=> Active(d, x),
           \A d \in Cores : Passed(d, review_epoch[x])' => Passed(d, review_epoch[x])
    PROVE  Graced(x)'
BY Zenon DEF Graced, Passed

\* evict changes one object.
LEMMA EvictOther ==
    ASSUME TypeOK, NEW c \in Cores, NEW v \in Objs, NEW n, Evicted(c, v, n),
           NEW x \in Objs, x # v
    PROVE  /\ review_epoch'[x] = review_epoch[x] /\ (Clean(x)' <=> Clean(x))
           /\ weak'[x] = weak[x]
<1>0. /\ refcount \in [Objs -> Int] /\ review_epoch \in [Objs -> Nat]
      /\ dirty \in [Objs -> BOOLEAN] /\ weak \in [Objs -> {"none", "ok", "dying", "null"}]
  BY Zenon DEF TypeOK
<1>1. /\ refcount'[x] = refcount[x] /\ review_epoch'[x] = review_epoch[x]
      /\ dirty'[x] = dirty[x] /\ weak'[x] = weak[x]
  BY Zenon, <1>0 DEF Evicted, mark_dirty, own
<1> QED
  BY Zenon, <1>1 DEF Clean

\* An object that is referenced, or is about to be, is active on some core
\* unless its count says so.
LEMMA SomeActive ==
    ASSUME TypeOK, CacheInv, Settled, NEW o \in Objs, held[o] > 0, refcount[o] = 0
    PROVE  \E c \in Cores : Active(c, o)
<1>1. CASE \A c \in Cores : delta[c][o] = 0
  <2>1. held[o] = 0
    BY Zenon, <1>1 DEF Settled
  <2> QED
    BY <2>1
<1>2. CASE \E c \in Cores : delta[c][o] # 0
  BY Zenon, <1>2 DEF CacheInv, Active
<1> QED
  BY Zenon, <1>1, <1>2

\* inc and dec keep the grace period of every object.
LEMMA GraceOperation ==
    ASSUME TypeOK, TypeOK', BarrierInv, CacheInv, Settled, Grace,
           NEW c \in Cores, NEW o \in Objs, NEW d \in {1, -1}, get_way(c, o, d),
           Evicting(c, 3), arg' = arg,
           (pc[c] = "run" /\ held[o] > 0) \/ (pc[c] = "get" /\ arg[c] = o)
    PROVE  Grace'
<1> SUFFICES ASSUME NEW x \in Objs PROVE Graced(x)'
  BY Zenon DEF Grace
<1>0. /\ ways \in [Cores -> SUBSET Objs] /\ Graced(x)
      /\ pc \in [Cores -> {"run", "get", "flush", "flushed", "review"}]
  BY Zenon DEF TypeOK, Grace
<1>1. \/ Cached(c, o, d)
      \/ \E v \in Objs : Replaced(c, o, d, v)
      \/ Refreshed(c, o, d)
  BY Zenon, GetWayCases
<1>2. ASSUME \A y \in Objs : y # o => (y \in ways'[c] <=> y \in ways[c]) \/ y # x,
             o \in ways'[c], \A e \in Cores \ {c} : ways'[e] = ways[e],
             review_epoch'[x] = review_epoch[x], (Clean(x)' <=> Clean(x))
      PROVE  Graced(x)'
  <2>1. \A e \in Cores : Passed(e, review_epoch[x])' <=> Passed(e, review_epoch[x])
    <3>1. \A e \in Cores : /\ local_epoch'[e] = local_epoch[e]
                           /\ pc'[e] = "flush" <=> pc[e] = "flush"
      BY Zenon, EvictingFrame
    <3> QED
      BY Zenon, <1>2, <3>1 DEF Passed
  <2>2. \A e \in Cores \ {c} : Active(e, x)' <=> Active(e, x)
    BY ZenonT(60), <1>2, EvictingFrame DEF Active
  <2>3. CASE x # o
    <3>1. Active(c, x)' <=> Active(c, x)
      BY Zenon, <1>2, <2>3, EvictingFrame DEF Active
    <3>2. \A e \in Cores : Active(e, x)' <=> Active(e, x)
      BY Zenon, <2>2, <3>1
    <3> QED
      BY Zenon, <1>0, <1>2, <2>1, <3>2, GraceFrame
  <2>4. CASE x = o
    <3>1. Active(c, x)'
      BY Zenon, <1>2, <2>4 DEF Active
    <3>2. Clean(x) => \E e \in Cores : Active(e, x)
      BY Zenon, <2>4, SomeActive DEF Clean, Active
    <3>3. Clean(x) => \E e \in Cores : Active(e, x) /\ ~Passed(e, review_epoch[x])
      BY Zenon, <1>0, <3>2 DEF Graced
    <3>4. Clean(x) => \E e \in Cores : Active(e, x)' /\ ~Passed(e, review_epoch[x])'
      BY Zenon, <2>1, <2>2, <3>1, <3>3
    <3> QED
      BY Zenon, <1>2, <3>4 DEF Graced
  <2> QED
    BY Zenon, <2>3, <2>4
<1>3. CASE Cached(c, o, d)
  <2>1. /\ \A y \in Objs : y # o => (y \in ways'[c] <=> y \in ways[c])
        /\ o \in ways'[c] /\ \A e \in Cores \ {c} : ways'[e] = ways[e]
    BY Zenon, <1>0, <1>3 DEF Cached
  <2>2. review_epoch'[x] = review_epoch[x] /\ (Clean(x)' <=> Clean(x))
    BY Zenon, <1>3 DEF Cached, objVars, Clean
  <2> QED
    BY Zenon, <1>2, <2>1, <2>2
<1>4. ASSUME NEW v \in Objs, Replaced(c, o, d, v) PROVE Graced(x)'
  <2>0. Evicted(c, v, 3)
    BY Zenon, <1>4 DEF Replaced
  <2>1. CASE x = v
    BY Zenon, <2>0, <2>1, EvictGrace
  <2>2. CASE x # v
    <3>1. /\ \A y \in Objs : y # o => (y \in ways'[c] <=> y \in ways[c]) \/ y # x
          /\ o \in ways'[c] /\ \A e \in Cores \ {c} : ways'[e] = ways[e]
      BY Zenon, <1>0, <1>4, <2>2 DEF Replaced
    <3>2. review_epoch'[x] = review_epoch[x] /\ (Clean(x)' <=> Clean(x))
      BY ZenonT(60), <2>0, <2>2, EvictOther
    <3> QED
      BY Zenon, <1>2, <3>1, <3>2
  <2> QED
    BY Zenon, <2>1, <2>2
<1>5. CASE Refreshed(c, o, d)
  <2>0. Evicted(c, o, 3) /\ ways' = ways /\ o \in ways[c]
    BY Zenon, <1>5 DEF Refreshed
  <2>1. CASE x = o
    BY Zenon, <2>0, <2>1, EvictGrace
  <2>2. CASE x # o
    <3>2. review_epoch'[x] = review_epoch[x] /\ (Clean(x)' <=> Clean(x))
      BY Zenon, <2>0, <2>2, EvictOther
    <3> QED
      BY Zenon, <1>2, <2>0, <3>2
  <2> QED
    BY Zenon, <2>1, <2>2
<1> QED
  BY Zenon, <1>1, <1>3, <1>4, <1>5

\* So does the eviction of a way by flush.
LEMMA GraceFlushWay ==
    ASSUME TypeOK, TypeOK', BarrierInv, CacheInv, Grace,
           NEW c \in Cores, NEW o \in Objs, flush_way(c, o)
    PROVE  Grace'
<1> SUFFICES ASSUME NEW x \in Objs PROVE Graced(x)'
  BY Zenon DEF Grace
<1>0. ways \in [Cores -> SUBSET Objs] /\ Graced(x)
  BY Zenon DEF TypeOK, Grace
<1>1. Evicting(c, 2)
  BY Zenon DEF flush_way, Evicting, coreVars
<1>2. Evicted(c, o, 2)
  BY Zenon, FlushWayStep
<1>3. CASE x = o
  BY Zenon, <1>1, <1>2, <1>3, EvictGrace
<1>4. CASE x # o
  <2>1. review_epoch'[x] = review_epoch[x] /\ (Clean(x)' <=> Clean(x))
    BY Zenon, <1>2, <1>4, EvictOther
  <2>2. \A e \in Cores : Active(e, x)' <=> Active(e, x)
    <3>1. ways' = [ways EXCEPT ![c] = @ \ {o}] /\ pc' = pc /\ arg' = arg
      BY Zenon DEF flush_way, coreVars
    <3> QED
      BY Zenon, <1>0, <1>4, <3>1 DEF Active
  <2>3. \A e \in Cores : Passed(e, review_epoch[x])' => Passed(e, review_epoch[x])
    <3>1. local_epoch' = local_epoch /\ pc' = pc
      BY Zenon DEF flush_way, coreVars, epochVars
    <3> QED
      BY Zenon, <2>1, <3>1 DEF Passed
  <2> QED
    BY Zenon, <1>0, <2>1, <2>2, <2>3, GraceFrame
<1> QED
  BY Zenon, <1>3, <1>4

\* So do weak references.
LEMMA GraceWeak ==
    ASSUME TypeOK, Grace, NEW c \in Cores, NEW o \in Objs,
           make_weakref(c, o) \/ get_revive(c, o)
    PROVE  Grace'
<1> SUFFICES ASSUME NEW x \in Objs PROVE Graced(x)'
  BY Zenon DEF Grace
<1>0. /\ Graced(x) /\ weak \in [Objs -> {"none", "ok", "dying", "null"}]
      /\ pc \in [Cores -> {"run", "get", "flush", "flushed", "review"}]
      /\ arg \in [Cores -> Objs]
  BY Zenon DEF TypeOK, Grace
<1>1. /\ UNCHANGED <<refcount, review_epoch, dirty, ways, local_epoch>>
      /\ \A d \in Cores : pc'[d] = "flush" <=> pc[d] = "flush"
  BY Zenon, <1>0 DEF make_weakref, get_revive, cacheVars, epochVars, coreVars
<1>2. \A e \in Cores : Passed(e, review_epoch[x])' => Passed(e, review_epoch[x])
  BY Zenon, <1>1 DEF Passed
<1>3. CASE make_weakref(c, o)
  <2>1. Clean(x)' => Clean(x)
    BY Zenon, <1>0, <1>1, <1>3 DEF make_weakref, Clean
  <2>2. \A e \in Cores : Active(e, x)' <=> Active(e, x)
    BY Zenon, <1>1, <1>3 DEF make_weakref, coreVars, Active
  <2> QED
    BY Zenon, <1>0, <1>1, <1>2, <2>1, <2>2, GraceFrame
<1>4. CASE get_revive(c, o) /\ x = o
  <2>1. weak'[x] = "ok"
    BY Zenon, <1>0, <1>4 DEF get_revive
  <2> QED
    BY Zenon, <2>1 DEF Graced, Clean
<1>5. CASE get_revive(c, o) /\ x # o
  <2>1. Clean(x)' => Clean(x)
    BY Zenon, <1>0, <1>1, <1>5 DEF get_revive, Clean
  <2>2. \A e \in Cores : Active(e, x)' <=> Active(e, x)
    BY Zenon, <1>0, <1>1, <1>5 DEF get_revive, Active
  <2> QED
    BY Zenon, <1>0, <1>1, <1>2, <2>1, <2>2, GraceFrame
<1> QED
  BY Zenon, <1>3, <1>4, <1>5

\* tick: a core that joins an epoch has its flush before it.
LEMMA GraceTick ==
    ASSUME TypeOK, BarrierInv, Grace, NEW c \in Cores, tick(c)
    PROVE  Grace'
<1> SUFFICES ASSUME NEW x \in Objs PROVE Graced(x)'
  BY Zenon DEF Grace
<1>0. /\ Graced(x) /\ local_epoch \in [Cores -> Nat] /\ global_epoch \in Nat
      /\ pc \in [Cores -> {"run", "get", "flush", "flushed", "review"}]
      /\ review_epoch[x] \in Nat /\ local_epoch[c] \in Nat
  BY Zenon DEF TypeOK, Grace
<1>1. UNCHANGED <<refcount, review_epoch, dirty, weak, ways, arg>> /\ pc[c] = "run"
  BY Zenon DEF tick, objVars, cacheVars
<1>2. Clean(x)' => Clean(x)
  BY Zenon, <1>1 DEF Clean
<1>3. \A d \in Cores \ {c} : pc'[d] = pc[d] /\ local_epoch'[d] = local_epoch[d]
  BY Zenon, <1>0 DEF tick
<1>4. \/ pc'[c] = "flushed" /\ local_epoch'[c] = local_epoch[c]
      \/ pc'[c] = "flush" /\ local_epoch'[c] = local_epoch[c] + 1
  <2>1. local_epoch[c] \in {global_epoch - 1, global_epoch}
    BY Zenon DEF BarrierInv, EpochBarrier
  <2> QED
    BY <1>0, <2>1 DEF tick
<1>5. \A d \in Cores : Active(d, x)' <=> Active(d, x)
  BY Zenon, <1>1, <1>3, <1>4 DEF Active
<1>6. \A d \in Cores : Passed(d, review_epoch[x])' => Passed(d, review_epoch[x])
  <2>1. Passed(c, review_epoch[x])' => Passed(c, review_epoch[x])
    BY <1>0, <1>1, <1>4 DEF Passed
  <2>2. \A d \in Cores \ {c} : Passed(d, review_epoch[x])' => Passed(d, review_epoch[x])
    BY Zenon, <1>1, <1>3 DEF Passed
  <2> QED
    BY Zenon, <2>1, <2>2
<1> QED
  BY Zenon, <1>0, <1>1, <1>2, <1>5, <1>6, GraceFrame

\* flush_end: a core whose flush is over is active on nothing.
LEMMA GraceFlushEnd ==
    ASSUME TypeOK, Grace, NEW c \in Cores, flush_end(c)
    PROVE  Grace'
<1> SUFFICES ASSUME NEW x \in Objs PROVE Graced(x)'
  BY Zenon DEF Grace
<1>0. /\ Graced(x)
      /\ pc \in [Cores -> {"run", "get", "flush", "flushed", "review"}]
  BY Zenon DEF TypeOK, Grace
<1>1. /\ UNCHANGED <<refcount, review_epoch, dirty, weak, ways, arg, local_epoch>>
      /\ pc[c] = "flush" /\ ways[c] = {} /\ pc' = [pc EXCEPT ![c] = "flushed"]
  BY Zenon DEF flush_end, objVars, cacheVars
<1>2. Clean(x)' => Clean(x)
  BY Zenon, <1>1 DEF Clean
<1>3. pc'[c] = "flushed" /\ \A d \in Cores \ {c} : pc'[d] = pc[d]
  BY Zenon, <1>0, <1>1
<1>4. ~Active(c, x) /\ ~Active(c, x)'
  BY Zenon, <1>1, <1>3 DEF Active
<1>5. \A d \in Cores \ {c} : /\ Active(d, x)' <=> Active(d, x)
                             /\ Passed(d, review_epoch[x])' <=> Passed(d, review_epoch[x])
  BY Zenon, <1>1, <1>3 DEF Active, Passed
<1> QED
  BY Zenon, <1>0, <1>1, <1>2, <1>4, <1>5 DEF Graced

\* review, and the reaper.
LEMMA GraceQuiet ==
    ASSUME TypeOK, Grace, NEW c \in Cores, review(c) \/ reaper(c)
    PROVE  Grace'
<1> SUFFICES ASSUME NEW x \in Objs PROVE Graced(x)'
  BY Zenon DEF Grace
<1>0. /\ Graced(x)
      /\ pc \in [Cores -> {"run", "get", "flush", "flushed", "review"}]
  BY Zenon DEF TypeOK, Grace
<1>1. UNCHANGED <<refcount, review_epoch, dirty, weak, ways, arg, local_epoch>>
  BY Zenon DEF review, reaper, objVars, cacheVars, epochVars, coreVars
<1>2. \/ pc' = pc
      \/ pc[c] = "flushed" /\ pc'[c] \in {"run", "review"} /\ \A d \in Cores \ {c} : pc'[d] = pc[d]
  <2>1. CASE reaper(c)
    BY Zenon, <2>1 DEF reaper, coreVars
  <2>2. CASE review(c)
    <3>1. \E v \in {"run", "review"} : pc' = [pc EXCEPT ![c] = v]
      BY Zenon, <2>2 DEF review
    <3> QED
      BY Zenon, <1>0, <2>2, <3>1 DEF review
  <2> QED
    BY Zenon, <2>1, <2>2
<1>3. Clean(x)' => Clean(x)
  BY Zenon, <1>1 DEF Clean
<1>4. \A d \in Cores : /\ Active(d, x)' <=> Active(d, x)
                       /\ Passed(d, review_epoch[x])' <=> Passed(d, review_epoch[x])
  BY Zenon, <1>1, <1>2 DEF Active, Passed
<1> QED
  BY Zenon, <1>0, <1>1, <1>3, <1>4, GraceFrame

\* An object that goes round again waits for a flush of every core, as long
\* as none is ahead of the review.
LEMMA GraceRound ==
    ASSUME TypeOK, Reviews, LinkInv, OrderInv, Prompt, Grace, NEW c \in Cores, NEW o \in Objs,
           review_requeue(c, o) \/ review_free(c, o) \/ review_disown(c, o)
    PROVE  Grace'
<1> SUFFICES ASSUME NEW x \in Objs PROVE Graced(x)'
  BY Zenon DEF Grace
<1>0. /\ Graced(x) /\ review_epoch \in [Objs -> Nat] /\ dirty \in [Objs -> BOOLEAN]
      /\ weak \in [Objs -> {"none", "ok", "dying", "null"}]
      /\ local_epoch \in [Cores -> Nat] /\ epoch[c] \in Nat
  BY Zenon DEF TypeOK, Grace
<1>1. review_next(c, o)
  BY Zenon DEF review_requeue, review_free, review_disown
<1>2. /\ pc[c] = "review" /\ pc'[c] \in {"run", "review"}
      /\ local_epoch' = local_epoch /\ \A d \in Cores \ {c} : pc'[d] = pc[d]
  BY Zenon, <1>1, RoundFrame
<1>3. UNCHANGED <<refcount, ways, arg>>
  BY Zenon, <1>1 DEF review_next, cacheVars
<1>4. CASE x # o
  <2>1. review_epoch'[x] = review_epoch[x] /\ dirty'[x] = dirty[x] /\ weak'[x] = weak[x]
    BY Zenon, <1>0, <1>4 DEF review_requeue, review_free, review_disown
  <2>2. Clean(x)' => Clean(x)
    BY Zenon, <1>3, <2>1 DEF Clean
  <2>3. \A d \in Cores : /\ Active(d, x)' <=> Active(d, x)
                         /\ Passed(d, review_epoch[x])' <=> Passed(d, review_epoch[x])
    BY Zenon, <1>2, <1>3, <2>1 DEF Active, Passed
  <2> QED
    BY Zenon, <1>0, <2>1, <2>2, <2>3, GraceFrame
<1>5. CASE x = o /\ review_requeue(c, o)
  <2>1. review_epoch'[x] = epoch[c] + 2
    BY Zenon, <1>0, <1>5 DEF review_requeue
  <2>2. ASSUME NEW d \in Cores PROVE ~Passed(d, review_epoch[x])'
    <3>1. local_epoch[d] <= epoch[c] /\ local_epoch[d] \in Nat
      BY Zenon, <1>0, <1>2 DEF Prompt
    <3> QED
      BY <1>0, <1>2, <2>1, <3>1 DEF Passed
  <2> QED
    BY Zenon, <2>2 DEF Graced
<1>6. CASE x = o /\ (review_free(c, o) \/ review_disown(c, o))
  <2>1. review_epoch'[x] = 0
    BY Zenon, <1>0, <1>6 DEF review_free, review_disown
  <2> QED
    BY Zenon, <2>1 DEF Graced, Clean
<1> QED
  BY Zenon, <1>4, <1>5, <1>6

\* With PromptReview, a core that would get ahead of a review waits for it.
LEMMA NextPrompt ==
    ASSUME PromptReview, TypeOK, BarrierInv, Reviews, LinkInv, OrderInv, Prompt, [Next]_vars
    PROVE  Prompt'
<1>0. /\ local_epoch \in [Cores -> Nat] /\ global_epoch \in Nat /\ epoch \in [Cores -> Nat]
      /\ pc \in [Cores -> {"run", "get", "flush", "flushed", "review"}]
      /\ arg \in [Cores -> Objs]
  BY Zenon DEF TypeOK
<1>1. ASSUME NEW b \in Cores, tick(b) PROVE Prompt'
  <2>1. CASE local_epoch[b] = global_epoch
    <3>1. local_epoch' = local_epoch /\ epoch' = epoch /\ pc' = [pc EXCEPT ![b] = "flushed"]
      BY Zenon, <1>1, <2>1 DEF tick
    <3> QED
      BY Zenon, <1>0, <3>1 DEF Prompt
  <2>2. CASE local_epoch[b] # global_epoch
    <3>1. /\ local_epoch' = [local_epoch EXCEPT ![b] = global_epoch] /\ epoch' = epoch
          /\ pc' = [pc EXCEPT ![b] = "flush"] /\ ~late_review
      BY Zenon, <1>1, <2>2 DEF tick
    <3>2. \A d \in Cores : pc[d] = "review" => epoch[d] >= global_epoch
      BY <1>0, <3>1 DEF late_review
    <3>3. \A d \in Cores : pc'[d] = "review" => pc[d] = "review"
      BY Zenon, <1>0, <3>1
    <3> SUFFICES ASSUME NEW c \in Cores, NEW d \in Cores, pc'[d] = "review"
                 PROVE  local_epoch'[c] <= epoch'[d]
      BY Zenon DEF Prompt
    <3>4. CASE c = b
      BY Zenon, <1>0, <3>1, <3>2, <3>3, <3>4
    <3>5. CASE c # b
      BY Zenon, <1>0, <3>1, <3>3, <3>5 DEF Prompt
    <3> QED
      BY Zenon, <3>4, <3>5
  <2> QED
    BY Zenon, <2>1, <2>2
<1>2. ASSUME NEW b \in Cores, review(b) PROVE Prompt'
  <2>1. /\ local_epoch' = local_epoch /\ epoch' = [epoch EXCEPT ![b] = global_epoch]
    BY Zenon, <1>2 DEF review, epochVars
  <2>2. \E v \in {"run", "review"} : pc' = [pc EXCEPT ![b] = v]
    BY Zenon, <1>2 DEF review
  <2>3. \A c \in Cores : local_epoch[c] <= global_epoch
    <3> SUFFICES ASSUME NEW c \in Cores PROVE local_epoch[c] <= global_epoch
      BY Zenon
    <3>1. local_epoch[c] \in {global_epoch - 1, global_epoch}
      BY Zenon DEF BarrierInv, EpochBarrier
    <3> QED
      BY <1>0, <3>1
  <2> SUFFICES ASSUME NEW c \in Cores, NEW d \in Cores, pc'[d] = "review"
               PROVE  local_epoch'[c] <= epoch'[d]
    BY Zenon DEF Prompt
  <2>4. CASE d = b
    BY Zenon, <1>0, <2>1, <2>3, <2>4
  <2>5. CASE d # b
    BY Zenon, <1>0, <2>1, <2>2, <2>5 DEF Prompt
  <2> QED
    BY Zenon, <2>4, <2>5
<1>3. ASSUME local_epoch' = local_epoch, epoch' = epoch,
             \A d \in Cores : pc'[d] = "review" => pc[d] = "review"
      PROVE  Prompt'
  BY Zenon, <1>3 DEF Prompt
<1>4. ASSUME NEW b \in Cores, flush_end(b) PROVE Prompt'
  <2>1. /\ local_epoch' = local_epoch /\ epoch' = epoch /\ pc' = [pc EXCEPT ![b] = "flushed"]
    BY Zenon, <1>4 DEF flush_end
  <2> QED
    BY Zenon, <1>0, <1>3, <2>1
<1>5. ASSUME NEW b \in Cores, get_inc(b) PROVE Prompt'
  <2>1. /\ local_epoch' = local_epoch /\ epoch' = epoch /\ pc' = [pc EXCEPT ![b] = "run"]
    BY Zenon, <1>5 DEF get_inc, epochVars
  <2> QED
    BY Zenon, <1>0, <1>3, <2>1
<1>6. ASSUME NEW b \in Cores, NEW o \in Objs,
             \/ inc(b, o) \/ dec(b, o) \/ make_weakref(b, o) \/ flush_way(b, o) \/ reaper(b)
      PROVE  Prompt'
  <2>1. /\ local_epoch' = local_epoch /\ epoch' = epoch /\ pc' = pc
    BY Zenon, <1>6 DEF inc, dec, make_weakref, flush_way, reaper, epochVars, coreVars
  <2> QED
    BY Zenon, <1>3, <2>1
<1>7. ASSUME NEW b \in Cores, NEW o \in Objs, get_revive(b, o) PROVE Prompt'
  <2>1. /\ local_epoch' = local_epoch /\ epoch' = epoch /\ pc' = [pc EXCEPT ![b] = "get"]
    BY Zenon, <1>7 DEF get_revive, epochVars
  <2> QED
    BY Zenon, <1>0, <1>3, <2>1
<1>8. ASSUME NEW b \in Cores, NEW o \in Objs,
             review_requeue(b, o) \/ review_free(b, o) \/ review_disown(b, o)
      PROVE  Prompt'
  <2>1. review_next(b, o)
    BY Zenon, <1>8 DEF review_requeue, review_free, review_disown
  <2>2. /\ local_epoch' = local_epoch /\ epoch' = epoch /\ pc[b] = "review"
        /\ \A d \in Cores \ {b} : pc'[d] = pc[d]
    BY Zenon, <2>1, RoundFrame
  <2> QED
    BY Zenon, <1>3, <2>2
<1>9. CASE UNCHANGED vars
  BY Zenon, <1>3, <1>9 DEF vars, epochVars, coreVars
<1>10. \E o \in Objs : TRUE
  BY Zenon, ObjsAssumption
<1> QED
  BY Zenon, <1>1, <1>2, <1>4, <1>5, <1>6, <1>7, <1>8, <1>9, <1>10 DEF Next

\* FreedInv, object by object.
LEMMA FreedDef == FreedInv <=> \A o \in Objs : Freed(o) => Dead(o)
BY ZenonT(60) DEF FreedInv, FreedUnreferenced, Dead, Active

\* A step of core c on object o leaves every dead object dead.
LEMMA FreedOperation ==
    ASSUME TypeOK, CacheInv, NEW c \in Cores, NEW o \in Objs, NEW d \in {1, -1},
           get_way(c, o, d), Evicting(c, 3), arg' = arg, held' = [held EXCEPT ![o] = @ + d],
           ~Dead(o), NEW x \in Objs, Dead(x)
    PROVE  Dead(x)'
<1>0. /\ ways \in [Cores -> SUBSET Objs] /\ held \in [Objs -> Nat] /\ x # o
  BY Zenon DEF TypeOK
<1>1. \/ Cached(c, o, d)
      \/ \E v \in Objs : Replaced(c, o, d, v)
      \/ Refreshed(c, o, d)
  BY Zenon, GetWayCases
<1>2. held'[x] = 0
  BY Zenon, <1>0 DEF Dead
<1>3. x \notin ways[c]
  BY Zenon DEF Dead, Active
<1>4. ASSUME x \notin ways'[c], \A e \in Cores \ {c} : ways'[e] = ways[e],
             review_epoch'[x] = review_epoch[x], weak'[x] = weak[x]
      PROVE  Dead(x)'
  <2>1. ASSUME NEW e \in Cores PROVE ~Active(e, x)'
    <3>1. ~Active(e, x)
      BY Zenon DEF Dead
    <3>2. pc'[e] = "get" => pc[e] = "get"
      BY Zenon, EvictingFrame
    <3> QED
      BY Zenon, <1>4, <3>1, <3>2 DEF Active
  <2> QED
    BY Zenon, <1>2, <1>4, <2>1 DEF Dead
<1>5. CASE Cached(c, o, d)
  <2>1. x \notin ways'[c] /\ \A e \in Cores \ {c} : ways'[e] = ways[e]
    BY Zenon, <1>0, <1>3, <1>5 DEF Cached
  <2> QED
    BY Zenon, <1>4, <1>5, <2>1 DEF Cached, objVars
<1>6. ASSUME NEW v \in Objs, Replaced(c, o, d, v) PROVE Dead(x)'
  <2>1. x \notin ways'[c] /\ \A e \in Cores \ {c} : ways'[e] = ways[e]
    BY Zenon, <1>0, <1>3, <1>6 DEF Replaced
  <2>2. review_epoch'[x] = review_epoch[x] /\ weak'[x] = weak[x]
    BY Zenon, <1>3, <1>6, EvictOther DEF Replaced
  <2> QED
    BY Zenon, <1>4, <2>1, <2>2
<1>7. CASE Refreshed(c, o, d)
  <2>2. review_epoch'[x] = review_epoch[x] /\ weak'[x] = weak[x]
    BY Zenon, <1>0, <1>7, EvictOther DEF Refreshed
  <2> QED
    BY Zenon, <1>3, <1>4, <1>7, <2>2 DEF Refreshed
<1> QED
  BY Zenon, <1>1, <1>5, <1>6, <1>7

\* The steps that leave the objects and the caches alone.
LEMMA FreedFrame ==
    ASSUME NEW x \in Objs, Dead(x), held'[x] = held[x], weak'[x] = weak[x], ways' = ways,
           review_epoch'[x] = review_epoch[x],
           \A d \in Cores : pc'[d] = "get" /\ arg'[d] = x => pc[d] = "get" /\ arg[d] = x
    PROVE  Dead(x)'
BY Zenon DEF Dead, Active

\* review_free: everyone has flushed since the count went to zero, so nobody
\* is active on the object, and nobody has a delta or a reference.
LEMMA FreeIsDead ==
    ASSUME CountInv, Settled, TypeOK', LinkInv, OrderInv, Grace, NEW c \in Cores, NEW o \in Objs,
           review_free(c, o)
    PROVE  Dead(o)'
<1>0. /\ TypeOK /\ BarrierInv /\ CacheInv /\ Reviews
      /\ weak \in [Objs -> {"none", "ok", "dying", "null"}] /\ review_epoch \in [Objs -> Nat]
      /\ epoch[c] \in Nat /\ global_epoch \in Nat /\ dirty \in [Objs -> BOOLEAN]
  BY Zenon DEF CountInv, TypeOK
<1>1. review_next(c, o)
  BY Zenon DEF review_free
<1>2. /\ o \in Rng(reviewable[c]) /\ review_epoch[o] # 0 /\ pc[c] = "review"
      /\ pc'[c] \in {"run", "review"} /\ \A d \in Cores \ {c} : pc'[d] = pc[d]
  BY ZenonT(60), <1>0, <1>1, RoundFrame
<1>3. UNCHANGED <<ways, arg, held>>
  BY Zenon, <1>1 DEF review_next, cacheVars, clientVars
<1>4. /\ weak' = [weak EXCEPT ![o] = IF @ = "dying" THEN "null" ELSE @]
      /\ review_epoch' = [review_epoch EXCEPT ![o] = 0]
      /\ refcount[o] = 0 /\ ~dirty[o] /\ weak[o] # "ok"
  BY Zenon DEF review_free, unstable
<1>5. review_epoch[o] <= epoch[c] /\ epoch[c] <= global_epoch
  BY Zenon, <1>2 DEF OrderInv, Window
<1>6. \A d \in Cores : Passed(d, review_epoch[o])
  <2>1. review_epoch[o] \in Nat /\ review_epoch[o] <= global_epoch
    BY <1>0, <1>5
  <2> QED
    BY Zenon, <1>0, <2>1, ReachedPassed
<1>7. \A d \in Cores : ~Active(d, o)
  BY Zenon, <1>2, <1>4, <1>6 DEF Grace, Graced, Clean
<1>8. held[o] = 0
  <2>1. \A d \in Cores : delta[d][o] = 0
    BY Zenon, <1>0, <1>7 DEF CacheInv, Active
  <2> QED
    BY Zenon, <1>4, <2>1 DEF Settled
<1>9. \A d \in Cores : ~Active(d, o)'
  BY Zenon, <1>2, <1>3, <1>7 DEF Active
<1>10. weak'[o] \in {"none", "null"} /\ review_epoch'[o] = 0
  BY Zenon, <1>0, <1>4
<1> QED
  BY ZenonT(60), <1>3, <1>8, <1>9, <1>10 DEF Dead

\* No step brings a freed object back.
LEMMA NextFreed ==
    ASSUME PromptReview, GraceInv, Settled, TypeOK', [Next]_vars
    PROVE  FreedInv'
<1>0. /\ TypeOK /\ CacheInv /\ CountInv /\ LinkInv /\ OrderInv /\ Grace /\ Reviews
      /\ arg \in [Cores -> Objs] /\ held \in [Objs -> Nat]
      /\ weak \in [Objs -> {"none", "ok", "dying", "null"}] /\ review_epoch \in [Objs -> Nat]
      /\ pc \in [Cores -> {"run", "get", "flush", "flushed", "review"}]
      /\ reap_ \in [Cores -> SUBSET Objs] /\ ways \in [Cores -> SUBSET Objs]
      /\ \A o \in Objs : Freed(o) => Dead(o)
  BY Zenon, FreedDef DEF GraceInv, ListInv, CountInv, TypeOK
<1> SUFFICES ASSUME NEW x \in Objs, Freed(x)' PROVE Dead(x)'
  <2>1. (FreedInv <=> \A o \in Objs : Freed(o) => Dead(o))'
    BY FreedDef, PTL
  <2> QED
    BY Zenon, <2>1
<1>1. ASSUME UNCHANGED <<onzeroed, reap_>> PROVE Dead(x)
  BY Zenon, <1>0, <1>1 DEF Freed
<1>2. ASSUME NEW c \in Cores, NEW o \in Objs, inc(c, o) PROVE Dead(x)'
  <2>1. Evicting(c, 3) /\ arg' = arg
    BY Zenon, <1>2 DEF inc, Evicting, coreVars
  <2>2. Dead(x) /\ ~Dead(o)
    BY <1>0, <1>1, <1>2 DEF inc, Dead
  <2>3. get_way(c, o, 1) /\ held' = [held EXCEPT ![o] = @ + 1]
    BY Zenon, <1>2 DEF inc
  <2> QED
    BY Zenon, <1>0, <2>1, <2>2, <2>3, FreedOperation
<1>3. ASSUME NEW c \in Cores, NEW o \in Objs, dec(c, o) PROVE Dead(x)'
  <2>1. Evicting(c, 3) /\ arg' = arg
    BY Zenon, <1>3 DEF dec, Evicting, coreVars
  <2>2. Dead(x) /\ ~Dead(o)
    BY <1>0, <1>1, <1>3 DEF dec, Dead
  <2>3. get_way(c, o, -1) /\ held' = [held EXCEPT ![o] = @ + -1]
    BY Zenon, <1>0, <1>3 DEF dec
  <2> QED
    BY Zenon, <1>0, <2>1, <2>2, <2>3, FreedOperation
<1>4. ASSUME NEW c \in Cores, get_inc(c) PROVE Dead(x)'
  <2>0. arg[c] \in Objs
    BY Zenon, <1>0
  <2>1. Evicting(c, 3) /\ arg' = arg
    BY Zenon, <1>4 DEF get_inc, Evicting
  <2>2. Dead(x) /\ ~Dead(arg[c])
    BY Zenon, <1>1, <1>4 DEF get_inc, Dead, Active
  <2>3. get_way(c, arg[c], 1) /\ held' = [held EXCEPT ![arg[c]] = @ + 1]
    BY Zenon, <1>4 DEF get_inc
  <2> QED
    BY Zenon, <1>0, <2>0, <2>1, <2>2, <2>3, FreedOperation
<1>5. ASSUME NEW c \in Cores, NEW o \in Objs, flush_way(c, o) PROVE Dead(x)'
  <2>1. Dead(x)
    BY Zenon, <1>1, <1>5 DEF flush_way, clientVars
  <2>2. x # o
    BY Zenon, <1>5, <2>1 DEF flush_way, Dead, Active
  <2>3. review_epoch'[x] = review_epoch[x] /\ weak'[x] = weak[x]
    BY Zenon, <1>0, <1>5, <2>2, FlushWayStep, EvictOther
  <2>4. ways' = [ways EXCEPT ![c] = @ \ {o}] /\ pc' = pc /\ arg' = arg /\ held' = held
    BY Zenon, <1>5 DEF flush_way, coreVars, clientVars
  <2>5. \A d \in Cores : ~Active(d, x)'
    BY <1>0, <2>1, <2>4 DEF Dead, Active
  <2> QED
    BY Zenon, <2>1, <2>3, <2>4, <2>5 DEF Dead
<1>6. ASSUME NEW c \in Cores, NEW o \in Objs, make_weakref(c, o) PROVE Dead(x)'
  <2>1. Dead(x)
    BY Zenon, <1>1, <1>6 DEF make_weakref, clientVars, listVars
  <2>2. x # o
    BY <1>0, <1>6, <2>1 DEF make_weakref, Dead
  <2>3. weak'[x] = weak[x] /\ UNCHANGED <<held, ways, review_epoch, pc, arg>>
    BY Zenon, <1>0, <1>6, <2>2 DEF make_weakref, cacheVars, coreVars, clientVars
  <2> QED
    BY Zenon, <2>1, <2>3, FreedFrame
<1>7. ASSUME NEW c \in Cores, NEW o \in Objs, get_revive(c, o) PROVE Dead(x)'
  <2>1. Dead(x)
    BY Zenon, <1>1, <1>7 DEF get_revive, listVars
  <2>2. x # o
    BY Zenon, <1>7, <2>1 DEF get_revive, Dead
  <2>3. /\ weak'[x] = weak[x] /\ UNCHANGED <<held, ways, review_epoch>>
        /\ pc' = [pc EXCEPT ![c] = "get"] /\ arg' = [arg EXCEPT ![c] = o]
    BY Zenon, <1>0, <1>7, <2>2 DEF get_revive, cacheVars
  <2>4. \A d \in Cores : pc'[d] = "get" /\ arg'[d] = x => pc[d] = "get" /\ arg[d] = x
    BY Zenon, <1>0, <2>2, <2>3
  <2> QED
    BY Zenon, <2>1, <2>3, <2>4, FreedFrame
<1>8. ASSUME NEW c \in Cores, tick(c) \/ flush_end(c) \/ review(c) PROVE Dead(x)'
  <2>1. UNCHANGED <<onzeroed, reap_, held, weak, ways, review_epoch, arg>>
    BY Zenon, <1>8 DEF tick, flush_end, review, objVars, cacheVars, listVars, clientVars
  <2>2. \E v \in {"flush", "flushed", "run", "review"} : pc' = [pc EXCEPT ![c] = v]
    <3>1. CASE review(c)
      BY Zenon, <3>1 DEF review
    <3> QED
      BY Zenon, <1>8, <3>1 DEF tick, flush_end
  <2>3. \A d \in Cores : pc'[d] = "get" => pc[d] = "get"
    BY Zenon, <1>0, <2>2
  <2> QED
    BY Zenon, <1>1, <2>1, <2>3, FreedFrame
<1>9. ASSUME NEW c \in Cores, NEW o \in Objs, review_requeue(c, o) \/ review_disown(c, o)
      PROVE Dead(x)'
  <2>0. review_next(c, o)
    BY Zenon, <1>9 DEF review_requeue, review_disown
  <2>1. UNCHANGED <<onzeroed, reap_, held, ways, arg>>
    BY Zenon, <1>9, <2>0 DEF review_next, review_requeue, review_disown, cacheVars, clientVars
  <2>2. /\ review_epoch[o] # 0
        /\ pc'[c] \in {"run", "review"} /\ \A d \in Cores \ {c} : pc'[d] = pc[d]
    BY Zenon, <1>0, <2>0, RoundFrame
  <2>3. Dead(x) /\ x # o
    BY Zenon, <1>1, <2>1, <2>2 DEF Dead
  <2>4. weak'[x] = weak[x] /\ review_epoch'[x] = review_epoch[x]
    BY ZenonT(60), <1>0, <1>9, <2>3 DEF review_requeue, review_disown
  <2>5. \A d \in Cores : pc'[d] = "get" => pc[d] = "get"
    BY Zenon, <2>2
  <2> QED
    BY Zenon, <2>1, <2>3, <2>4, <2>5, FreedFrame
<1>10. ASSUME NEW c \in Cores, NEW o \in Objs, review_free(c, o) PROVE Dead(x)'
  <2>1. CASE x = o
    BY Zenon, <1>0, <1>10, <2>1, FreeIsDead
  <2>2. CASE x # o
    <3>0. review_next(c, o)
      BY Zenon, <1>10 DEF review_free
    <3>1. /\ UNCHANGED <<onzeroed, held, ways, arg>>
          /\ reap_' = [reap_ EXCEPT ![c] = @ \union {o}]
      BY Zenon, <1>10, <3>0 DEF review_next, review_free, cacheVars, clientVars
    <3>2. pc'[c] \in {"run", "review"} /\ \A d \in Cores \ {c} : pc'[d] = pc[d]
      BY Zenon, <1>0, <3>0, RoundFrame
    <3>3. Dead(x)
      BY Zenon, <1>0, <2>2, <3>1 DEF Freed
    <3>4. weak'[x] = weak[x] /\ review_epoch'[x] = review_epoch[x]
      BY Zenon, <1>0, <1>10, <2>2 DEF review_free
    <3>5. \A d \in Cores : pc'[d] = "get" => pc[d] = "get"
      BY Zenon, <3>2
    <3> QED
      BY Zenon, <3>1, <3>3, <3>4, <3>5, FreedFrame
  <2> QED
    BY Zenon, <2>1, <2>2
<1>11. ASSUME NEW c \in Cores, reaper(c) PROVE Dead(x)'
  <2>1. /\ onzeroed' = onzeroed \union reap_[c] /\ reap_' = [reap_ EXCEPT ![c] = {}]
        /\ UNCHANGED <<held, weak, ways, review_epoch, pc, arg>>
    BY Zenon, <1>11 DEF reaper, objVars, cacheVars, coreVars
  <2>2. Freed(x)
    BY Zenon, <1>0, <2>1 DEF Freed
  <2>3. Dead(x)
    BY Zenon, <1>0, <2>2
  <2> QED
    BY Zenon, <2>1, <2>3, FreedFrame
<1>12. CASE UNCHANGED vars
  <2>1. UNCHANGED <<onzeroed, reap_, held, weak, ways, review_epoch, pc, arg>>
    BY Zenon, <1>12 DEF vars, objVars, cacheVars, coreVars, listVars, clientVars
  <2> QED
    BY Zenon, <1>1, <2>1, FreedFrame
<1> QED
  BY ZenonT(60), <1>2, <1>3, <1>4, <1>5, <1>6, <1>7, <1>8, <1>9, <1>10, <1>11, <1>12 DEF Next

\* Every step keeps the grace period.
LEMMA NextGrace ==
    ASSUME PromptReview, GraceInv, Settled, ListInv', [Next]_vars
    PROVE  GraceInv'
<1>0. /\ ListInv /\ TypeOK /\ BarrierInv /\ CacheInv /\ Reviews /\ LinkInv
      /\ OrderInv /\ Prompt /\ Grace
      /\ arg \in [Cores -> Objs]
  BY Zenon DEF GraceInv, ListInv, CountInv, TypeOK
<1>1. TypeOK'
  BY Zenon DEF ListInv, CountInv
<1>2. Prompt' /\ FreedInv'
  BY Zenon, <1>0, <1>1, NextPrompt, NextFreed
<1>3. ASSUME NEW c \in Cores, NEW o \in Objs, inc(c, o) PROVE Grace'
  <2>1. Evicting(c, 3) /\ arg' = arg
    BY Zenon, <1>3 DEF inc, Evicting, coreVars
  <2>2. pc[c] = "run" /\ held[o] > 0 /\ get_way(c, o, 1)
    <3>1. held[o] \in Nat
      BY Zenon, <1>0 DEF TypeOK
    <3> QED
      BY <1>3, <3>1 DEF inc
  <2> QED
    BY Zenon, <1>0, <1>1, <2>1, <2>2, GraceOperation
<1>4. ASSUME NEW c \in Cores, NEW o \in Objs, dec(c, o) PROVE Grace'
  <2>1. Evicting(c, 3) /\ arg' = arg
    BY Zenon, <1>4 DEF dec, Evicting, coreVars
  <2>2. pc[c] = "run" /\ held[o] > 0 /\ get_way(c, o, -1)
    BY Zenon, <1>4 DEF dec
  <2> QED
    BY Zenon, <1>0, <1>1, <2>1, <2>2, GraceOperation
<1>5. ASSUME NEW c \in Cores, get_inc(c) PROVE Grace'
  <2>0. arg[c] \in Objs
    BY Zenon, <1>0
  <2>1. Evicting(c, 3) /\ arg' = arg
    BY Zenon, <1>5 DEF get_inc, Evicting
  <2>2. pc[c] = "get" /\ get_way(c, arg[c], 1)
    BY Zenon, <1>5 DEF get_inc
  <2> QED
    BY Zenon, <1>0, <1>1, <2>0, <2>1, <2>2, GraceOperation
<1>6. ASSUME UNCHANGED vars PROVE Grace'
  <2>1. UNCHANGED <<refcount, review_epoch, dirty, weak, ways, pc, arg, local_epoch>>
    BY Zenon, <1>6 DEF vars, objVars, cacheVars, coreVars, epochVars
  <2> QED
    BY ZenonT(60), <1>0, <2>1 DEF Grace, Graced, Clean, Active, Passed
<1>7. Grace'
  BY Zenon, <1>0, <1>1, <1>3, <1>4, <1>5, <1>6, GraceFlushWay, GraceWeak, GraceTick,
     GraceFlushEnd, GraceQuiet, GraceRound DEF Next
<1> QED
  BY Zenon, <1>1, <1>2, <1>7 DEF GraceInv
=============================================================================
