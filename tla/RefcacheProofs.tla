-------------------------- MODULE RefcacheProofs ---------------------------
(***************************************************************************)
(* The counts: finite sums over the cores, as the recursion of Functions   *)
(* defines them, and what each operation does to refcount_ and the deltas. *)
(* An induction over sets is replaced by the choice of a smallest          *)
(* counterexample.  Then the theorems about refcache, for any number of    *)
(* cores and objects: the epoch barrier, types, true counts, the assertions *)
(* of the code, and, when reviews are prompt, that only unreferenced objects *)
(* are freed and that an object has at most one reviewer.                  *)
(***************************************************************************)
EXTENDS RefcacheListProofs, FiniteSetTheorems

\* A nonempty set of naturals has a least element.
LEMMA LeastNat ==
    ASSUME NEW T \in SUBSET Nat, T # {}
    PROVE  \E n \in T : \A m \in T : n <= m
<1>1. PICK n \in T : \A m \in T : ~(<<m, n>> \in OpToRel(<, Nat))
  BY Zenon, NatLessThanWellFounded, WFMin
<1>2. \A m \in T : ~(m < n)
  BY Zenon, <1>1 DEF OpToRel
<1> QED
  BY <1>2

\* The element that a fold takes first out of set s.
first_of(s) == CHOOSE x \in s : TRUE

\* The recursive equation of a sum over the subsets of S.
Adds(g, f, S) ==
    g = [s \in SUBSET S |->
            IF s = {} THEN 0 ELSE f[first_of(s)] + g[s \ {first_of(s)}]]

\* Taking the first element out of a subset s of S.
Shrinks(s, S) ==
    /\ Cardinality(s) \in Nat
    /\ s = {} => Cardinality(s) = 0
    /\ s # {} => /\ first_of(s) \in s /\ first_of(s) \in S
                 /\ s \ {first_of(s)} \in SUBSET S
                 /\ Cardinality(s \ {first_of(s)}) = Cardinality(s) - 1
                 /\ Cardinality(s) - 1 \in Nat

\* Taking an element out of a finite set makes it smaller.
LEMMA Smaller ==
    ASSUME NEW S, IsFiniteSet(S)
    PROVE  \A s \in SUBSET S : Shrinks(s, S)
<1> SUFFICES ASSUME NEW s \in SUBSET S PROVE Shrinks(s, S)
  BY Zenon
<1>1. IsFiniteSet(s) /\ Cardinality(s) \in Nat
  BY Zenon, FS_Subset, FS_CardinalityType
<1>2. ASSUME s # {}
      PROVE  first_of(s) \in s
  BY Zenon, <1>2 DEF first_of
<1>3. ASSUME s # {}
      PROVE  /\ Cardinality(s \ {first_of(s)}) = Cardinality(s) - 1
             /\ IsFiniteSet(s \ {first_of(s)})
  BY Zenon, <1>1, <1>2, <1>3, FS_RemoveElement
<1>4. ASSUME s # {}
      PROVE  Cardinality(s \ {first_of(s)}) \in Nat
  BY Zenon, <1>3, <1>4, FS_CardinalityType
<1>5. Cardinality({}) = 0
  BY Zenon, FS_EmptySet
<1> QED
  BY ZenonT(60), <1>1, <1>2, <1>3, <1>4, <1>5 DEF Shrinks

\* It has a solution.
LEMMA AddsExists ==
    ASSUME NEW S, IsFiniteSet(S), NEW f \in [S -> Int]
    PROVE  \E g : Adds(g, f, S)
<1> DEFINE R(g, s) == IF s = {} THEN 0 ELSE f[first_of(s)] + g[s \ {first_of(s)}]
           Good(g, n) == \A s \in SUBSET S : Cardinality(s) <= n => g[s] = R(g, s)
           G == [SUBSET S -> Int]
           B == {n \in Nat : ~\E g \in G : Good(g, n)}
<1>0. \A s \in SUBSET S : Shrinks(s, S)
  BY Zenon, Smaller
<1>1. ASSUME NEW g \in G, NEW s \in SUBSET S
      PROVE  R(g, s) \in Int
  <2>1. Shrinks(s, S)
    BY Zenon, <1>0
  <2> QED
    BY <2>1 DEF Shrinks
<1>2. B = {}
  <2> SUFFICES ASSUME B # {} PROVE FALSE
    BY Zenon
  <2>1. PICK n \in B : \A m \in B : n <= m
    BY Zenon, LeastNat, B \in SUBSET Nat
  <2> n \in Nat
    BY Zenon
  <2> HIDE DEF Good, G
  <2>2. n # 0
    <3>1. [s \in SUBSET S |-> 0] \in G
      BY DEF G
    <3>2. ASSUME NEW s \in SUBSET S, Cardinality(s) <= 0
          PROVE  s = {}
      <4>1. Shrinks(s, S)
        BY Zenon, <1>0
      <4> QED
        BY <3>2, <4>1 DEF Shrinks
    <3>3. Good([s \in SUBSET S |-> 0], 0)
      BY Zenon, <3>2 DEF Good
    <3> QED
      BY Zenon, <2>1, <3>1, <3>3
  <2>3. n - 1 \in Nat /\ n - 1 \notin B
    BY <2>1, <2>2
  <2>4. PICK g \in G : Good(g, n - 1)
    BY Zenon, <2>3
  <2> DEFINE h == [s \in SUBSET S |-> R(g, s)]
  <2>5. h \in G
    BY Zenon, <1>1 DEF G
  <2>6. Good(h, n)
    <3> SUFFICES ASSUME NEW s \in SUBSET S, Cardinality(s) <= n PROVE h[s] = R(h, s)
      BY Zenon DEF Good
    <3>1. CASE s = {}
      BY Zenon, <3>1
    <3>2. CASE s # {}
      <4> DEFINE t == s \ {first_of(s)}
      <4>1. t \in SUBSET S /\ Cardinality(t) <= n - 1
        BY <1>0, <3>2 DEF Shrinks
      <4>2. h[t] = g[t]
        BY Zenon, <2>4, <4>1 DEF Good
      <4>3. h[s] = f[first_of(s)] + g[t] /\ R(h, s) = f[first_of(s)] + h[t]
        BY Zenon, <3>2
      <4> QED
        BY Zenon, <4>2, <4>3
    <3> QED
      BY ZenonT(60), <3>1, <3>2
  <2> QED
    BY Zenon, <2>5, <2>6
<1>3. Cardinality(S) \in Nat
  BY Zenon, FS_CardinalityType
<1>4. PICK g \in G : Good(g, Cardinality(S))
  BY Zenon, <1>2, <1>3
<1>5. \A s \in SUBSET S : Cardinality(s) <= Cardinality(S)
  BY Zenon, FS_Subset
<1>6. \A s \in SUBSET S : g[s] = R(g, s)
  BY Zenon, <1>4, <1>5
<1>7. g = [s \in SUBSET S |-> R(g, s)]
  BY Zenon, <1>6
<1> QED
  BY Zenon, <1>7 DEF Adds

\* A property of the values of a solution that holds of the empty set, and of a set
\* when it holds of the set without its first element, holds of all subsets: the
\* set Bad of the exceptions is empty.
LEMMA SubsetInduction ==
    ASSUME NEW S, IsFiniteSet(S), NEW Bad \in SUBSET (SUBSET S), {} \notin Bad,
           \A s \in Bad : s # {} => s \ {first_of(s)} \in Bad
    PROVE  Bad = {}
<1> SUFFICES ASSUME Bad # {} PROVE FALSE
  BY Zenon
<1> DEFINE N == {Cardinality(s) : s \in Bad}
<1>0. \A s \in SUBSET S : Shrinks(s, S)
  BY Zenon, Smaller
<1>1. N \in SUBSET Nat /\ N # {}
  <2>1. \A s \in SUBSET S : Cardinality(s) \in Nat
    BY Zenon, <1>0 DEF Shrinks
  <2> QED
    BY Zenon, <2>1
<1>2. PICK n \in N : \A m \in N : n <= m
  BY Zenon, <1>1, LeastNat
<1>3. PICK s \in Bad : Cardinality(s) = n
  BY Zenon
<1>4. s # {} /\ s \ {first_of(s)} \in Bad
  BY Zenon
<1>5. Cardinality(s \ {first_of(s)}) = n - 1 /\ n \in Nat
  BY Zenon, <1>0, <1>3, <1>4 DEF Shrinks
<1> QED
  BY <1>2, <1>4, <1>5

\* What the equation says of its solutions.
Sums(g, f, S) ==
    /\ g \in [SUBSET S -> Int]
    /\ g[{}] = 0
    /\ \A s \in SUBSET S : s # {} => g[s] = f[first_of(s)] + g[s \ {first_of(s)}]

\* What is defined by adding up one element after the other is an integer.
LEMMA AddsStep ==
    ASSUME NEW S, IsFiniteSet(S), NEW f \in [S -> Int], NEW g, Adds(g, f, S)
    PROVE  Sums(g, f, S)
<1> DEFINE Bad == {s \in SUBSET S : g[s] \notin Int}
<1>1. \A s \in SUBSET S :
         g[s] = IF s = {} THEN 0 ELSE f[first_of(s)] + g[s \ {first_of(s)}]
  BY Zenon DEF Adds
<1>2. {} \notin Bad
  BY <1>1
<1>0. \A s \in SUBSET S : Shrinks(s, S)
  BY Zenon, Smaller
<1>3. ASSUME NEW s \in Bad, s # {}
      PROVE  s \ {first_of(s)} \in Bad
  <2>1. s \in SUBSET S /\ Shrinks(s, S)
    BY Zenon, <1>0
  <2>2. /\ s \ {first_of(s)} \in SUBSET S /\ f[first_of(s)] \in Int
        /\ g[s] = f[first_of(s)] + g[s \ {first_of(s)}]
    BY Zenon, <1>1, <1>3, <2>1 DEF Shrinks
  <2>3. g[s \ {first_of(s)}] \in Int => g[s] \in Int
    BY <2>2
  <2> QED
    BY Zenon, <2>2, <2>3
<1>4. Bad = {}
  BY Zenon, <1>2, <1>3, SubsetInduction
<1>5. g = [s \in SUBSET S |-> g[s]]
  BY Zenon DEF Adds
<1> QED
  BY Zenon, <1>1, <1>4, <1>5 DEF Sums

\* The sum of the values of f.
Total(f) == FoldFunction(+, 0, f)

\* A fold of + is a solution of the equation, taken at the whole domain.
LEMMA TotalDef ==
    ASSUME NEW S, IsFiniteSet(S), NEW f \in [S -> Int]
    PROVE  \E g : Sums(g, f, S) /\ Total(f) = g[S]
<1> DEFINE g == CHOOSE h : Adds(h, f, S)
<1>1. Total(f) = g[S]
  BY Zenon DEF Total, FoldFunction, FoldFunctionOnSet, MapThenFoldSet, Adds, first_of
<1>2. Adds(g, f, S)
  BY Zenon, AddsExists
<1> HIDE DEF g
<1> QED
  BY Zenon, <1>1, <1>2, AddsStep

\* A finite sum of integers is an integer.
LEMMA TotalType ==
    ASSUME NEW S, IsFiniteSet(S), NEW f \in [S -> Int]
    PROVE  Total(f) \in Int
<1>1. PICK g : Sums(g, f, S) /\ Total(f) = g[S]
  BY Zenon, TotalDef
<1> QED
  BY <1>1 DEF Sums

\* The sum of zeros is zero.
LEMMA TotalZero ==
    ASSUME NEW S, IsFiniteSet(S), NEW f \in [S -> Int], \A c \in S : f[c] = 0
    PROVE  Total(f) = 0
<1>1. PICK g : Sums(g, f, S) /\ Total(f) = g[S]
  BY Zenon, TotalDef
<1> DEFINE Bad == {s \in SUBSET S : g[s] # 0}
<1>2. {} \notin Bad
  BY Zenon, <1>1 DEF Sums
<1>0. \A s \in SUBSET S : Shrinks(s, S)
  BY Zenon, Smaller
<1>3. ASSUME NEW s \in Bad, s # {}
      PROVE  s \ {first_of(s)} \in Bad
  <2>1. s \in SUBSET S /\ Shrinks(s, S)
    BY Zenon, <1>0
  <2> QED
    BY <1>1, <1>3, <2>1 DEF Shrinks, Sums
<1>4. Bad = {}
  BY ZenonT(60), <1>2, <1>3, SubsetInduction
<1> QED
  BY Zenon, <1>1, <1>4

\* Changing one value changes the sum by as much.
LEMMA TotalExcept ==
    ASSUME NEW S, IsFiniteSet(S), NEW f \in [S -> Int], NEW c \in S, NEW v \in Int
    PROVE  Total([f EXCEPT ![c] = v]) = Total(f) + (v - f[c])
<1> DEFINE h == [f EXCEPT ![c] = v]
           d(s) == IF c \in s THEN v - f[c] ELSE 0
<1>0. h \in [S -> Int] /\ h[c] = v /\ \A x \in S : x # c => h[x] = f[x]
  BY Zenon
<1> HIDE DEF h
<1>1. PICK g : Sums(g, f, S) /\ Total(f) = g[S]
  BY Zenon, TotalDef
<1>2. PICK k : Sums(k, h, S) /\ Total(h) = k[S]
  BY Zenon, <1>0, TotalDef
<1> DEFINE Bad == {s \in SUBSET S : k[s] # g[s] + d(s)}
<1>3. {} \notin Bad
  BY <1>1, <1>2 DEF Sums
<1>4. ASSUME NEW s \in Bad, s # {}
      PROVE  s \ {first_of(s)} \in Bad
  <2> DEFINE x == first_of(s)
             t == s \ {x}
  <2>1. s \in SUBSET S /\ x \in s /\ x \in S /\ t \in SUBSET S
    BY Zenon, <1>4, Smaller DEF Shrinks
  <2>2. g[s] = f[x] + g[t] /\ k[s] = h[x] + k[t]
    BY ZenonT(60), <1>1, <1>2, <1>4, <2>1 DEF Sums
  <2>3. g[t] \in Int /\ k[t] \in Int /\ f[x] \in Int /\ f[c] \in Int /\ h[x] \in Int
    BY ZenonT(60), <1>0, <1>1, <1>2, <2>1 DEF Sums
  <2>4. k[s] # g[s] + d(s)
    BY Zenon
  <2>5. CASE x = c
    <3>1. d(s) = v - f[c] /\ d(t) = 0 /\ h[x] = v
      BY ZenonT(60), <1>0, <2>1, <2>5
    <3> HIDE DEF d, x, t
    <3>2. k[t] # g[t] + d(t)
      BY <2>2, <2>3, <2>4, <2>5, <3>1
    <3> QED
      BY Zenon, <2>1, <3>2 DEF t, x
  <2>6. CASE x # c
    <3>1. d(s) = d(t) /\ h[x] = f[x] /\ d(s) \in Int
      BY <1>0, <2>1, <2>6
    <3> HIDE DEF d, x, t
    <3>2. k[t] # g[t] + d(t)
      BY <2>2, <2>3, <2>4, <2>6, <3>1
    <3> QED
      BY Zenon, <2>1, <3>2 DEF t, x
  <2> QED
    BY Zenon, <2>5, <2>6
<1>5. Bad = {}
  BY Zenon, <1>3, <1>4, SubsetInduction
<1> QED
  BY ZenonT(60), <1>1, <1>2, <1>5 DEF h

\* What review cuts off its list.
LEMMA CutoffDef ==
    ASSUME NEW l \in Seq(Objs), NEW e \in Nat, review_epoch \in [Objs -> Nat]
    PROVE  /\ cutoff(l, e) \in 0 .. Len(l)
           /\ \A i \in 1 .. cutoff(l, e) : review_epoch[l[i]] <= e
           /\ cutoff(l, e) < Len(l) => review_epoch[l[cutoff(l, e) + 1]] > e
<1> DEFINE N == {n \in 0 .. Len(l) : n < Len(l) => review_epoch[l[n + 1]] > e}
<1>0. Len(l) \in Nat /\ \A i \in 1 .. Len(l) : review_epoch[l[i]] \in Nat
  OBVIOUS
<1>1. N \in SUBSET Nat /\ Len(l) \in N
  BY <1>0
<1>2. PICK n \in N : \A m \in N : n <= m
  BY Zenon, <1>1, LeastNat
<1>3. ASSUME NEW i \in 1 .. n PROVE review_epoch[l[i]] <= e
  <2>0. n \in Nat /\ n <= Len(l) /\ i \in Nat /\ i >= 1 /\ i <= n
    BY <1>0, <1>2
  <2>1. i - 1 \in 0 .. Len(l) /\ i - 1 \notin N /\ i - 1 < Len(l)
    <3>1. i - 1 \in 0 .. Len(l) /\ i - 1 < Len(l) /\ ~(n <= i - 1)
      BY <1>0, <2>0
    <3> QED
      BY Zenon, <1>2, <3>1
  <2>2. ~(review_epoch[l[(i - 1) + 1]] > e)
    BY Zenon, <2>1
  <2> QED
    BY <1>0, <2>1, <2>2
<1>4. \E m \in 0 .. Len(l) :
         /\ \A i \in 1 .. m : review_epoch[l[i]] <= e
         /\ m < Len(l) => review_epoch[l[m + 1]] > e
  BY Zenon, <1>2, <1>3
<1> QED
  BY Zenon, <1>4 DEF cutoff

\* So every core's review cuts off what is due.
LEMMA CutoffsHold == TypeOK => Cutoffs
<1> SUFFICES ASSUME TypeOK PROVE Cutoffs
  BY Zenon
<1>1. /\ global_epoch \in Nat /\ review_epoch \in [Objs -> Nat]
      /\ review_ \in [Cores -> Seq(Objs)]
  BY Zenon DEF TypeOK
<1> SUFFICES ASSUME NEW c \in Cores
             PROVE  LET l == review_[c]
                        n == cutoff(l, global_epoch) IN
                    /\ n \in 0 .. Len(l)
                    /\ \A i \in 1 .. n : review_epoch[l[i]] <= global_epoch
                    /\ n < Len(l) => review_epoch[l[n + 1]] > global_epoch
  BY Zenon DEF Cutoffs
<1>2. review_[c] \in Seq(Objs)
  BY Zenon, <1>1
<1> QED
  BY ZenonT(60), <1>1, <1>2, CutoffDef

\* An operation moves what it evicts from the cache to the object and adds d
\* to the count of o, in its own cache alone.
LEMMA GetWayStep ==
    ASSUME TypeOK, CacheInv, NEW c \in Cores, NEW o \in Objs, NEW d \in {1, -1},
           get_way(c, o, d)
    PROVE  /\ ObjType' /\ CacheType' /\ CacheInv'
           /\ delta' = [delta EXCEPT ![c] = delta'[c]]
           /\ \A x \in Objs : Gain(c, x) = IF x = o THEN d ELSE 0
<1>a. \A x \in Objs : delta[c][x] \in Int /\ delta[c][x] \in IntMin..IntMax
  BY Zenon, DeltaRange
<1>b. /\ IntMin \in Int /\ IntMax \in Int /\ IntMin <= -1 /\ IntMax >= 1
      /\ d \in Int /\ 0 \in IntMin..IntMax /\ d \in IntMin..IntMax
  BY DeltaRange
<1>0. /\ ways \in [Cores -> SUBSET Objs] /\ delta \in [Cores -> [Objs -> IntMin..IntMax]]
      /\ \A x \in Objs : /\ refcount[x] \in Int /\ delta[c][x] \in Int
                         /\ delta[c][x] \in IntMin..IntMax
      /\ IntMin \in Int /\ IntMax \in Int /\ IntMin <= -1 /\ IntMax >= 1
      /\ d \in Int /\ 0 \in IntMin..IntMax /\ d \in IntMin..IntMax
      /\ refcount \in [Objs -> Int]
  BY ZenonT(60), <1>a, <1>b DEF TypeOK
<1>1. /\ \/ Cached(c, o, d)
         \/ \E v \in Objs : Replaced(c, o, d, v)
         \/ Refreshed(c, o, d)
      /\ \A v, w \in ways'[c] : Way[v] = Way[w] => v = w
  BY GetWayCases
<1>2. ASSUME NEW D \in [Objs -> IntMin..IntMax], NEW W \in SUBSET Objs,
             delta' = [delta EXCEPT ![c] = D], ways' = [ways EXCEPT ![c] = W],
             \A x \in Objs : D[x] # 0 => x \in W
      PROVE  /\ CacheType' /\ CacheInv' /\ delta'[c] = D
             /\ delta' = [delta EXCEPT ![c] = delta'[c]]
  <2>1. delta'[c] = D /\ ways'[c] = W
    BY Zenon, <1>0, <1>2
  <2>2. \A e \in Cores \ {c} : delta'[e] = delta[e] /\ ways'[e] = ways[e]
    BY Zenon, <1>0, <1>2
  <2>3. CacheType'
    BY Zenon, <1>0, <1>2 DEF CacheType
  <2>4. CacheInv'
    BY <1>1, <1>2, <2>1, <2>2 DEF CacheInv
  <2> QED
    BY Zenon, <1>2, <2>1, <2>3, <2>4
<1>3. CASE Cached(c, o, d)
  <2> DEFINE D == [delta[c] EXCEPT ![o] = delta[c][o] + d]
             W == ways[c] \union {o}
  <2>1. delta[c][o] + d \in IntMin..IntMax
    <3>1. delta[c][o] \in IntMin..IntMax /\ delta[c][o] # IntMin /\ delta[c][o] # IntMax
      BY Zenon, <1>0, <1>3 DEF Cached
    <3>2. d = 1 \/ d = -1
      BY Zenon
    <3> HIDE DEF IntMin
    <3> QED
      BY <1>0, <3>1, <3>2
  <2>2. D \in [Objs -> IntMin..IntMax] /\ W \in SUBSET Objs
    BY ZenonT(60), <1>0, <2>1
  <2>3. \A x \in Objs : D[x] = IF x = o THEN delta[c][o] + d ELSE delta[c][x]
    BY Zenon, <1>0
  <2>4. \A x \in Objs : D[x] # 0 => x \in W
    BY Zenon, <2>3 DEF CacheInv
  <2>5. delta' = [delta EXCEPT ![c] = D] /\ ways' = [ways EXCEPT ![c] = W]
    BY ZenonT(60), <1>3 DEF Cached
  <2> HIDE DEF D, W
  <2>6. /\ CacheType' /\ CacheInv' /\ delta'[c] = D
        /\ delta' = [delta EXCEPT ![c] = delta'[c]]
    BY ZenonT(60), <1>2, <2>2, <2>4, <2>5
  <2>7. ObjType' /\ refcount' = refcount
    BY ZenonT(60), <1>3 DEF Cached, TypeOK, ObjType, objVars
  <2>8. \A x \in Objs : Gain(c, x) = IF x = o THEN d ELSE 0
    BY <1>0, <2>3, <2>6, <2>7 DEF Gain
  <2> QED
    BY Zenon, <2>6, <2>7, <2>8
<1>4. ASSUME NEW v \in Objs, Replaced(c, o, d, v)
      PROVE  /\ ObjType' /\ CacheType' /\ CacheInv'
             /\ delta' = [delta EXCEPT ![c] = delta'[c]]
             /\ \A x \in Objs : Gain(c, x) = IF x = o THEN d ELSE 0
  <2> DEFINE D == [delta[c] EXCEPT ![v] = 0, ![o] = d]
             W == (ways[c] \ {v}) \union {o}
  <2>2. D \in [Objs -> IntMin..IntMax] /\ W \in SUBSET Objs
    BY Zenon, <1>0
  <2>3. \A x \in Objs : D[x] = IF x = o THEN d ELSE IF x = v THEN 0 ELSE delta[c][x]
    BY Zenon, <1>0
  <2>4. \A x \in Objs : D[x] # 0 => x \in W
    BY <2>3 DEF CacheInv
  <2>5. delta' = [delta EXCEPT ![c] = D] /\ ways' = [ways EXCEPT ![c] = W]
    BY Zenon, <1>4 DEF Replaced
  <2> HIDE DEF D, W
  <2>6. /\ CacheType' /\ CacheInv' /\ delta'[c] = D
        /\ delta' = [delta EXCEPT ![c] = delta'[c]]
    BY ZenonT(60), <1>2, <2>2, <2>4, <2>5
  <2>7. ObjType' /\ refcount' = [refcount EXCEPT ![v] = @ + delta[c][v]]
    BY Zenon, <1>4, EvictedType DEF Replaced, Evicted
  <2>8. v # o /\ delta[c][o] = 0
    BY Zenon, <1>4 DEF Replaced
  <2>9. \A x \in Objs : Gain(c, x) = IF x = o THEN d ELSE 0
    BY <1>0, <2>3, <2>6, <2>7, <2>8 DEF Gain
  <2> QED
    BY Zenon, <2>6, <2>7, <2>9
<1>5. CASE Refreshed(c, o, d)
  <2> DEFINE D == [delta[c] EXCEPT ![o] = d]
             W == ways[c]
  <2>2. D \in [Objs -> IntMin..IntMax] /\ W \in SUBSET Objs
    BY Zenon, <1>0
  <2>3. \A x \in Objs : D[x] = IF x = o THEN d ELSE delta[c][x]
    BY Zenon, <1>0
  <2>4. \A x \in Objs : D[x] # 0 => x \in W
    BY ZenonT(60), <1>5, <2>3 DEF CacheInv, Refreshed
  <2>5. delta' = [delta EXCEPT ![c] = D] /\ ways' = [ways EXCEPT ![c] = W]
    BY ZenonT(60), <1>0, <1>5 DEF Refreshed
  <2> HIDE DEF D, W
  <2>6. /\ CacheType' /\ CacheInv' /\ delta'[c] = D
        /\ delta' = [delta EXCEPT ![c] = delta'[c]]
    BY ZenonT(60), <1>2, <2>2, <2>4, <2>5
  <2>7. ObjType' /\ refcount' = [refcount EXCEPT ![o] = @ + delta[c][o]]
    BY ZenonT(60), <1>5, EvictedType DEF Refreshed, Evicted
  <2>8. \A x \in Objs : Gain(c, x) = IF x = o THEN d ELSE 0
    BY <1>0, <2>3, <2>6, <2>7 DEF Gain
  <2> QED
    BY ZenonT(60), <2>6, <2>7, <2>8
<1> QED
  BY ZenonT(60), <1>1, <1>3, <1>4, <1>5

\* The type invariant, by who changes what.
LEMMA TypeParts == TypeOK <=> ObjType /\ CacheType /\ CoreType
BY Zenon DEF TypeOK, ObjType, CacheType, CoreType

\* The deltas of object x, by core.
Deltas(x) == [c \in Cores |-> delta[c][x]]

\* TrueCount as a sum over the deltas of an object.
LEMMA CountDef ==
    /\ TrueCount <=> \A x \in Objs : held[x] = refcount[x] + Total(Deltas(x))
    /\ TrueCount' <=> \A x \in Objs : held'[x] = refcount'[x] + Total(Deltas(x)')
<1>1. TrueCount <=> \A x \in Objs : held[x] = refcount[x] + Total(Deltas(x))
  BY Zenon DEF TrueCount, Total, Deltas
<1>2. TrueCount' <=> \A x \in Objs : held'[x] = refcount'[x] + Total(Deltas(x)')
  <2>1. (TrueCount <=> \A x \in Objs : held[x] = refcount[x] + Total(Deltas(x)))'
    BY <1>1, PTL
  <2> QED
    BY Zenon, <2>1
<1> QED
  BY Zenon, <1>1, <1>2

\* A step on one core's cache keeps the true count if the count and the
\* delta gain together what the references do.
LEMMA CountStep ==
    ASSUME TypeOK, TypeOK', TrueCount, NEW c \in Cores,
           delta' = [delta EXCEPT ![c] = delta'[c]],
           \A x \in Objs : held'[x] - held[x] = Gain(c, x)
    PROVE  TrueCount'
<1> SUFFICES ASSUME NEW x \in Objs
             PROVE  held'[x] = refcount'[x] + Total(Deltas(x)')
  BY Zenon, CountDef
<1>1. /\ held[x] \in Int /\ held'[x] \in Int /\ refcount[x] \in Int /\ refcount'[x] \in Int
      /\ delta \in [Cores -> [Objs -> IntMin..IntMax]]
      /\ \A e \in Cores \ {c} : delta'[e] = delta[e]
  <2>1. /\ held[x] \in Nat /\ held'[x] \in Nat /\ refcount[x] \in Int /\ refcount'[x] \in Int
        /\ delta \in [Cores -> [Objs -> IntMin..IntMax]]
    BY Zenon DEF TypeOK
  <2> QED
    BY <2>1
<1>2. \A e \in Cores : delta[e][x] \in Int
  BY Zenon, DeltaRange
<1>3. delta'[c][x] \in Int
  <2>1. delta'[c][x] \in IntMin..IntMax
    BY DEF TypeOK
  <2> QED
    BY <2>1, DeltaRange
<1>4. Deltas(x) \in [Cores -> Int] /\ Deltas(x)[c] = delta[c][x]
  BY Zenon, <1>2 DEF Deltas
<1>5. Deltas(x)' = [Deltas(x) EXCEPT ![c] = delta'[c][x]]
  BY Zenon, <1>1 DEF Deltas
<1>6. Total(Deltas(x)') = Total(Deltas(x)) + (delta'[c][x] - delta[c][x])
  <2>1. IsFiniteSet(Cores)
    BY Zenon, CoresAssumption
  <2> DEFINE f == Deltas(x)
             v == delta'[c][x]
  <2>2. f \in [Cores -> Int] /\ v \in Int
    BY ZenonT(60), <1>3, <1>4
  <2> HIDE DEF f, v
  <2>3. Total([f EXCEPT ![c] = v]) = Total(f) + (v - f[c])
    BY ZenonT(60), <2>1, <2>2, TotalExcept
  <2> QED
    BY ZenonT(60), <1>4, <1>5, <2>3 DEF f, v
<1>7. Total(Deltas(x)) \in Int
  BY ZenonT(60), <1>4, TotalType, CoresAssumption
<1>8. held[x] = refcount[x] + Total(Deltas(x))
  BY Zenon, CountDef
<1>9. held'[x] - held[x] = (refcount'[x] - refcount[x]) + (delta'[c][x] - delta[c][x])
  BY Zenon DEF Gain
<1>10. delta[c][x] \in Int
  BY Zenon, <1>2
<1> HIDE DEF Total, Deltas
<1> QED
  BY <1>1, <1>3, <1>6, <1>7, <1>8, <1>9, <1>10

\* A step that changes no count keeps TrueCount.
LEMMA CountFrame ==
    ASSUME TrueCount, UNCHANGED <<held, refcount, delta>>
    PROVE  TrueCount'
<1>1. \A x \in Objs : Deltas(x)' = Deltas(x)
  BY Zenon DEF Deltas
<1> QED
  BY ZenonT(60), <1>1, CountDef

\* If no core has a delta for an object, its references are all in refcount_.
LEMMA CountSettles == CountInv => Settled
<1> SUFFICES ASSUME CountInv, NEW o \in Objs, \A c \in Cores : delta[c][o] = 0
             PROVE  held[o] = refcount[o]
  BY Zenon DEF Settled
<1>0. TypeOK /\ TrueCount
  BY ZenonT(60) DEF CountInv
<1>1. Deltas(o) \in [Cores -> Int] /\ \A c \in Cores : Deltas(o)[c] = 0
  BY <1>0 DEF TypeOK, Deltas
<1>2. Total(Deltas(o)) = 0
  BY Zenon, <1>1, TotalZero, CoresAssumption
<1>3. held[o] = refcount[o] + Total(Deltas(o))
  BY Zenon, <1>0, CountDef
<1>4. refcount[o] \in Int
  BY Zenon, <1>0 DEF TypeOK
<1> QED
  BY <1>2, <1>3, <1>4

\* inc, dec and the second half of weakref::get.
LEMMA CountOperation ==
    ASSUME CountInv, NEW c \in Cores, NEW o \in Objs, NEW d \in {1, -1},
           get_way(c, o, d), held' = [held EXCEPT ![o] = @ + d], held[o] + d \in Nat,
           touched(o), UNCHANGED <<epochVars, reap_, arg, reviewable, epoch, onzeroed>>,
           pc' = pc \/ (pc[c] = "get" /\ pc' = [pc EXCEPT ![c] = "run"])
    PROVE  TypeOK' /\ CacheInv' /\ TrueCount' /\ Reviews'
<1>0. TypeOK /\ CacheInv /\ TrueCount /\ Reviews /\ CoreType
  BY Zenon, TypeParts DEF CountInv
<1>1. /\ ObjType' /\ CacheType' /\ CacheInv'
      /\ delta' = [delta EXCEPT ![c] = delta'[c]]
      /\ \A x \in Objs : Gain(c, x) = IF x = o THEN d ELSE 0
  BY ZenonT(60), <1>0, GetWayStep
<1>2. held' \in [Objs -> Nat] /\ last' \in [Objs -> Nat]
  BY Zenon, <1>0 DEF CoreType, touched
<1>3. CoreType'
  BY ZenonT(60), <1>0, <1>2 DEF CoreType, epochVars
<1>4. TypeOK'
  BY <1>1, <1>3, TypeParts, PTL
<1>5. \A x \in Objs : held'[x] - held[x] = Gain(c, x)
  BY <1>0, <1>1 DEF CoreType
<1>6. TrueCount'
  BY Zenon, <1>0, <1>1, <1>4, <1>5, CountStep
<1>7. Reviews'
  BY Zenon, <1>0 DEF Reviews, CoreType
<1> QED
  BY Zenon, <1>1, <1>4, <1>6, <1>7

\* The eviction of a way by flush moves a delta into refcount_.
LEMMA CountFlushWay ==
    ASSUME CountInv, NEW c \in Cores, NEW o \in Objs, flush_way(c, o)
    PROVE  TypeOK' /\ CacheInv' /\ TrueCount' /\ Reviews'
<1>0. TypeOK /\ CacheInv /\ TrueCount /\ Reviews /\ CoreType
  BY Zenon, TypeParts DEF CountInv
<1>1. /\ ObjType' /\ CacheType' /\ CacheInv'
      /\ delta' = [delta EXCEPT ![c] = delta'[c]]
      /\ \A x \in Objs : Gain(c, x) = 0
  BY ZenonT(60), <1>0, FlushWayStep
<1>2. UNCHANGED <<epochVars, reap_, coreVars, clientVars>>
  BY ZenonT(60) DEF flush_way
<1>3. CoreType'
  BY ZenonT(60), <1>0, <1>2 DEF CoreType, epochVars, coreVars, clientVars
<1>4. TypeOK'
  BY <1>1, <1>3, TypeParts, PTL
<1>5. \A x \in Objs : held'[x] - held[x] = Gain(c, x)
  BY <1>0, <1>1, <1>2 DEF CoreType, clientVars
<1>6. TrueCount'
  BY ZenonT(60), <1>0, <1>1, <1>4, <1>5, CountStep
<1>7. Reviews'
  BY Zenon, <1>0, <1>2 DEF Reviews, coreVars
<1> QED
  BY ZenonT(60), <1>1, <1>4, <1>6, <1>7

\* The steps that leave the counts and the caches alone.
LEMMA CountOther ==
    ASSUME CountInv, UNCHANGED <<cacheVars, refcount, held>>, ObjType', CoreType', Reviews'
    PROVE  TypeOK' /\ CacheInv' /\ TrueCount' /\ Reviews'
<1>0. TypeOK /\ CacheInv /\ TrueCount /\ CacheType
  BY Zenon, TypeParts DEF CountInv
<1>1. CacheType' /\ CacheInv'
  BY Zenon, <1>0 DEF CacheType, CacheInv, cacheVars
<1>2. TypeOK'
  BY <1>1, TypeParts, PTL
<1>3. TrueCount'
  BY ZenonT(60), <1>0, CountFrame DEF cacheVars
<1> QED
  BY ZenonT(60), <1>1, <1>2, <1>3

\* Weak references change no count.
LEMMA CountWeak ==
    ASSUME CountInv, NEW c \in Cores, NEW o \in Objs,
           make_weakref(c, o) \/ get_revive(c, o)
    PROVE  TypeOK' /\ CacheInv' /\ TrueCount' /\ Reviews'
<1>0. ObjType /\ CoreType /\ Reviews
  BY ZenonT(60), TypeParts DEF CountInv
<1>1. CASE make_weakref(c, o)
  <2>1. ObjType' /\ CoreType' /\ Reviews'
    BY ZenonT(60), <1>0, <1>1 DEF make_weakref, ObjType, CoreType, Reviews, epochVars, listVars,
                      coreVars, clientVars
  <2>2. UNCHANGED <<cacheVars, refcount, held>>
    BY Zenon, <1>1 DEF make_weakref, clientVars
  <2> QED
    BY ZenonT(60), <2>1, <2>2, CountOther
<1>2. CASE get_revive(c, o)
  <2>1. ObjType'
    BY ZenonT(60), <1>0, <1>2 DEF get_revive, ObjType, listVars
  <2>2. CoreType'
    BY ZenonT(60), <1>0, <1>2 DEF get_revive, CoreType, epochVars, listVars, touched
  <2>3. Reviews'
    BY ZenonT(60), <1>0, <1>2 DEF get_revive, CoreType, Reviews
  <2>4. UNCHANGED <<cacheVars, refcount, held>>
    BY Zenon, <1>2 DEF get_revive
  <2> QED
    BY ZenonT(60), <2>1, <2>2, <2>3, <2>4, CountOther
<1> QED
  BY ZenonT(60), <1>1, <1>2

\* Neither do the epochs.
LEMMA CountEpoch ==
    ASSUME CountInv, NEW c \in Cores, tick(c) \/ flush_end(c)
    PROVE  TypeOK' /\ CacheInv' /\ TrueCount' /\ Reviews'
<1>0. ObjType /\ CoreType /\ Reviews /\ BarrierInv
  BY Zenon, TypeParts DEF CountInv
<1>1. CASE tick(c)
  <2>1. ObjType'
    BY ZenonT(60), <1>0, <1>1 DEF tick, ObjType, objVars, listVars
  <2>2. /\ pc' \in [Cores -> {"run", "get", "flush", "flushed", "review"}]
        /\ local_epoch' \in [Cores -> Nat]
    BY ZenonT(60), <1>0, <1>1 DEF tick, CoreType
  <2>3. CoreType'
    BY ZenonT(60), <1>0, <1>1, <2>2 DEF tick, CoreType, listVars, clientVars
  <2>4. Reviews'
    BY <1>0, <1>1 DEF tick, CoreType, Reviews
  <2>5. UNCHANGED <<cacheVars, refcount, held>>
    BY Zenon, <1>1 DEF tick, objVars, clientVars
  <2> QED
    BY ZenonT(60), <2>1, <2>3, <2>4, <2>5, CountOther
<1>2. CASE flush_end(c)
  <2>1. ObjType'
    BY ZenonT(60), <1>0, <1>2 DEF flush_end, ObjType, objVars, listVars
  <2>2. /\ Cardinality(Cores) \in Nat
        /\ c \in Pending /\ IsFiniteSet(Pending) /\ Cardinality(Pending) \in Nat
    <3>1. Pending \in SUBSET Cores /\ c \in Pending
      BY Zenon, <1>2 DEF Pending, flush_end
    <3> QED
      BY ZenonT(60), <3>1, CoresAssumption, FS_Subset, FS_CardinalityType
  <2>3. global_epoch_left # 0 /\ global_epoch_left \in Nat
    BY ZenonT(60), <1>0, <2>2, FS_EmptySet DEF BarrierInv, EpochBarrier
  <2>4. global_epoch' \in Nat /\ global_epoch_left' \in Nat
    BY <1>0, <1>2, <2>2, <2>3 DEF flush_end, CoreType
  <2>5. CoreType'
    BY ZenonT(60), <1>0, <1>2, <2>4 DEF flush_end, CoreType, listVars, clientVars
  <2>6. Reviews'
    BY ZenonT(60), <1>0, <1>2 DEF flush_end, CoreType, Reviews
  <2>7. UNCHANGED <<cacheVars, refcount, held>>
    BY Zenon, <1>2 DEF flush_end, objVars, clientVars
  <2> QED
    BY ZenonT(60), <2>1, <2>5, <2>6, <2>7, CountOther
<1> QED
  BY ZenonT(60), <1>1, <1>2

\* Neither does the choice of what to review.
LEMMA CountReview ==
    ASSUME CountInv, NEW c \in Cores, review(c)
    PROVE  TypeOK' /\ CacheInv' /\ TrueCount' /\ Reviews'
<1> DEFINE l == review_[c]
           n == cutoff(l, global_epoch)
<1>0. ObjType /\ CoreType /\ Reviews
  BY Zenon, TypeParts DEF CountInv
<1>1. l \in Seq(Objs) /\ global_epoch \in Nat /\ review_epoch \in [Objs -> Nat]
  BY Zenon, <1>0 DEF ObjType, CoreType
<1>2. n \in 0 .. Len(l)
  BY ZenonT(60), <1>1, CutoffDef
<1> HIDE DEF n
<1>3. /\ SubSeq(l, 1, n) \in Seq(Objs) /\ SubSeq(l, n + 1, Len(l)) \in Seq(Objs)
      /\ Len(SubSeq(l, 1, n)) = n
  BY <1>1, <1>2
<1>5. /\ pc[c] = "flushed"
      /\ epoch' = [epoch EXCEPT ![c] = global_epoch]
      /\ reviewable' = [reviewable EXCEPT ![c] = SubSeq(l, 1, n)]
      /\ review_' = [review_ EXCEPT ![c] = SubSeq(l, n + 1, Len(l))]
      /\ pc' = [pc EXCEPT ![c] = IF n = 0 THEN "run" ELSE "review"]
      /\ UNCHANGED <<objVars, cacheVars, epochVars, reap_, arg, clientVars>>
  BY Zenon DEF review, n
<1> HIDE DEF l
<1>6. ObjType'
  BY ZenonT(60), <1>0, <1>3, <1>5 DEF ObjType, objVars
<1>7. CoreType'
  BY ZenonT(60), <1>0, <1>1, <1>3, <1>5 DEF CoreType, epochVars, clientVars
<1>8. Reviews'
  BY ZenonT(60), <1>0, <1>2, <1>3, <1>5 DEF CoreType, Reviews
<1>9. UNCHANGED <<cacheVars, refcount, held>>
  BY Zenon, <1>5 DEF objVars, clientVars
<1> QED
  BY ZenonT(60), <1>6, <1>7, <1>8, <1>9, CountOther

\* One round of the review loop.
LEMMA CountRound ==
    ASSUME CountInv, NEW c \in Cores, NEW o \in Objs,
           review_requeue(c, o) \/ review_free(c, o) \/ review_disown(c, o)
    PROVE  TypeOK' /\ CacheInv' /\ TrueCount' /\ Reviews'
<1>0. ObjType /\ CoreType /\ Reviews
  BY Zenon, TypeParts DEF CountInv
<1>1. review_next(c, o)
  BY Zenon DEF review_requeue, review_free, review_disown
<1>2. /\ reviewable[c] \in Seq(Objs) /\ Len(reviewable[c]) \in Nat \ {0}
  BY <1>0, <1>1 DEF review_next, CoreType, Reviews
<1>3. /\ Tail(reviewable[c]) \in Seq(Objs)
      /\ Len(Tail(reviewable[c])) = 0 <=> Len(reviewable[c]) = 1
  <2>1. Tail(reviewable[c]) \in Seq(Objs) /\ Len(Tail(reviewable[c])) = Len(reviewable[c]) - 1
    BY <1>2
  <2> QED
    BY <1>2, <2>1
<1>4. /\ reviewable' = [reviewable EXCEPT ![c] = Tail(reviewable[c])]
      /\ pc' = [pc EXCEPT ![c] = IF Len(reviewable[c]) = 1 THEN "run" ELSE pc[c]]
      /\ UNCHANGED <<refcount, cacheVars, epochVars, arg, epoch, clientVars>>
      /\ pc[c] = "review"
  BY Zenon, <1>1 DEF review_next
<1>5. Reviews'
  BY Zenon, <1>0, <1>3, <1>4 DEF CoreType, Reviews
<1>6. reap_' \in [Cores -> SUBSET Objs]
  <2>1. reap_' = reap_ \/ reap_' = [reap_ EXCEPT ![c] = reap_[c] \union {o}]
    BY Zenon DEF review_requeue, review_free, review_disown
  <2>2. reap_ \in [Cores -> SUBSET Objs] /\ reap_[c] \union {o} \in SUBSET Objs
    BY Zenon, <1>0 DEF CoreType
  <2> QED
    BY Zenon, <2>1, <2>2
<1>7. CoreType'
  BY ZenonT(60), <1>0, <1>3, <1>4, <1>6 DEF CoreType, epochVars, clientVars
<1>8. CASE review_requeue(c, o)
  <2>1. epoch[c] + 2 \in Nat /\ Append(review_[c], o) \in Seq(Objs)
    BY <1>0 DEF ObjType, CoreType
  <2>2. ObjType'
    BY Zenon, <1>0, <1>4, <1>8, <2>1 DEF ObjType, review_requeue
  <2> QED
    BY ZenonT(60), <1>4, <1>5, <1>7, <2>2, CountOther DEF clientVars
<1>9. CASE review_free(c, o) \/ review_disown(c, o)
  <2>1. /\ review_epoch' = [review_epoch EXCEPT ![o] = 0]
        /\ UNCHANGED <<dirty, review_>>
        /\ \E w \in {"none", "ok", "dying", "null"} : weak' = [weak EXCEPT ![o] = w]
    BY Zenon, <1>0, <1>9 DEF review_free, review_disown, ObjType
  <2>2. ObjType'
    BY ZenonT(60), <1>0, <1>4, <2>1 DEF ObjType
  <2> QED
    BY ZenonT(60), <1>4, <1>5, <1>7, <2>2, CountOther DEF clientVars
<1> QED
  BY ZenonT(60), <1>8, <1>9

\* How often x is linked, on each core.
Links(x) ==
    [c \in Cores |-> Occurrences(x, review_[c]) + Occurrences(x, reviewable[c])]

-----------------------------------------------------------------------------
\* Steps that leave the epochs alone and neither enter nor leave a flush.
LEMMA BarrierFrame ==
    ASSUME BarrierInv, UNCHANGED epochVars, EpochTypeOK',
           \A c \in Cores : pc'[c] = "flush" <=> pc[c] = "flush"
    PROVE  BarrierInv'
<1>1. Pending' = Pending
  BY ZenonT(60) DEF Pending, epochVars
<1> QED
  BY ZenonT(60), <1>1 DEF BarrierInv, EpochBarrier, FlushIsExact, epochVars

\* The barrier holds at the start.
LEMMA InitBarrier == Init => BarrierInv
<1> SUFFICES ASSUME Init PROVE BarrierInv
  BY Zenon
<1>1. Pending = Cores
  BY DEF Init, Pending
<1> QED
  BY <1>1 DEF Init, BarrierInv, EpochTypeOK, EpochBarrier, FlushIsExact

\* tick joins the epoch: the core stays among those the epoch waits for.
LEMMA TickBarrier ==
    ASSUME BarrierInv, NEW c \in Cores, tick(c)
    PROVE  BarrierInv'
<1>1. CASE local_epoch[c] = global_epoch
  <2>1. EpochTypeOK' /\ UNCHANGED epochVars
    BY ZenonT(60), <1>1 DEF tick, BarrierInv, EpochTypeOK, epochVars
  <2>2. \A d \in Cores : pc'[d] = "flush" <=> pc[d] = "flush"
    BY ZenonT(60), <1>1 DEF tick, BarrierInv, EpochTypeOK
  <2> QED
    BY Zenon, <2>1, <2>2, BarrierFrame
<1>2. CASE local_epoch[c] # global_epoch
  <2>1. /\ local_epoch' = [local_epoch EXCEPT ![c] = global_epoch]
        /\ pc' = [pc EXCEPT ![c] = "flush"]
        /\ global_epoch' = global_epoch
        /\ global_epoch_left' = global_epoch_left
    BY ZenonT(60), <1>2 DEF tick
  <2>2. EpochTypeOK'
    BY ZenonT(60), <2>1 DEF BarrierInv, EpochTypeOK
  <2>3. Pending' = Pending
    <3>1. c \in Pending /\ c \in Pending'
      BY <1>2, <2>1 DEF Pending, BarrierInv, EpochBarrier, EpochTypeOK
    <3>2. \A d \in Cores \ {c} : d \in Pending' <=> d \in Pending
      BY Zenon, <2>1 DEF Pending, BarrierInv, EpochTypeOK
    <3> QED
      BY ZenonT(60), <3>1, <3>2 DEF Pending
  <2>4. EpochBarrier'
    BY ZenonT(60), <2>1, <2>3 DEF BarrierInv, EpochBarrier, EpochTypeOK
  <2>5. FlushIsExact'
    BY Zenon, <2>1 DEF BarrierInv, FlushIsExact, EpochTypeOK
  <2> QED
    BY ZenonT(60), <2>2, <2>4, <2>5 DEF BarrierInv
<1> QED
  BY Zenon, <1>1, <1>2

\* flush_end: a core leaves the set; the last one starts the next epoch, which
\* then waits for every core.
LEMMA FlushEndBarrier ==
    ASSUME BarrierInv, NEW c \in Cores, flush_end(c)
    PROVE  BarrierInv'
<1> DEFINE n == Cardinality(Pending)
<1>1. /\ IsFiniteSet(Pending) /\ c \in Pending /\ n \in Nat /\ n # 0
      /\ IsFiniteSet(Pending \ {c}) /\ Cardinality(Pending \ {c}) = n - 1
  <2>1. Pending \in SUBSET Cores /\ c \in Pending
    BY ZenonT(60) DEF Pending, flush_end
  <2>2. IsFiniteSet(Pending)
    BY ZenonT(60), <2>1, CoresAssumption, FS_Subset
  <2>3. n \in Nat /\ n # 0
    BY ZenonT(60), <2>1, <2>2, FS_CardinalityType, FS_EmptySet
  <2>4. IsFiniteSet(Pending \ {c}) /\ Cardinality(Pending \ {c}) = n - 1
    BY ZenonT(60), <2>1, <2>2, FS_RemoveElement
  <2> QED
    BY ZenonT(60), <2>1, <2>2, <2>3, <2>4
<1>2. /\ pc' = [pc EXCEPT ![c] = "flushed"] /\ local_epoch' = local_epoch
      /\ local_epoch[c] = global_epoch
  BY ZenonT(60) DEF flush_end, BarrierInv, FlushIsExact
<1>3. EpochTypeOK'
  BY <1>2 DEF BarrierInv, EpochTypeOK, flush_end
<1>4. global_epoch_left = n
  BY Zenon DEF BarrierInv, EpochBarrier
<1>5. CASE global_epoch_left = 1
  <2>1. /\ global_epoch' = global_epoch + 1
        /\ global_epoch_left' = Cardinality(Cores)
    BY Zenon, <1>5 DEF flush_end
  <2>2. Pending \ {c} = {}
    BY <1>1, <1>4, <1>5, FS_EmptySet
  <2>3. \A d \in Cores : local_epoch[d] = global_epoch
    <3> SUFFICES ASSUME NEW d \in Cores PROVE local_epoch[d] = global_epoch
      BY Zenon
    <3>1. d = c \/ d \notin Pending
      BY Zenon, <2>2
    <3> QED
      BY <1>2, <3>1 DEF Pending, BarrierInv, EpochBarrier, EpochTypeOK
  <2>4. Pending' = Cores
    BY <1>2, <2>1, <2>3 DEF Pending, BarrierInv, EpochTypeOK
  <2>5. EpochBarrier'
    BY <1>2, <2>1, <2>3, <2>4 DEF EpochBarrier, BarrierInv, EpochTypeOK
  <2>6. FlushIsExact'
    <3> SUFFICES ASSUME NEW d \in Cores, pc'[d] = "flush" PROVE FALSE
      BY Zenon DEF FlushIsExact
    <3>1. d # c /\ pc[d] = "flush"
      BY ZenonT(60), <1>2 DEF BarrierInv, EpochTypeOK
    <3> QED
      BY ZenonT(60), <2>2, <3>1 DEF Pending
  <2> QED
    BY ZenonT(60), <1>3, <2>5, <2>6 DEF BarrierInv
<1>6. CASE global_epoch_left # 1
  <2>1. /\ global_epoch' = global_epoch
        /\ global_epoch_left' = global_epoch_left - 1
    BY ZenonT(60), <1>6 DEF flush_end
  <2>2. Pending' = Pending \ {c}
    BY <1>2, <2>1 DEF Pending, BarrierInv, EpochTypeOK
  <2>3. EpochBarrier'
    BY ZenonT(60), <1>1, <1>2, <1>4, <2>1, <2>2 DEF EpochBarrier, BarrierInv
  <2>4. FlushIsExact'
    BY ZenonT(60), <1>2, <2>1 DEF FlushIsExact, BarrierInv, EpochTypeOK
  <2> QED
    BY ZenonT(60), <1>3, <2>3, <2>4 DEF BarrierInv
<1> QED
  BY ZenonT(60), <1>5, <1>6

\* What the other actions do to the program counters: a core in a flush stays
\* in it, and no other core enters one.
LEMMA OthersFrame ==
    ASSUME BarrierInv, NEW c \in Cores, NEW o \in Objs,
           \/ inc(c, o) \/ dec(c, o) \/ make_weakref(c, o) \/ get_revive(c, o)
           \/ get_inc(c) \/ flush_way(c, o) \/ review(c) \/ reaper(c)
           \/ review_requeue(c, o) \/ review_free(c, o) \/ review_disown(c, o)
    PROVE  /\ UNCHANGED epochVars /\ EpochTypeOK'
           /\ \A d \in Cores : pc'[d] = "flush" <=> pc[d] = "flush"
<1>0. pc \in [Cores -> {"run", "get", "flush", "flushed", "review"}]
  BY Zenon DEF BarrierInv, EpochTypeOK
<1>1. UNCHANGED epochVars
  BY ZenonT(60) DEF inc, dec, make_weakref, get_revive, get_inc, flush_way, review, reaper,
         review_requeue, review_free, review_disown, review_next, epochVars
<1>2. \/ pc' = pc
      \/ \E v \in {"run", "get", "review"} :
            pc[c] # "flush" /\ pc' = [pc EXCEPT ![c] = v]
  <2>1. CASE inc(c, o) \/ dec(c, o) \/ make_weakref(c, o) \/ flush_way(c, o)
             \/ reaper(c)
    BY ZenonT(60), <2>1 DEF inc, dec, make_weakref, flush_way, reaper, coreVars
  <2>2. CASE get_revive(c, o)
    BY Zenon, <2>2 DEF get_revive
  <2>3. CASE get_inc(c)
    BY Zenon, <2>3 DEF get_inc
  <2>4. CASE review(c)
    BY ZenonT(60), <2>4 DEF review
  <2>5. CASE review_requeue(c, o) \/ review_free(c, o) \/ review_disown(c, o)
    <3>1. review_next(c, o)
      BY ZenonT(60), <2>5 DEF review_requeue, review_free, review_disown
    <3> QED
      BY ZenonT(60), <1>0, <3>1 DEF review_next
  <2> QED
    BY ZenonT(60), <2>1, <2>2, <2>3, <2>4, <2>5
<1>3. EpochTypeOK'
  BY ZenonT(60), <1>0, <1>1, <1>2 DEF BarrierInv, EpochTypeOK, epochVars
<1>4. \A d \in Cores : pc'[d] = "flush" <=> pc[d] = "flush"
  BY ZenonT(60), <1>0, <1>2
<1> QED
  BY ZenonT(60), <1>1, <1>3, <1>4

\* Every step keeps the barrier.
LEMMA NextBarrier == BarrierInv /\ [Next]_vars => BarrierInv'
<1> SUFFICES ASSUME BarrierInv, [Next]_vars PROVE BarrierInv'
  BY ZenonT(60)
<1>1. ASSUME NEW c \in Cores, tick(c) PROVE BarrierInv'
  BY ZenonT(60), <1>1, TickBarrier
<1>2. ASSUME NEW c \in Cores, flush_end(c) PROVE BarrierInv'
  BY ZenonT(60), <1>2, FlushEndBarrier
<1>3. ASSUME NEW c \in Cores, get_inc(c) \/ review(c) \/ reaper(c)
      PROVE  BarrierInv'
  <2> PICK o \in Objs : TRUE
    BY ZenonT(60), ObjsAssumption
  <2> QED
    BY ZenonT(60), <1>3, OthersFrame, BarrierFrame
<1>4. ASSUME NEW c \in Cores, NEW o \in Objs,
             \/ inc(c, o) \/ dec(c, o) \/ make_weakref(c, o) \/ get_revive(c, o)
             \/ flush_way(c, o) \/ review_requeue(c, o) \/ review_free(c, o)
             \/ review_disown(c, o)
      PROVE  BarrierInv'
  BY ZenonT(60), <1>4, OthersFrame, BarrierFrame
<1>5. CASE UNCHANGED vars
  <2>1. UNCHANGED epochVars /\ pc' = pc
    BY ZenonT(60), <1>5 DEF vars, coreVars
  <2>2. EpochTypeOK'
    BY ZenonT(60), <2>1 DEF BarrierInv, EpochTypeOK, epochVars
  <2> QED
    BY ZenonT(60), <2>1, <2>2, BarrierFrame
<1> QED
  BY ZenonT(60), <1>1, <1>2, <1>3, <1>4, <1>5 DEF Next

\* For any number of cores, local epochs stay within one of the global epoch
\* and global_epoch_left counts the cores that still have to flush for it.
THEOREM EpochBarrierHolds == Spec => []EpochBarrier
<1>1. BarrierInv => EpochBarrier
  BY Zenon DEF BarrierInv
<1> QED
  BY InitBarrier, NextBarrier, <1>1, PTL DEF Spec

\* The counts agree at the start.
LEMMA InitCount == Init => CountInv
<1> SUFFICES ASSUME Init PROVE CountInv
  BY ZenonT(60)
<1>1. IsFiniteSet(Cores) /\ Cardinality(Cores) \in Nat
  BY ZenonT(60), CoresAssumption, FS_CardinalityType
<1>2. ObjType
  BY DEF Init, ObjType
<1>3. CacheType
  BY Zenon, DeltaRange DEF Init, CacheType
<1>4. CoreType
  BY <1>1 DEF Init, CoreType
<1>5. TypeOK
  BY ZenonT(60), <1>2, <1>3, <1>4, TypeParts
<1>6. CacheInv /\ Reviews
  BY Zenon DEF Init, CacheInv, Reviews
<1>7. ASSUME NEW x \in Objs
      PROVE  held[x] = refcount[x] + Total(Deltas(x))
  <2>1. Deltas(x) \in [Cores -> Int] /\ \A c \in Cores : Deltas(x)[c] = 0
    BY DEF Init, Deltas
  <2>2. Total(Deltas(x)) = 0
    BY ZenonT(60), <2>1, TotalZero, CoresAssumption
  <2> QED
    BY <2>2 DEF Init
<1>8. TrueCount
  BY ZenonT(60), <1>7, CountDef
<1> QED
  BY ZenonT(60), <1>5, <1>6, <1>8, InitBarrier DEF CountInv

\* Every step keeps the counts.
LEMMA NextCount == CountInv /\ [Next]_vars => CountInv'
<1> SUFFICES ASSUME CountInv, [Next]_vars
             PROVE  TypeOK' /\ CacheInv' /\ TrueCount' /\ Reviews'
  BY ZenonT(60), NextBarrier DEF CountInv
<1>0. TypeOK
  BY ZenonT(60) DEF CountInv
<1>1. ASSUME NEW c \in Cores, NEW o \in Objs, inc(c, o)
      PROVE  TypeOK' /\ CacheInv' /\ TrueCount' /\ Reviews'
  <2>1. held[o] + 1 \in Nat
    BY <1>0 DEF TypeOK
  <2>2. UNCHANGED <<epochVars, reap_, arg, reviewable, epoch, onzeroed>> /\ pc' = pc
    BY Zenon, <1>1 DEF inc, coreVars
  <2>3. get_way(c, o, 1) /\ held' = [held EXCEPT ![o] = @ + 1] /\ touched(o)
    BY Zenon, <1>1 DEF inc
  <2>4. pc' = pc \/ (pc[c] = "get" /\ pc' = [pc EXCEPT ![c] = "run"])
    BY Zenon, <2>2
  <2>5. 1 \in {1, -1}
    BY Zenon
  <2> QED
    BY ZenonT(60), <2>1, <2>2, <2>3, <2>4, <2>5, CountOperation
<1>2. ASSUME NEW c \in Cores, NEW o \in Objs, dec(c, o)
      PROVE  TypeOK' /\ CacheInv' /\ TrueCount' /\ Reviews'
  <2>1. held[o] + -1 \in Nat
    BY <1>0, <1>2 DEF TypeOK, dec
  <2>2. held' = [held EXCEPT ![o] = @ + -1]
    BY Zenon, <1>0, <1>2 DEF TypeOK, dec
  <2>3. UNCHANGED <<epochVars, reap_, arg, reviewable, epoch, onzeroed>> /\ pc' = pc
    BY Zenon, <1>2 DEF dec, coreVars
  <2>4. get_way(c, o, -1) /\ touched(o)
    BY Zenon, <1>2 DEF dec
  <2>5. pc' = pc \/ (pc[c] = "get" /\ pc' = [pc EXCEPT ![c] = "run"])
    BY ZenonT(60), <2>3
  <2>6. -1 \in {1, -1}
    BY Zenon
  <2> QED
    BY ZenonT(60), <2>1, <2>2, <2>3, <2>4, <2>5, <2>6, CountOperation
<1>3. ASSUME NEW c \in Cores, get_inc(c)
      PROVE  TypeOK' /\ CacheInv' /\ TrueCount' /\ Reviews'
  <2>1. arg[c] \in Objs /\ held[arg[c]] + 1 \in Nat
    BY <1>0 DEF TypeOK
  <2> QED
    BY ZenonT(60), <1>3, <2>1, CountOperation DEF get_inc
<1>4. ASSUME NEW c \in Cores, reaper(c)
      PROVE  TypeOK' /\ CacheInv' /\ TrueCount' /\ Reviews'
  <2>0. ObjType /\ CoreType /\ Reviews
    BY ZenonT(60), TypeParts DEF CountInv
  <2>1. /\ reap_' \in [Cores -> SUBSET Objs] /\ onzeroed' \in SUBSET Objs
        /\ UNCHANGED <<objVars, cacheVars, epochVars, review_, coreVars, held, last>>
    BY ZenonT(60), <1>4, <2>0 DEF reaper, CoreType
  <2>2. ObjType' /\ CoreType' /\ Reviews'
    BY ZenonT(60), <2>0, <2>1 DEF ObjType, CoreType, Reviews, objVars, epochVars, coreVars
  <2> QED
    BY ZenonT(60), <2>1, <2>2, CountOther DEF objVars
<1>5. CASE UNCHANGED vars
  <2>0. ObjType /\ CoreType /\ Reviews
    BY ZenonT(60), TypeParts DEF CountInv
  <2>2. ObjType' /\ CoreType' /\ Reviews'
    BY ZenonT(60), <1>5, <2>0 DEF ObjType, CoreType, Reviews, vars, objVars, epochVars, coreVars,
                      listVars, clientVars
  <2> QED
    BY ZenonT(60), <1>5, <2>2, CountOther DEF vars, objVars, clientVars
<1> QED
  BY ZenonT(60), <1>1, <1>2, <1>3, <1>4, <1>5, CountFlushWay, CountWeak, CountEpoch, CountReview,
     CountRound DEF Next

\* Every variable keeps its type: a review list is a list of objects and,
\* above all, a cached delta never leaves the range of an int.
THEOREM TypeOKHolds == Spec => []TypeOK
<1>1. CountInv => TypeOK
  BY ZenonT(60) DEF CountInv
<1> QED
  BY InitCount, NextCount, <1>1, PTL DEF Spec

\* The references to an object are refcount_ and the deltas of every core
\* together, for any number of cores, whatever is evicted when.
THEOREM TrueCountHolds == Spec => []TrueCount
<1>1. CountInv => TrueCount
  BY ZenonT(60) DEF CountInv
<1> QED
  BY InitCount, NextCount, <1>1, PTL DEF Spec

\* The weak reference of v is marked as v gets its reviewer.
LEMMA EvictDying ==
    ASSUME TypeOK, DyingInv, NEW c \in Cores, NEW v \in Objs, NEW n \in Nat \ {0},
           Evicted(c, v, n)
    PROVE  DyingInv'
<1>1. weak \in [Objs -> {"none", "ok", "dying", "null"}] /\ review_epoch \in [Objs -> Nat]
  BY Zenon DEF TypeOK
<1>2. CASE UNCHANGED <<review_epoch, weak>>
  BY ZenonT(60), <1>2 DEF DyingInv
<1>3. CASE own(c, v, n)
  <2>1. local_epoch[c] + n # 0
    BY DEF TypeOK
  <2>2. /\ review_epoch'[v] # 0
        /\ \A x \in Objs : x # v => review_epoch'[x] = review_epoch[x] /\ weak'[x] = weak[x]
    BY Zenon, <1>1, <1>3, <2>1 DEF own
  <2> QED
    BY ZenonT(60), <2>2 DEF DyingInv
<1> QED
  BY ZenonT(60), <1>2, <1>3 DEF Evicted, mark_dirty

\* Every step keeps dying references under review.
LEMMA NextDying ==
    ASSUME ListInv, [Next]_vars
    PROVE  DyingInv'
<1>0. /\ TypeOK /\ CacheInv /\ DyingInv /\ CountInv /\ LinkInv /\ OrderInv /\ Reviews
      /\ weak \in [Objs -> {"none", "ok", "dying", "null"}] /\ review_epoch \in [Objs -> Nat]
  BY ZenonT(60) DEF ListInv, CountInv, TypeOK
<1>1. ASSUME NEW c \in Cores, NEW o \in Objs, NEW d \in {1, -1}, get_way(c, o, d)
      PROVE  DyingInv'
  <2>1. \/ Cached(c, o, d)
        \/ \E v \in Objs : Replaced(c, o, d, v)
        \/ Refreshed(c, o, d)
    BY ZenonT(60), <1>0, <1>1, GetWayCases
  <2>2. CASE Cached(c, o, d)
    BY ZenonT(60), <1>0, <2>2 DEF Cached, objVars, DyingInv
  <2>3. ASSUME NEW v \in Objs, Evicted(c, v, 3) PROVE DyingInv'
    BY <1>0, <2>3, EvictDying
  <2> QED
    BY ZenonT(60), <2>1, <2>2, <2>3 DEF Replaced, Refreshed
<1>2. ASSUME NEW c \in Cores, NEW o \in Objs, inc(c, o) PROVE DyingInv'
  BY ZenonT(60), <1>1, <1>2 DEF inc
<1>3. ASSUME NEW c \in Cores, NEW o \in Objs, dec(c, o) PROVE DyingInv'
  BY ZenonT(60), <1>1, <1>3 DEF dec
<1>4. ASSUME NEW c \in Cores, get_inc(c) PROVE DyingInv'
  <2>1. arg[c] \in Objs
    BY ZenonT(60), <1>0 DEF TypeOK
  <2> QED
    BY ZenonT(60), <1>1, <1>4, <2>1 DEF get_inc
<1>5. ASSUME NEW c \in Cores, NEW o \in Objs, flush_way(c, o) PROVE DyingInv'
  BY <1>0, <1>5, FlushWayStep, EvictDying
<1>6. ASSUME NEW c \in Cores, NEW o \in Objs, make_weakref(c, o) PROVE DyingInv'
  BY Zenon, <1>0, <1>6 DEF make_weakref, DyingInv
<1>7. ASSUME NEW c \in Cores, NEW o \in Objs, get_revive(c, o) PROVE DyingInv'
  BY ZenonT(60), <1>0, <1>7 DEF get_revive, DyingInv
<1>8. ASSUME NEW c \in Cores, tick(c) \/ flush_end(c) \/ review(c) \/ reaper(c) PROVE DyingInv'
  <2>1. UNCHANGED objVars
    BY ZenonT(60), <1>8 DEF tick, flush_end, review, reaper
  <2> QED
    BY ZenonT(60), <1>0, <2>1 DEF objVars, DyingInv
<1>9. ASSUME NEW c \in Cores, NEW o \in Objs, review_requeue(c, o) PROVE DyingInv'
  <2>1. epoch[c] + 2 # 0
    BY <1>0 DEF TypeOK
  <2> QED
    BY ZenonT(60), <1>0, <1>9, <2>1 DEF review_requeue, DyingInv
<1>10. ASSUME NEW c \in Cores, NEW o \in Objs, review_free(c, o) PROVE DyingInv'
  BY ZenonT(60), <1>0, <1>10 DEF review_free, DyingInv
<1>11. ASSUME NEW c \in Cores, NEW o \in Objs, review_disown(c, o) PROVE DyingInv'
  BY ZenonT(60), <1>0, <1>11 DEF review_disown, DyingInv
<1>12. CASE UNCHANGED vars
  BY ZenonT(60), <1>0, <1>12 DEF vars, objVars, DyingInv
<1> QED
  BY ZenonT(60), <1>2, <1>3, <1>4, <1>5, <1>6, <1>7, <1>8, <1>9, <1>10, <1>11, <1>12 DEF Next

\* Every step keeps the review lists, given the counts after it.
LEMMA NextLists ==
    ASSUME ListInv, Cutoffs, CountInv', [Next]_vars
    PROVE  ListInv'
<1>0. /\ TypeOK /\ BarrierInv /\ CacheInv /\ CountInv /\ LinkInv /\ OrderInv /\ Reviews
      /\ pc \in [Cores -> {"run", "get", "flush", "flushed", "review"}]
  BY Zenon DEF ListInv, CountInv, TypeOK
<1>1. TypeOK'
  BY Zenon DEF CountInv
<1>2. ASSUME NEW c \in Cores, NEW o \in Objs, inc(c, o) PROVE LinkInv' /\ OrderInv'
  <2>1. Evicting(c, 3)
    BY Zenon, <1>2 DEF inc, Evicting, coreVars
  <2> QED
    BY ZenonT(60), <1>0, <1>1, <1>2, <2>1, OperationLists DEF inc
<1>3. ASSUME NEW c \in Cores, NEW o \in Objs, dec(c, o) PROVE LinkInv' /\ OrderInv'
  <2>1. Evicting(c, 3)
    BY Zenon, <1>3 DEF dec, Evicting, coreVars
  <2> QED
    BY ZenonT(60), <1>0, <1>1, <1>3, <2>1, OperationLists DEF dec
<1>4. ASSUME NEW c \in Cores, get_inc(c) PROVE LinkInv' /\ OrderInv'
  <2>1. Evicting(c, 3)
    BY ZenonT(60), <1>4 DEF get_inc, Evicting
  <2>2. arg[c] \in Objs
    BY ZenonT(60), <1>0 DEF TypeOK
  <2> QED
    BY ZenonT(60), <1>0, <1>1, <1>4, <2>1, <2>2, OperationLists DEF get_inc
<1>5. ASSUME NEW c \in Cores, NEW o \in Objs, flush_way(c, o) PROVE LinkInv' /\ OrderInv'
  <2>1. Evicting(c, 2)
    BY ZenonT(60), <1>5 DEF flush_way, Evicting, coreVars
  <2>2. Evicted(c, o, 2)
    BY ZenonT(60), <1>0, <1>5, FlushWayStep
  <2> QED
    BY ZenonT(60), <1>0, <1>1, <2>1, <2>2, EvictLists
<1>6. ASSUME NEW c \in Cores, NEW o \in Objs,
             make_weakref(c, o) \/ get_revive(c, o) \/ flush_end(c) \/ reaper(c)
      PROVE  LinkInv' /\ OrderInv'
  BY ZenonT(60), <1>0, <1>1, <1>6, OtherLists
<1>7. ASSUME NEW c \in Cores, tick(c) PROVE LinkInv' /\ OrderInv'
  BY ZenonT(60), <1>0, <1>1, <1>7, TickLists
<1>8. ASSUME NEW c \in Cores, review(c) PROVE LinkInv' /\ OrderInv'
  BY ZenonT(60), <1>0, <1>1, <1>8, ReviewLists
<1>9. ASSUME NEW c \in Cores, NEW o \in Objs, review_requeue(c, o) PROVE LinkInv' /\ OrderInv'
  BY ZenonT(60), <1>0, <1>1, <1>9, RequeueLists
<1>10. ASSUME NEW c \in Cores, NEW o \in Objs, review_free(c, o) \/ review_disown(c, o)
       PROVE  LinkInv' /\ OrderInv'
  BY ZenonT(60), <1>0, <1>1, <1>10, LeaveLists
<1>11. ASSUME UNCHANGED vars PROVE LinkInv' /\ OrderInv'
  <2>1. UNCHANGED <<review_, reviewable, review_epoch, pc, local_epoch, epoch, global_epoch>>
    BY ZenonT(60), <1>11 DEF vars, objVars, listVars, coreVars, epochVars
  <2>2. LinkInv'
    BY ZenonT(60), <1>0, <2>1 DEF LinkInv, Listed
  <2>3. ASSUME NEW d \in Cores PROVE Asc(review_'[d], review_epoch') /\ Window(d)'
    <3>1. Asc(review_[d], review_epoch) /\ Window(d)
      BY ZenonT(60), <1>0 DEF OrderInv
    <3>2. epoch[d] \in Nat /\ global_epoch \in Nat /\ global_epoch >= global_epoch
      BY <1>0, CoreTypes
    <3> QED
      BY ZenonT(60), <2>1, <3>1, <3>2, WindowFrame
  <2> QED
    BY ZenonT(60), <2>2, <2>3 DEF OrderInv
<1>12. \E o \in Objs : TRUE
  BY ZenonT(60), ObjsAssumption
<1>13. LinkInv' /\ OrderInv'
  BY ZenonT(60), <1>2, <1>3, <1>4, <1>5, <1>6, <1>7, <1>8, <1>9, <1>10, <1>11, <1>12 DEF Next
<1> QED
  BY ZenonT(60), <1>1, <1>13, NextDying DEF ListInv

\* The review lists are empty at the start.
LEMMA InitLists == Init => ListInv
<1> SUFFICES ASSUME Init PROVE ListInv
  BY Zenon
<1>1. /\ \A c \in Cores : review_[c] = <<>> /\ reviewable[c] = <<>> /\ pc[c] = "run"
      /\ \A o \in Objs : review_epoch[o] = 0 /\ weak[o] = "none"
  BY ZenonT(60) DEF Init
<1>2. Rng(<<>>) = {} /\ Once(<<>>)
  BY DEF Rng, Once
<1>3. LinkInv
  BY ZenonT(60), <1>1, <1>2 DEF LinkInv, Listed
<1>4. OrderInv
  <2>1. \A c \in Cores : Window(c)
    BY ZenonT(60), <1>1, <1>2 DEF Window
  <2>2. \A c \in Cores : Asc(review_[c], review_epoch)
    BY <1>1 DEF Asc
  <2> QED
    BY ZenonT(60), <2>1, <2>2 DEF OrderInv
<1>5. DyingInv
  BY ZenonT(60), <1>1 DEF DyingInv
<1> QED
  BY ZenonT(60), <1>3, <1>4, <1>5, InitCount DEF ListInv

\* Every step keeps the review lists.
LEMMA NextListInv == ListInv /\ [Next]_vars => ListInv'
<1> SUFFICES ASSUME ListInv, [Next]_vars PROVE ListInv'
  BY ZenonT(60)
<1>1. CountInv /\ TypeOK
  BY ZenonT(60) DEF ListInv, CountInv
<1>2. CountInv' /\ Cutoffs
  BY ZenonT(60), <1>1, NextCount, CutoffsHold
<1> QED
  BY ZenonT(60), <1>2, NextLists

\* The review lists are always in order.
LEMMA ListsHold == Spec => []ListInv
BY InitLists, NextListInv, PTL DEF Spec

\* None of the assertions of refcache fails: review lists are in epoch order
\* and within three epochs of the global one, and a weak reference is dying
\* only while its object is under review.  No timing is assumed.
THEOREM NoPanicHolds == Spec => []NoPanic
<1>1. ASSUME ListInv PROVE NoPanic
  <2>0. TypeOK /\ BarrierInv /\ OrderInv /\ DyingInv
    BY ZenonT(60), <1>1 DEF ListInv, CountInv
  <2>1. ASSUME NEW c \in Cores, NEW i \in 1 .. Len(review_[c])
        PROVE  /\ review_epoch[review_[c][i]] <= global_epoch + 3
               /\ i > 1 => review_epoch[review_[c][i - 1]] <= review_epoch[review_[c][i]]
    <3>0. /\ review_[c] \in Seq(Objs) /\ Len(review_[c]) \in Nat /\ global_epoch \in Nat
          /\ local_epoch[c] \in Nat /\ review_epoch \in [Objs -> Nat]
      BY ZenonT(60), <2>0, CoreTypes
    <3>1. review_[c][i] \in Rng(review_[c]) /\ review_[c][i] \in Objs
      BY <3>0 DEF Rng
    <3>2. review_epoch[review_[c][i]] <= local_epoch[c] + 3
      BY ZenonT(60), <2>0, <3>1 DEF OrderInv, Window
    <3>3. local_epoch[c] \in {global_epoch - 1, global_epoch}
      BY ZenonT(60), <2>0 DEF BarrierInv, EpochBarrier
    <3>4. review_epoch[review_[c][i]] <= global_epoch + 3
      BY <3>0, <3>1, <3>2, <3>3
    <3>5. i > 1 => i - 1 \in 1 .. Len(review_[c]) /\ i - 1 <= i
      BY <3>0
    <3>6. i > 1 => review_epoch[review_[c][i - 1]] <= review_epoch[review_[c][i]]
      BY ZenonT(60), <2>0, <3>5 DEF OrderInv, Asc
    <3> QED
      BY ZenonT(60), <3>4, <3>6
  <2> QED
    BY ZenonT(60), <2>0, <2>1 DEF NoPanic, DyingInv
<1> QED
  BY <1>1, ListsHold, PTL

\* Nothing is under review at the start.
LEMMA InitGrace == Init => GraceInv
<1> SUFFICES ASSUME Init PROVE GraceInv
  BY ZenonT(60)
<1>1. ListInv
  BY ZenonT(60), InitLists
<1>2. Prompt /\ Grace /\ FreedInv
  BY ZenonT(60) DEF Init, Prompt, Grace, Graced, Clean, FreedInv, FreedUnreferenced, Freed
<1> QED
  BY ZenonT(60), <1>1, <1>2 DEF GraceInv

\* Every step keeps the grace period, when reviews are prompt.
LEMMA NextGraceInv ==
    ASSUME PromptReview, GraceInv, [Next]_vars
    PROVE  GraceInv'
<1>1. ListInv /\ CountInv
  BY ZenonT(60) DEF GraceInv, ListInv
<1>2. ListInv' /\ Settled
  BY ZenonT(60), <1>1, NextListInv, CountSettles
<1> QED
  BY ZenonT(60), <1>2, NextGrace

\* An object is freed only when no reference to it exists or can be made, on
\* any number of cores, as long as every review ends before the next epoch's
\* ticks (the timing that review's epoch_ + 2 depends on).
THEOREM FreedUnreferencedHolds ==
    ASSUME PromptReview
    PROVE  Spec => []FreedUnreferenced
<1>1. GraceInv => FreedUnreferenced
  BY ZenonT(60) DEF GraceInv, FreedInv
<1>2. GraceInv /\ [Next]_vars => GraceInv'
  BY ZenonT(60), NextGraceInv
<1> QED
  BY InitGrace, <1>1, <1>2, PTL DEF Spec

\* In a list without repetitions an element occurs once or not at all.
LEMMA OccursOnce ==
    ASSUME NEW l \in Seq(Objs), Once(l), NEW x
    PROVE  Occurrences(x, l) = IF x \in Rng(l) THEN 1 ELSE 0
<1> DEFINE I == {i \in 1..Len(l) : l[i] = x}
<1>1. CASE x \in Rng(l)
  <2>1. PICK i \in 1 .. Len(l) : x = l[i]
    BY ZenonT(60), <1>1 DEF Rng
  <2>2. I = {i}
    BY ZenonT(60), <2>1 DEF Once
  <2> QED
    BY ZenonT(60), <1>1, <2>2, FS_Singleton DEF Occurrences
<1>2. CASE x \notin Rng(l)
  <2>1. I = {}
    BY ZenonT(60), <1>2 DEF Rng
  <2> QED
    BY ZenonT(60), <1>2, <2>1, FS_EmptySet DEF Occurrences
<1> QED
  BY ZenonT(60), <1>1, <1>2

\* The links of x add up to one if it has a review epoch, else to none.
LEMMA LinksAddUp ==
    ASSUME ListInv, NEW x \in Objs
    PROVE  Total(Links(x)) = IF review_epoch[x] = 0 THEN 0 ELSE 1
<1>0. LinkInv /\ TypeOK /\ IsFiniteSet(Cores)
  BY ZenonT(60), CoresAssumption DEF ListInv, CountInv
<1>1. ASSUME NEW c \in Cores PROVE Links(x)[c] = IF x \in Listed(c) THEN 1 ELSE 0
  <2>1. review_[c] \in Seq(Objs) /\ reviewable[c] \in Seq(Objs)
    BY ZenonT(60), <1>0, CoreTypes
  <2>2. /\ Once(review_[c]) /\ Once(reviewable[c])
        /\ Rng(review_[c]) \cap Rng(reviewable[c]) = {}
    BY ZenonT(60), <1>0 DEF LinkInv
  <2>3. /\ Occurrences(x, review_[c]) = IF x \in Rng(review_[c]) THEN 1 ELSE 0
        /\ Occurrences(x, reviewable[c]) = IF x \in Rng(reviewable[c]) THEN 1 ELSE 0
    BY ZenonT(60), <2>1, <2>2, OccursOnce
  <2> QED
    BY <2>2, <2>3 DEF Links, Listed
<1> DEFINE zero == [c \in Cores |-> 0]
<1>2. Total(zero) = 0
  BY <1>0, TotalZero
<1>3. CASE review_epoch[x] = 0
  <2>1. Links(x) \in [Cores -> Int] /\ \A c \in Cores : Links(x)[c] = 0
    <3>1. \A c \in Cores : x \notin Listed(c)
      BY ZenonT(60), <1>0, <1>3 DEF LinkInv
    <3>2. \A c \in Cores : Links(x)[c] = 0
      BY ZenonT(60), <1>1, <3>1
    <3> QED
      BY <3>2 DEF Links
  <2> QED
    BY ZenonT(60), <1>0, <1>3, <2>1, TotalZero
<1>4. CASE review_epoch[x] # 0
  <2>1. PICK c \in Cores : x \in Listed(c)
    BY ZenonT(60), <1>0, <1>4 DEF LinkInv
  <2>2. \A d \in Cores \ {c} : x \notin Listed(d)
    BY ZenonT(60), <1>0, <2>1 DEF LinkInv
  <2>3. \A d \in Cores : Links(x)[d] = IF d = c THEN 1 ELSE 0
    BY ZenonT(60), <1>1, <2>1, <2>2
  <2>4. Links(x) = [zero EXCEPT ![c] = 1]
    BY ZenonT(60), <2>3 DEF Links
  <2>5. zero \in [Cores -> Int] /\ zero[c] = 0 /\ 1 \in Int
    OBVIOUS
  <2> HIDE DEF zero
  <2>6. Total([zero EXCEPT ![c] = 1]) = Total(zero) + (1 - zero[c])
    BY ZenonT(60), <1>0, <2>5, TotalExcept
  <2> QED
    BY <1>2, <1>4, <2>4, <2>5, <2>6
<1> QED
  BY ZenonT(60), <1>3, <1>4

\* An object has at most one reviewer, the one its review epoch stands for,
\* and none once it is freed.
THEOREM OneReviewerHolds ==
    ASSUME PromptReview
    PROVE  Spec => []OneReviewer
<1>1. ASSUME GraceInv PROVE OneReviewer
  <2>1. ListInv /\ \A x \in Objs : Freed(x) => review_epoch[x] = 0
    BY ZenonT(60), <1>1 DEF GraceInv, FreedInv
  <2>2. \A x \in Objs : Total(Links(x)) = IF review_epoch[x] = 0 THEN 0 ELSE 1
    BY ZenonT(60), <2>1, LinksAddUp
  <2> QED
    BY ZenonT(60), <2>1, <2>2 DEF OneReviewer, Links, Total
<1>2. GraceInv /\ [Next]_vars => GraceInv'
  BY Zenon, NextGraceInv
<1> QED
  BY InitGrace, <1>1, <1>2, PTL DEF Spec
=============================================================================
