-------------------------- MODULE ShellLockProofs ---------------------------
(***************************************************************************)
(* The bytes in the ring: only a turn of the loops of read and write       *)
(* changes them.  Then locks, sleepers and process states: every step of   *)
(* every process preserves LInv.  Each label has the set of locks that a   *)
(* process holds there, so the proof has one lemma per step of the code    *)
(* that swaps locks.  The last part says what any step does to those who   *)
(* sleep.                                                                  *)
(***************************************************************************)
EXTENDS ShellInv, TLAPS

\* The counters stay within the size of the ring of each other, and the bytes between
\* them are in their places.
RingInv ==
  /\ nread \in Nat /\ nwrite \in Nat
  /\ nread <= nwrite /\ nwrite <= nread + PIPESIZE
  /\ DOMAIN data = 0 .. PIPESIZE - 1
  /\ \A j \in nread .. nwrite - 1 : data[slot(j)] = j + 1

\* The inductive invariant for the bytes.
PInv == RingInv /\ InOrder

-----------------------------------------------------------------------------
\* Places in the ring are reused only after a whole turn.
LEMMA DistinctSlots ==
  ASSUME NEW a \in Nat, NEW b \in Nat, PIPESIZE \in Nat \ {0}, a < b, b < a + PIPESIZE
  PROVE  slot(a) # slot(b)
<1> DEFINE qa == a \div PIPESIZE
           qb == b \div PIPESIZE
<1>1. /\ qa \in Int /\ qb \in Int
      /\ a = PIPESIZE * qa + (a % PIPESIZE)
      /\ b = PIPESIZE * qb + (b % PIPESIZE)
  OBVIOUS
<1>2. a % PIPESIZE \in Int /\ b % PIPESIZE \in Int OBVIOUS
<1> HIDE DEF qa, qb
<1> SUFFICES ASSUME a % PIPESIZE = b % PIPESIZE PROVE FALSE BY Zenon DEF slot
<1>3. b - a = PIPESIZE * (qb - qa) BY <1>1, <1>2
<1>4. CASE qb - qa <= 0
  <2>1. PIPESIZE * (qb - qa) <= 0 BY <1>1, <1>4
  <2> QED BY <1>3, <2>1
<1>5. CASE qb - qa >= 1
  <2>1. PIPESIZE * (qb - qa) >= PIPESIZE BY <1>1, <1>5
  <2> QED BY <1>3, <2>1
<1> QED BY <1>1, <1>4, <1>5

\* A place is in the ring.
LEMMA SlotInRing ==
  ASSUME NEW a \in Nat, PIPESIZE \in Nat \ {0}
  PROVE  slot(a) \in 0 .. PIPESIZE - 1
BY DEF slot

\* A byte is written into a ring that is not full.
LEMMA WriteByte ==
  ASSUME PInv, ~Full, PIPESIZE \in Nat,
         data' = [data EXCEPT ![slot(nwrite)] = nwrite + 1],
         nwrite' = nwrite + 1, UNCHANGED <<nread, got>>
  PROVE  PInv'
<1> USE DEF PInv, RingInv
<1>1. nwrite < nread + PIPESIZE BY DEF Full
<1>2. PIPESIZE \in Nat \ {0} BY <1>1
<1>3. slot(nwrite) \in DOMAIN data BY Zenon, <1>2, SlotInRing
<1>4. ASSUME NEW j \in nread .. nwrite' - 1
      PROVE  data'[slot(j)] = j + 1
  <2>1. j \in Nat /\ nread <= j /\ j <= nwrite OBVIOUS
  <2>2. CASE j = nwrite BY Zenon, <1>3, <2>2
  <2>3. CASE j # nwrite
    <3>1. j < nwrite /\ nwrite < j + PIPESIZE BY <1>1, <2>1, <2>3
    <3>2. slot(j) # slot(nwrite) BY Zenon, <1>2, <2>1, <3>1, DistinctSlots
    <3>3. slot(j) \in DOMAIN data BY Zenon, <1>2, <2>1, SlotInRing
    <3>4. data'[slot(j)] = data[slot(j)] BY Zenon, <3>2, <3>3
    <3>5. j \in nread .. nwrite - 1 BY <2>1, <3>1
    <3> QED BY Zenon, <3>4, <3>5
  <2> QED BY Zenon, <2>2, <2>3
<1>5. DOMAIN data' = 0 .. PIPESIZE - 1 BY Zenon
<1>6. \A j \in nread' .. nwrite' - 1 : data'[slot(j)] = j + 1 BY Zenon, <1>4
<1>7. nread' \in Nat /\ nwrite' \in Nat /\ nread' <= nwrite' /\ nwrite' <= nread' + PIPESIZE
  BY <1>1
<1>8. InOrder' BY Zenon DEF InOrder
<1> QED BY Zenon, <1>5, <1>6, <1>7, <1>8

\* The oldest byte is read from a ring that is not empty.
LEMMA ReadByte ==
  ASSUME PInv, ~Empty, got' = Append(got, data[slot(nread)]), nread' = nread + 1,
         UNCHANGED <<nwrite, data>>, PIPESIZE \in Nat
  PROVE  PInv'
<1> USE DEF PInv, RingInv
<1>1. nread < nwrite BY DEF Empty
<1>2. data[slot(nread)] = nread + 1 BY <1>1
<1>3. got \in Seq(Nat) /\ Len(got) = nread BY DEF InOrder
<1>4. InOrder'
  <2>1. got' = Append(got, nread + 1) BY Zenon, <1>2
  <2>2. got' = [j \in 1 .. nread + 1 |-> j] BY <1>3, <2>1 DEF InOrder
  <2> QED BY Zenon, <2>2 DEF InOrder
<1>5. \A j \in nread' .. nwrite' - 1 : data'[slot(j)] = j + 1
  <2> SUFFICES ASSUME NEW j \in nread' .. nwrite' - 1 PROVE data[slot(j)] = j + 1 BY Zenon
  <2>1. j \in nread .. nwrite - 1 OBVIOUS
  <2> QED BY Zenon, <2>1
<1>6. RingInv' BY <1>1, <1>5
<1> QED BY Zenon, <1>4, <1>6

\* Steps that leave the ring alone.
LEMMA RingSame ==
  ASSUME PInv, UNCHANGED <<nread, nwrite, data, got>>
  PROVE  PInv'
BY Zenon DEF PInv, RingInv, InOrder

-----------------------------------------------------------------------------
\* Only a turn of the loop of read or write changes the ring.
LEMMA PipeStepRing ==
  ASSUME PInv, PIPESIZE \in Nat, NEW p \in Procs, PipeStep(p)
  PROVE  PInv'
<1>1. CASE write_loop(p)
  <2>1. CASE /\ ~Full
             /\ data' = [data EXCEPT ![slot(nwrite)] = nwrite + 1]
             /\ nwrite' = nwrite + 1
    <3>1. UNCHANGED <<nread, got>> BY Zenon, <1>1 DEF write_loop
    <3> QED BY Zenon, <2>1, <3>1, WriteByte
  <2>2. CASE UNCHANGED <<data, nwrite>>
    <3>1. UNCHANGED <<nread, got>> BY Zenon, <1>1 DEF write_loop
    <3> QED BY Zenon, <2>2, <3>1, RingSame
  <2> QED BY Zenon, <1>1, <2>1, <2>2 DEF write_loop
<1>2. CASE read_loop(p)
  <2>1. CASE /\ ~Empty /\ got' = Append(got, data[slot(nread)]) /\ nread' = nread + 1
    <3>1. UNCHANGED <<nwrite, data>> BY Zenon, <1>2 DEF read_loop
    <3> QED BY Zenon, <2>1, <3>1, ReadByte
  <2>2. CASE UNCHANGED <<nread, got>>
    <3>1. UNCHANGED <<nwrite, data>> BY Zenon, <1>2 DEF read_loop
    <3> QED BY Zenon, <2>2, <3>1, RingSame
  <2> QED BY Zenon, <1>2, <2>1, <2>2 DEF read_loop
<1>3. CASE write_lock(p) BY Zenon, <1>3, RingSame DEF write_lock, pipe_vars
<1>4. CASE write_full(p) BY Zenon, <1>4, RingSame DEF write_full, ring
<1>5. CASE read_empty(p) BY Zenon, <1>5, RingSame DEF read_empty, ring
<1>6. CASE io_woken(p) BY Zenon, <1>6, RingSame DEF io_woken, pipe_vars
<1>7. CASE io_return(p) BY Zenon, <1>7, RingSame DEF io_return, ring
<1>8. CASE pipeclose(p) BY Zenon, <1>8, RingSame DEF pipeclose
<1>9. CASE pipeclosed(p) BY Zenon, <1>9, RingSame DEF pipeclosed, pipe_vars
<1> QED BY ZenonT(60), <1>1, <1>2, <1>3, <1>4, <1>5, <1>6, <1>7, <1>8, <1>9 DEF PipeStep

\* No system call changes the ring before its loop.
LEMMA SyscallRing ==
  ASSUME PInv, NEW p \in Procs, Syscall(p)
  PROVE  PInv'
<1>1. CASE \E q \in Procs : fork(p, q)
  BY Zenon, <1>1, RingSame DEF fork, ring
<1>2. CASE \E n \in Sizes : write_call(p, n)
  BY Zenon, <1>2, RingSame DEF write_call, ring
<1>3. CASE \E n \in Sizes : read_call(p, n)
  BY Zenon, <1>3, RingSame DEF read_call, ring
<1>4. CASE \E e \in fds[p] : close_fds(p, {e}, "user")
  BY Zenon, <1>4, RingSame DEF close_fds, ring
<1>5. CASE UNCHANGED pipe_vars
  BY Zenon, <1>5, RingSame DEF pipe_vars
<1> QED BY Zenon, <1>1, <1>2, <1>3, <1>4, <1>5 DEF Syscall

-----------------------------------------------------------------------------

\* The ring is empty at the start.
LEMMA InitRing == Init => PInv
<1>1. PIPESIZE \in Nat BY Zenon, ShellAssumption
<1> SUFFICES ASSUME Init PROVE PInv BY Zenon
<1>2. nread = 0 /\ nwrite = 0 /\ got = <<>> /\ data = [j \in 0 .. PIPESIZE - 1 |-> 0]
  BY Zenon DEF Init, PipeInit
<1>3. RingInv BY <1>1, <1>2 DEF RingInv
<1>4. InOrder BY <1>2 DEF InOrder
<1> QED BY Zenon, <1>3, <1>4 DEF PInv

\* Every step keeps the ring in order.
LEMMA NextRing ==
  ASSUME PInv, [Next]_vars
  PROVE  PInv'
<1>1. PIPESIZE \in Nat BY Zenon, ShellAssumption
<1>2. CASE UNCHANGED vars BY Zenon, <1>2, RingSame DEF vars, pipe_vars
<1>3. ASSUME NEW p \in Procs, Syscall(p) PROVE PInv' BY Zenon, <1>3, SyscallRing
<1>4. ASSUME NEW p \in Procs, Kernel(p) PROVE PInv'
  <2>1. CASE UNCHANGED pipe_vars BY Zenon, <2>1, RingSame DEF pipe_vars
  <2>2. CASE PipeStep(p) BY Zenon, <1>1, <2>2, PipeStepRing
  <2>3. CASE exit_files(p) BY Zenon, <2>3, RingSame DEF exit_files, close_fds, ring
  <2>4. CASE reader_onzero(p) BY Zenon, <2>4, RingSame DEF reader_onzero, pipe_vars
  <2> QED BY Zenon, <1>4, <2>1, <2>2, <2>3, <2>4 DEF Kernel
<1> QED BY Zenon, <1>2, <1>3, <1>4 DEF Next

-----------------------------------------------------------------------------
\* The locks have different names.
LEMMA Names ==
  /\ \A p \in Procs : plock(p) \in Locks /\ plock(p) \notin Cvs /\ cv(p) \in Cvs
  /\ \A p, q \in Procs : plock(p) = plock(q) => p = q
  /\ \A p \in Procs : plock(p) # lock /\ plock(p) # lock_close
  /\ {lock, lock_close} \subseteq Locks /\ lock # lock_close
  /\ lock \notin Cvs /\ lock_close \notin Cvs
  /\ {empty, full} \subseteq Cvs /\ Cvs \subseteq Locks
  /\ None \notin Procs /\ None \notin Cvs
<1>1. /\ {lock, lock_close} \subseteq Spins
      /\ {empty, full} \cup {cv(p) : p \in Procs} \subseteq Cvs
      /\ Cvs \cap (Spins \cup {plock(p) : p \in Procs}) = {} /\ None \notin Procs \cup Cvs
  BY Zenon, ShellAssumption
<1>2. lock # lock_close
  BY Zenon DEF lock, lock_close
<1>3. \A p, q \in Procs : plock(p) = plock(q) => p = q
  BY Zenon DEF plock
<1>4. \A p \in Procs : plock(p) # lock /\ plock(p) # lock_close
  BY Zenon DEF plock, lock, lock_close
<1> QED
  BY <1>1, <1>2, <1>3, <1>4 DEF Locks

-----------------------------------------------------------------------------
\* A list of length 0 is empty.
LEMMA NoElement ==
  ASSUME NEW S, NEW s \in Seq(S), Len(s) = 0
  PROVE  s = <<>>
OBVIOUS

\* Dropping the first element of a list without duplicates.
LEMMA TailList ==
  ASSUME NEW S, NEW s \in Seq(S), Len(s) # 0, Distinct(s)
  PROVE  /\ Tail(s) \in Seq(S) /\ Distinct(Tail(s)) /\ ~InList(Head(s), Tail(s))
         /\ InList(Head(s), s) /\ Head(s) \in S
         /\ \A x : InList(x, Tail(s)) => InList(x, s)
         /\ \A x : InList(x, s) => x = Head(s) \/ InList(x, Tail(s))
<1> DEFINE t == Tail(s)
<1>1. /\ t \in Seq(S) /\ Len(s) \in Nat \ {0} /\ Len(t) = Len(s) - 1 /\ Head(s) = s[1] /\ s[1] \in S
      /\ \A i \in 1 .. Len(t) : t[i] = s[i + 1]
  OBVIOUS
<1> HIDE DEF t
<1>2. \A i \in 1 .. Len(t) : i + 1 \in 1 .. Len(s) /\ i + 1 # 1
  BY <1>1
<1>3. 1 \in 1 .. Len(s)
  BY <1>1
<1>4. Distinct(t)
  <2> SUFFICES ASSUME NEW i \in 1 .. Len(t), NEW j \in 1 .. Len(t), t[i] = t[j] PROVE i = j
    BY Zenon DEF Distinct
  <2>1. i + 1 = j + 1
    BY ZenonT(60), <1>1, <1>2 DEF Distinct
  <2> QED
    BY <2>1
<1>5. ~InList(s[1], t)
  BY Zenon, <1>1, <1>2, <1>3 DEF Distinct, InList
<1>6. ASSUME NEW x, InList(x, s), x # s[1] PROVE InList(x, t)
  <2>1. PICK i \in 1 .. Len(s) : s[i] = x
    BY Zenon, <1>6 DEF InList
  <2>2. i - 1 \in 1 .. Len(t) /\ (i - 1) + 1 = i
    BY <1>1, <1>6, <2>1
  <2>3. t[i - 1] = x
    BY Zenon, <1>1, <2>1, <2>2
  <2> QED
    BY Zenon, <2>2, <2>3 DEF InList
<1>7. \A x : InList(x, t) => InList(x, s)
  BY Zenon, <1>1, <1>2 DEF InList
<1> QED
  BY Zenon, <1>1, <1>3, <1>4, <1>5, <1>6, <1>7 DEF InList, t

\* Appending a new element.
LEMMA AppendList ==
  ASSUME NEW S, NEW s \in Seq(S), NEW q \in S
  PROVE  /\ Append(s, q) \in Seq(S) /\ InList(q, Append(s, q))
         /\ Distinct(s) /\ ~InList(q, s) => Distinct(Append(s, q))
         /\ \A x : InList(x, s) => InList(x, Append(s, q))
         /\ \A x : InList(x, Append(s, q)) => x = q \/ InList(x, s)
<1> DEFINE t == Append(s, q)
<1>1. /\ t \in Seq(S) /\ Len(s) \in Nat /\ Len(t) = Len(s) + 1 /\ t[Len(s) + 1] = q
      /\ \A i \in 1 .. Len(s) : t[i] = s[i]
  OBVIOUS
<1> HIDE DEF t
<1>2. /\ 1 .. Len(t) = (1 .. Len(s)) \cup {Len(s) + 1} /\ Len(s) + 1 \notin 1 .. Len(s)
  BY <1>1
<1>3. InList(q, t)
  BY Zenon, <1>1, <1>2 DEF InList
<1>4. \A x : InList(x, s) => InList(x, t)
  BY Zenon, <1>1, <1>2 DEF InList
<1>5. \A x : InList(x, t) => x = q \/ InList(x, s)
  BY Zenon, <1>1, <1>2 DEF InList
<1>6. Distinct(s) /\ ~InList(q, s) => Distinct(t)
  BY Zenon, <1>1, <1>2 DEF InList, Distinct
<1> QED
  BY Zenon, <1>1, <1>3, <1>4, <1>5, <1>6 DEF t

\* Joining two lists that have nothing in common.
LEMMA ConcatList ==
  ASSUME NEW S, NEW a \in Seq(S), NEW b \in Seq(S)
  PROVE  /\ a \o b \in Seq(S) /\ Len(a \o b) = Len(a) + Len(b)
         /\ \A i \in 1 .. Len(a) : (a \o b)[i] = a[i]
         /\ \A i \in 1 .. Len(b) : (a \o b)[Len(a) + i] = b[i]
OBVIOUS

\* Taking an element out of the middle of a list.
LEMMA EraseList ==
  ASSUME NEW S, NEW s \in Seq(S), NEW k \in 1 .. Len(s), Distinct(s)
  PROVE  /\ erase(s, k) \in Seq(S) /\ Distinct(erase(s, k)) /\ ~InList(s[k], erase(s, k))
         /\ \A x : InList(x, erase(s, k)) => InList(x, s)
         /\ \A x : InList(x, s) => x = s[k] \/ InList(x, erase(s, k))
<1> DEFINE a == SubSeq(s, 1, k - 1)
           b == SubSeq(s, k + 1, Len(s))
           t == a \o b
<1>0. Len(s) \in Nat /\ k \in Nat /\ 1 <= k /\ k <= Len(s)
  OBVIOUS
<1>1. /\ a \in Seq(S) /\ Len(a) = k - 1 /\ \A i \in 1 .. k - 1 : a[i] = s[i]
  BY <1>0
<1>2. /\ b \in Seq(S) /\ Len(b) = Len(s) - k /\ \A i \in 1 .. Len(s) - k : b[i] = s[k + i]
  <2>1. b \in Seq(S) /\ Len(b) = Len(s) - k
    BY <1>0
  <2>2. ASSUME NEW i \in 1 .. Len(s) - k PROVE b[i] = s[k + i]
    <3>1. b[i] = s[(k + 1) + i - 1]
      BY <1>0
    <3> QED
      BY <1>0, <3>1
  <2> QED
    BY Zenon, <2>1, <2>2
<1> HIDE DEF a, b
<1>3. /\ t \in Seq(S) /\ Len(t) = Len(s) - 1
      /\ \A i \in 1 .. k - 1 : t[i] = s[i]
      /\ \A i \in k .. Len(s) - 1 : t[i] = s[i + 1]
  <2>1. t \in Seq(S) /\ Len(t) = Len(s) - 1
    <3>1. t \in Seq(S) /\ Len(t) = Len(a) + Len(b)
      BY ZenonT(60), <1>1, <1>2, ConcatList
    <3> QED
      BY <1>0, <1>1, <1>2, <3>1
  <2>2. ASSUME NEW i \in 1 .. k - 1 PROVE t[i] = s[i]
    <3>1. i \in 1 .. Len(a)
      BY Zenon, <1>0, <1>1
    <3>2. t[i] = a[i]
      BY <1>1, <1>2, <3>1
    <3> QED
      BY Zenon, <1>1, <3>2
  <2>3. ASSUME NEW i \in k .. Len(s) - 1 PROVE t[i] = s[i + 1]
    <3>1. t[i] = b[i - (k - 1)] /\ i - (k - 1) \in 1 .. Len(s) - k
      BY <1>0, <1>1, <1>2
    <3>2. k + (i - (k - 1)) = i + 1
      BY <1>0
    <3> QED
      BY Zenon, <1>2, <3>1, <3>2
  <2> QED
    BY Zenon, <2>1, <2>2, <2>3
<1>4. t = erase(s, k)
  BY Zenon DEF erase, a, b
<1> HIDE DEF t
<1>5. ASSUME NEW i \in 1 .. Len(t)
      PROVE  \E j \in 1 .. Len(s) : j # k /\ t[i] = s[j] /\ j = IF i < k THEN i ELSE i + 1
  BY <1>0, <1>3
<1>6. Distinct(t)
  <2> SUFFICES ASSUME NEW i \in 1 .. Len(t), NEW j \in 1 .. Len(t), t[i] = t[j] PROVE i = j
    BY Zenon DEF Distinct
  <2>1. PICK x \in 1 .. Len(s) : t[i] = s[x] /\ x = IF i < k THEN i ELSE i + 1
    BY Zenon, <1>5
  <2>2. PICK y \in 1 .. Len(s) : t[j] = s[y] /\ y = IF j < k THEN j ELSE j + 1
    BY Zenon, <1>5
  <2>3. x = y
    BY Zenon, <2>1, <2>2 DEF Distinct
  <2> QED
    BY <1>0, <1>3, <2>1, <2>2, <2>3
<1>7. ASSUME NEW x, InList(x, t) PROVE InList(x, s) /\ x # s[k]
  <2>1. PICK i \in 1 .. Len(t) : t[i] = x
    BY Zenon, <1>7 DEF InList
  <2>2. PICK j \in 1 .. Len(s) : j # k /\ t[i] = s[j]
    BY Zenon, <1>5
  <2> QED
    BY Zenon, <2>1, <2>2 DEF InList, Distinct
<1>8. ASSUME NEW x, InList(x, s), x # s[k] PROVE InList(x, t)
  <2>1. PICK i \in 1 .. Len(s) : s[i] = x
    BY Zenon, <1>8 DEF InList
  <2>2. i # k
    BY Zenon, <1>8, <2>1
  <2>3. CASE i < k
    <3>1. i \in 1 .. k - 1 /\ i \in 1 .. Len(t)
      BY <1>0, <1>3, <2>3
    <3> QED
      BY Zenon, <1>3, <2>1, <3>1 DEF InList
  <2>4. CASE i > k
    <3>1. i - 1 \in k .. Len(s) - 1 /\ i - 1 \in 1 .. Len(t) /\ (i - 1) + 1 = i
      BY <1>0, <1>3, <2>4
    <3>2. t[i - 1] = s[i]
      BY Zenon, <1>3, <3>1
    <3> QED
      BY Zenon, <2>1, <3>1, <3>2 DEF InList
  <2> QED
    BY <2>2, <2>3, <2>4
<1> QED
  BY Zenon, <1>3, <1>4, <1>6, <1>7, <1>8

\* Putting a new element in front.
LEMMA PrependList ==
  ASSUME NEW S, NEW s \in Seq(S), NEW q \in S, Distinct(s), ~InList(q, s)
  PROVE  /\ <<q>> \o s \in Seq(S) /\ Distinct(<<q>> \o s)
         /\ \A x : InList(x, <<q>> \o s) <=> x = q \/ InList(x, s)
<1> DEFINE t == <<q>> \o s
<1>1. /\ t \in Seq(S) /\ Len(s) \in Nat /\ Len(t) = Len(s) + 1 /\ t[1] = q
      /\ \A i \in 1 .. Len(s) : t[i + 1] = s[i]
  OBVIOUS
<1> HIDE DEF t
<1>2. \A i \in 1 .. Len(t) : i = 1 \/ (i - 1 \in 1 .. Len(s) /\ t[i] = s[i - 1])
  <2> SUFFICES ASSUME NEW i \in 1 .. Len(t), i # 1 PROVE i - 1 \in 1 .. Len(s) /\ t[i] = s[i - 1]
    BY Zenon
  <2>1. i - 1 \in 1 .. Len(s) /\ (i - 1) + 1 = i
    BY <1>1
  <2> QED
    BY Zenon, <1>1, <2>1
<1>3. 1 \in 1 .. Len(t) /\ \A i \in 1 .. Len(s) : i + 1 \in 1 .. Len(t)
  BY <1>1
<1>4. Distinct(t)
  <2> SUFFICES ASSUME NEW i \in 1 .. Len(t), NEW j \in 1 .. Len(t), t[i] = t[j] PROVE i = j
    BY Zenon DEF Distinct
  <2>1. CASE i = 1 \/ j = 1
    BY ZenonT(60), <1>1, <1>2, <2>1 DEF InList
  <2>2. CASE i # 1 /\ j # 1
    <3>1. i - 1 = j - 1
      BY ZenonT(60), <1>2, <2>2 DEF Distinct
    <3> QED
      BY <1>1, <3>1
  <2> QED
    BY Zenon, <2>1, <2>2
<1>5. ASSUME NEW x PROVE InList(x, t) <=> x = q \/ InList(x, s)
  <2>1. ASSUME InList(x, t) PROVE x = q \/ InList(x, s)
    <3>1. PICK i \in 1 .. Len(t) : t[i] = x
      BY Zenon, <2>1 DEF InList
    <3> QED
      BY Zenon, <1>1, <1>2, <3>1 DEF InList
  <2>2. x = q \/ InList(x, s) => InList(x, t)
    BY Zenon, <1>1, <1>3 DEF InList
  <2> QED
    BY Zenon, <2>1, <2>2
<1> QED
  BY Zenon, <1>1, <1>4, <1>5 DEF t

-----------------------------------------------------------------------------
\* A step of p leaves the places of the others alone.
Moves(p) ==
  /\ DOMAIN pc' = Procs /\ DOMAIN frame' = Procs
  /\ \A r \in Procs \ {p} : pc'[r] = pc[r] /\ frame'[r] = frame[r]

\* LockInv after a step of p that releases and acquires the locks in which its
\* labels differ.
LEMMA Locked ==
  ASSUME LInv, NEW p \in Procs, Moves(p), NEW rel \in SUBSET Locks, NEW acq \in SUBSET Locks,
         holder' = [l \in Locks |-> IF l \in acq THEN p ELSE IF l \in rel THEN None ELSE holder[l]],
         rel \subseteq HoldsNow(p), \A l \in acq : Free(l),
         HoldsNow(p)' = (HoldsNow(p) \ rel) \cup acq
  PROVE  /\ LockInv' /\ holder' \in [Locks -> Procs \cup {None}]
         /\ \A l \in rel : holder[l] = p
<1>0. /\ holder \in [Locks -> Procs \cup {None}]
      /\ \A r \in Procs, l \in Locks : holder[l] = r <=> l \in HoldsNow(r)
  BY Zenon DEF LInv, CoreType, LockInv
<1>1. None \notin Procs /\ \A l \in acq : holder[l] = None
  BY Zenon, Names DEF Free
<1>2. \A l \in rel : holder[l] = p
  BY Zenon, <1>0
<1>3. \A r \in Procs \ {p} : HoldsNow(r)' = HoldsNow(r)
  BY Zenon DEF Moves, HoldsNow
<1>4. ASSUME NEW r \in Procs, NEW l \in Locks PROVE holder'[l] = r <=> l \in HoldsNow(r)'
  <2>1. CASE r = p
    BY Zenon, <1>0, <1>1, <2>1
  <2>2. CASE r # p
    BY <1>0, <1>1, <1>3, <2>2
  <2> QED
    BY Zenon, <2>1, <2>2
<1> QED
  BY Zenon, <1>0, <1>2, <1>4 DEF LockInv

\* LInv after a step of p, from its parts.
LEMMA Gather ==
  ASSUME LInv, NEW p \in Procs, Moves(p), LockInv', CoreType', WaitersInv', panic' = FALSE,
         \A r \in Procs : killed'[r] => r \in Killable, \A r \in Procs : StateOK(r)',
         FrameOK(p, pc'[p], frame'[p])
  PROVE  LInv'
<1>1. ASSUME NEW r \in Procs
      PROVE  FrameOK(r, pc'[r], frame'[r])
  <2>1. FrameOK(r, pc[r], frame[r])
    BY Zenon DEF LInv
  <2>2. CASE r # p
    BY Zenon, <2>1, <2>2 DEF Moves
  <2> QED
    BY Zenon, <2>1, <2>2
<1> QED
  BY Zenon, <1>1 DEF LInv

\* The same for a step that keeps the states of the other processes.
LEMMA Assemble ==
  ASSUME LInv, NEW p \in Procs, Moves(p), LockInv', CoreType', WaitersInv', panic' = FALSE,
         killed' = killed, \A r \in Procs \ {p} : state'[r] = state[r] /\ oncv'[r] = oncv[r],
         FrameOK(p, pc'[p], frame'[p]), StateOK(p)'
  PROVE  LInv'
<1>1. ASSUME NEW r \in Procs
      PROVE  StateOK(r)' /\ (killed'[r] => r \in Killable)
  <2>1. StateOK(r) /\ (killed[r] => r \in Killable)
    BY Zenon DEF LInv
  <2>2. CASE r # p
    BY ZenonT(60), <2>1, <2>2 DEF Moves, StateOK
  <2> QED
    BY Zenon, <2>1, <2>2
<1> QED
  BY Zenon, <1>1, Gather

\* A step of p that leaves lists and states alone, and may mark another process as
\* killed.
LEMMA QuietKill ==
  ASSUME LInv, NEW p \in Procs, Moves(p), NEW rel \in SUBSET Locks, NEW acq \in SUBSET Locks,
         Locking(p, rel, acq), rel \subseteq HoldsNow(p), \A l \in acq : Free(l),
         HoldsNow(p)' = (HoldsNow(p) \ rel) \cup acq,
         FrameOK(p, pc'[p], frame'[p]), pc'[p] \notin {"swtch", "forkret", "dead"},
         state[p] = "RUNNING", UNCHANGED <<waiters, oncv, state>>,
         killed' \in [Procs -> BOOLEAN], \A r \in Procs : killed'[r] => r \in Killable
  PROVE  LInv'
<1>0. LockInv' /\ holder' \in [Locks -> Procs \cup {None}] /\ \A l \in rel : holder[l] = p
  BY ZenonT(60), Locked DEF Locking
<1>1. LockInv' /\ panic' = FALSE /\ holder' \in [Locks -> Procs \cup {None}]
  BY Zenon, <1>0 DEF LInv, Locking
<1>2. CoreType'
  BY Zenon, <1>1 DEF LInv, CoreType, Moves
<1>4. WaitersInv /\ waiters' = waiters /\ oncv' = oncv
  BY Zenon DEF LInv
<1>5. WaitersInv'
  BY Zenon, <1>4 DEF WaitersInv
<1>3. ASSUME NEW r \in Procs PROVE StateOK(r)'
  <2>1. StateOK(r) /\ StateOK(p)
    BY Zenon DEF LInv
  <2>2. CASE r = p
    BY Zenon, <2>1, <2>2 DEF StateOK
  <2>3. CASE r # p
    BY Zenon, <2>1, <2>3 DEF StateOK, Moves
  <2> QED
    BY Zenon, <2>2, <2>3
<1> QED
  BY Zenon, <1>1, <1>2, <1>3, <1>5, Gather

\* A step of p that leaves lists, states and marks alone.
LEMMA Quiet ==
  ASSUME LInv, NEW p \in Procs, Moves(p), NEW rel \in SUBSET Locks, NEW acq \in SUBSET Locks,
         Locking(p, rel, acq), rel \subseteq HoldsNow(p), \A l \in acq : Free(l),
         HoldsNow(p)' = (HoldsNow(p) \ rel) \cup acq,
         FrameOK(p, pc'[p], frame'[p]), pc'[p] \notin {"swtch", "forkret", "dead"},
         state[p] = "RUNNING", UNCHANGED <<waiters, oncv, state, killed>>
  PROVE  LInv'
<1>1. killed' \in [Procs -> BOOLEAN] /\ \A r \in Procs : killed'[r] => r \in Killable
  BY Zenon DEF LInv, CoreType
<1> QED
  BY Zenon, <1>1, QuietKill

\* What LInv says of a running process.
LEMMA Here ==
  ASSUME LInv, NEW p \in Procs
  PROVE  /\ FrameOK(p, pc[p], frame[p])
         /\ pc[p] \notin {"swtch", "forkret", "dead", "user"} =>
              state[p] = "RUNNING" /\ oncv[p] = None
         /\ DOMAIN pc = Procs /\ DOMAIN frame = Procs
         /\ holder \in [Locks -> Procs \cup {None}]
BY Zenon DEF LInv, StateOK, CoreType

-----------------------------------------------------------------------------
\* The locks of a process that is in sleep.
LEMMA SleepLocks ==
  ASSUME NEW p \in Procs, NEW label, NEW f, SleepFrame(p, label, f), label # "relock"
  PROVE  Range(f.lks) = LocksAt(p, f.ret, f) /\ f.cv \in Cvs /\ Range(f.lks) \in SUBSET Locks
<1>1. CASE f.ret = "rewait" /\ f.cv = cv(p) /\ f.lks = <<plock(p)>>
  BY <1>1, Names DEF LocksAt, Range
<1>2. CASE f.ret \in {"read_woken", "write_woken"} /\ f.cv \in {empty, full} /\ f.lks = <<lock, lock_close>>
  BY <1>2, Names DEF LocksAt, Range
<1> QED
  BY Zenon, <1>1, <1>2 DEF SleepFrame

\* sleep takes the locks of the condition variable and of the process and gives up
\* those of its caller.
LEMMA SleepTo ==
  ASSUME LInv, NEW p \in Procs, sleep_to(p)
  PROVE  LInv'
<1> DEFINE f == frame[p]
<1>1. /\ pc[p] = "sleep" /\ Free(f.cv) /\ Locking(p, Range(f.lks), {f.cv})
      /\ pc' = [pc EXCEPT ![p] = "enqueue"] /\ frame' = frame
      /\ UNCHANGED <<waiters, oncv, state, killed>>
  BY Zenon DEF sleep_to, Goto
<1>2. FrameOK(p, "sleep", f) /\ state[p] = "RUNNING" /\ DOMAIN pc = Procs /\ DOMAIN frame = Procs
  BY Zenon, <1>1, Here
<1>3. SleepFrame(p, "sleep", f)
  BY Zenon, <1>2 DEF FrameOK, InSleep
<1>4. /\ Range(f.lks) = LocksAt(p, f.ret, f) /\ f.cv \in Cvs
      /\ Range(f.lks) \in SUBSET Locks /\ {f.cv} \in SUBSET Locks
  BY ZenonT(60), <1>3, SleepLocks, Names
<1>5. HoldsNow(p) = LocksAt(p, f.ret, f)
  BY Zenon, <1>1 DEF HoldsNow, Holds
<1>6. HoldsNow(p)' = {f.cv}
  BY Zenon, <1>1, <1>2 DEF HoldsNow, Holds
<1>7. FrameOK(p, pc'[p], frame'[p]) /\ Moves(p) /\ pc'[p] = "enqueue"
  BY Zenon, <1>1, <1>2 DEF FrameOK, Moves, InSleep, InWake, Plain, SleepFrame
<1> QED
  BY Zenon, <1>1, <1>2, <1>4, <1>5, <1>6, <1>7, Quiet

\* sleep enters the process in the list.
LEMMA SleepEnqueue ==
  ASSUME LInv, NEW p \in Procs, sleep_enqueue(p)
  PROVE  LInv'
<1> DEFINE c == frame[p].cv
           w == <<p>> \o waiters[c]
<1>1. /\ pc[p] = "enqueue" /\ pc' = [pc EXCEPT ![p] = "swtch"] /\ frame' = frame /\ killed' = killed
      /\ holder' = [holder EXCEPT ![c] = None]
      /\ panic' = (panic \/ oncv[p] # None \/ state[p] # "RUNNING")
      /\ waiters' = [waiters EXCEPT ![c] = w] /\ oncv' = [oncv EXCEPT ![p] = c]
      /\ state' = [state EXCEPT ![p] = "SLEEPING"]
  BY Zenon DEF sleep_enqueue, Goto
<1>2. /\ FrameOK(p, "enqueue", frame[p]) /\ state[p] = "RUNNING" /\ oncv[p] = None
      /\ CoreType /\ WaitersInv /\ panic = FALSE
  BY Zenon, <1>1, Here DEF LInv
<1>3. c \in Cvs /\ SleepFrame(p, "enqueue", frame[p])
  BY ZenonT(60), <1>2, Names DEF FrameOK, InSleep, SleepFrame
<1>4. Moves(p) /\ pc'[p] = "swtch" /\ frame'[p] = frame[p]
  BY Zenon, <1>1, <1>2 DEF CoreType, Moves
<1>5. LockInv' /\ holder' \in [Locks -> Procs \cup {None}]
  <2>1. HoldsNow(p) = {c}
    BY Zenon, <1>1 DEF HoldsNow, Holds
  <2>2. HoldsNow(p)' = {}
    BY Zenon, <1>4 DEF HoldsNow, Holds, LocksAt
  <2>3. holder' = [l \in Locks |-> IF l \in {} THEN p ELSE IF l \in {c} THEN None ELSE holder[l]]
    BY Zenon, <1>1, <1>2 DEF CoreType
  <2>4. {c} \in SUBSET Locks /\ {} \in SUBSET Locks
    BY Zenon, <1>3, Names
  <2> QED
    <3>1. /\ {c} \subseteq HoldsNow(p) /\ HoldsNow(p)' = (HoldsNow(p) \ {c}) \cup {}
          /\ \A l \in {} : Free(l)
      BY Zenon, <2>1, <2>2
    <3> QED
      BY ZenonT(60), <1>4, <2>3, <2>4, <3>1, Locked
<1>6. CoreType' /\ panic' = FALSE
  BY Zenon, <1>1, <1>2, <1>3, <1>5 DEF CoreType
<1>7. /\ waiters[c] \in Seq(Procs) /\ Distinct(waiters[c]) /\ ~InList(p, waiters[c])
      /\ \A d \in Cvs \ {c} : ~InList(p, waiters[d])
  BY <1>2, <1>3, Names DEF WaitersInv
<1>8. /\ w \in Seq(Procs) /\ Distinct(w) /\ \A x : InList(x, w) <=> x = p \/ InList(x, waiters[c])
  BY Zenon, <1>7, PrependList
<1> HIDE DEF w
<1>9. waiters'[c] = w /\ \A d \in Cvs \ {c} : waiters'[d] = waiters[d]
  BY Zenon, <1>1, <1>2, <1>3 DEF CoreType
<1>10. oncv'[p] = c /\ \A r \in Procs \ {p} : oncv'[r] = oncv[r]
  BY Zenon, <1>1, <1>2 DEF CoreType
<1>11. ASSUME NEW d \in Cvs
       PROVE  /\ waiters'[d] \in Seq(Procs) /\ Distinct(waiters'[d])
              /\ \A r \in Procs : InList(r, waiters'[d]) <=> oncv'[r] = d
  <2>1. CASE d # c
    BY <1>2, <1>7, <1>9, <1>10, <2>1 DEF WaitersInv
  <2>2. CASE d = c
    BY <1>2, <1>3, <1>8, <1>9, <1>10, <2>2 DEF WaitersInv
  <2> QED
    BY ZenonT(60), <2>1, <2>2
<1>13. StateOK(p)'
  BY Zenon, <1>1, <1>2, <1>4, <1>10 DEF StateOK, CoreType
<1>14. FrameOK(p, pc'[p], frame'[p])
  BY ZenonT(60), <1>2, <1>3, <1>4 DEF FrameOK, InSleep, InWake, Plain, SleepFrame
<1>15. WaitersInv'
  BY Zenon, <1>11 DEF WaitersInv
<1>16. \A r \in Procs \ {p} : state'[r] = state[r]
  BY Zenon, <1>1, <1>2 DEF CoreType
<1> QED
  BY ZenonT(60), <1>1, <1>4, <1>5, <1>6, <1>10, <1>13, <1>14, <1>15, <1>16, Assemble

\* The scheduler runs a process that has been woken.
LEMMA Resume ==
  ASSUME LInv, NEW p \in Procs, resume(p)
  PROVE  LInv'
<1>1. /\ pc[p] \in {"swtch", "forkret"} /\ state[p] = "RUNNABLE"
      /\ state' = [state EXCEPT ![p] = "RUNNING"]
      /\ pc' = [pc EXCEPT ![p] = IF pc[p] = "swtch" THEN "relock" ELSE "user"]
      /\ UNCHANGED <<holder, waiters, oncv, killed, frame, panic>>
  BY Zenon DEF resume, Goto
<1>2. /\ FrameOK(p, pc[p], frame[p]) /\ StateOK(p)
      /\ CoreType /\ WaitersInv /\ panic = FALSE
  BY Zenon DEF LInv
<1>3. Moves(p) /\ pc'[p] = (IF pc[p] = "swtch" THEN "relock" ELSE "user") /\ frame'[p] = frame[p]
  BY Zenon, <1>1, <1>2 DEF CoreType, Moves
<1>4. HoldsNow(p) = {} /\ HoldsNow(p)' = {}
  <2>1. HoldsNow(p) = {}
    BY Zenon, <1>1 DEF HoldsNow, Holds, LocksAt
  <2>2. CASE pc[p] = "forkret"
    BY Zenon, <1>3, <2>1, <2>2 DEF HoldsNow, Holds, LocksAt
  <2>3. CASE pc[p] = "swtch"
    <3>1. SleepFrame(p, "swtch", frame[p])
      BY Zenon, <1>2, <2>3 DEF FrameOK, InSleep
    <3>2. HoldsNow(p)' = LocksAt(p, frame[p].ret, frame[p]) \ Range(frame[p].lks)
      BY Zenon, <1>3, <2>3 DEF HoldsNow, Holds
    <3> QED
      BY Zenon, <2>1, <3>1, <3>2, SleepLocks
  <2> QED
    BY Zenon, <1>1, <2>2, <2>3
<1>5. LockInv'
  <2>1. holder' = [l \in Locks |-> IF l \in {} THEN p ELSE IF l \in {} THEN None ELSE holder[l]]
    BY Zenon, <1>1, <1>2 DEF CoreType
  <2> QED
    BY Zenon, <1>3, <1>4, <2>1, Locked
<1>6. CoreType' /\ panic' = FALSE /\ WaitersInv'
  <2>1. WaitersInv'
    BY Zenon, <1>1, <1>2 DEF WaitersInv
  <2>2. CoreType'
    BY Zenon, <1>1, <1>2, <1>3 DEF CoreType, Moves
  <2> QED
    BY Zenon, <1>1, <1>2, <2>1, <2>2
<1>7. StateOK(p)'
  BY ZenonT(60), <1>1, <1>2, <1>3 DEF StateOK, CoreType
<1>8. FrameOK(p, pc'[p], frame'[p])
  BY <1>1, <1>2, <1>3 DEF FrameOK, InSleep, InWake, Plain, SleepFrame
<1>9. \A r \in Procs \ {p} : state'[r] = state[r] /\ oncv'[r] = oncv[r]
  BY Zenon, <1>1, <1>2 DEF CoreType
<1> QED
  BY Zenon, <1>1, <1>3, <1>5, <1>6, <1>7, <1>8, <1>9, Assemble

\* sleep takes the locks of its caller again, or leaves by the exception.
LEMMA SleepRelock ==
  ASSUME LInv, NEW p \in Procs, sleep_relock(p)
  PROVE  LInv'
<1> DEFINE f == frame[p]
           l == f.lks[1]
<1>1. /\ pc[p] = "relock" /\ Free(l) /\ Locking(p, {}, {l})
      /\ UNCHANGED <<waiters, oncv, state, killed>>
      /\ IF Len(f.lks) > 1
         THEN frame' = [frame EXCEPT ![p].lks = Tail(@)] /\ UNCHANGED pc
         ELSE /\ pc' = [pc EXCEPT ![p] = IF killed[p] THEN f.exc ELSE f.ret]
              /\ frame' = [frame EXCEPT ![p] = NoFrame]
  BY Zenon DEF sleep_relock, Goto
<1>2. FrameOK(p, "relock", f) /\ state[p] = "RUNNING" /\ DOMAIN pc = Procs /\ DOMAIN frame = Procs
  BY Zenon, <1>1, Here
<1>3. SleepFrame(p, "relock", f) /\ (killed[p] => p \in Killable)
  BY Zenon, <1>2 DEF FrameOK, InSleep, LInv
<1>4. HoldsNow(p) = LocksAt(p, f.ret, f) \ Range(f.lks)
  BY ZenonT(60), <1>1 DEF HoldsNow, Holds
<1>5. CASE f.lks = <<lock, lock_close>> /\ f.ret \in {"read_woken", "write_woken"}
  <2>1. /\ frame' = [frame EXCEPT ![p].lks = Tail(@)] /\ pc' = pc /\ l = lock
        /\ Tail(f.lks) = <<lock_close>>
    BY <1>1, <1>5
  <2>2. /\ Moves(p) /\ pc'[p] = "relock" /\ frame'[p] = [f EXCEPT !.lks = <<lock_close>>]
    BY ZenonT(60), <1>1, <1>2, <2>1 DEF Moves
  <2>3. HoldsNow(p) = {}
    BY <1>4, <1>5 DEF LocksAt, Range
  <2>4. HoldsNow(p)' = {lock}
    <3>1. frame'[p].ret = f.ret /\ frame'[p].lks = <<lock_close>>
      BY Zenon, <1>2, <2>2 DEF FrameOK
    <3>2. Range(<<lock_close>>) = {lock_close}
      BY DEF Range
    <3> QED
      BY ZenonT(60), <1>5, <2>2, <3>1, <3>2, Names DEF HoldsNow, Holds, LocksAt
  <2>5. FrameOK(p, pc'[p], frame'[p])
    BY ZenonT(60), <1>2, <1>3, <1>5, <2>2 DEF FrameOK, InSleep, InWake, Plain, SleepFrame
  <2>6. {lock} \in SUBSET Locks
    BY ZenonT(60), Names
  <2> QED
    BY <1>1, <1>2, <2>1, <2>2, <2>3, <2>4, <2>5, <2>6, Quiet
<1>6. CASE f.lks = <<lock_close>> /\ f.ret \in {"read_woken", "write_woken"} /\ f.exc = "io_killed"
  <2>1. /\ pc' = [pc EXCEPT ![p] = IF killed[p] THEN f.exc ELSE f.ret]
        /\ frame' = [frame EXCEPT ![p] = NoFrame] /\ l = lock_close
    BY <1>1, <1>6
  <2>2. /\ Moves(p) /\ pc'[p] \in {"read_woken", "write_woken", "io_killed"} /\ frame'[p] = NoFrame
    BY ZenonT(60), <1>1, <1>2, <1>6, <2>1 DEF Moves
  <2>3. HoldsNow(p) = {lock}
    BY <1>4, <1>6, Names DEF LocksAt, Range
  <2>4. HoldsNow(p)' = {lock, lock_close}
    BY ZenonT(60), <2>2 DEF HoldsNow, Holds, LocksAt
  <2>5. FrameOK(p, pc'[p], frame'[p])
    BY <2>2 DEF FrameOK, InSleep, InWake, Plain, NoFrame
  <2>6. {lock_close} \in SUBSET Locks
    BY ZenonT(60), Names
  <2> QED
    BY <1>1, <1>2, <2>1, <2>2, <2>3, <2>4, <2>5, <2>6, Quiet
<1>7. CASE f.lks = <<plock(p)>> /\ f.ret = "rewait" /\ p \notin Killable
  <2>1. /\ pc' = [pc EXCEPT ![p] = "rewait"]
        /\ frame' = [frame EXCEPT ![p] = NoFrame] /\ l = plock(p)
    BY <1>1, <1>3, <1>7
  <2>2. /\ Moves(p) /\ pc'[p] = "rewait" /\ frame'[p] = NoFrame
    BY Zenon, <1>1, <1>2, <2>1 DEF Moves
  <2>3. HoldsNow(p) = {}
    BY <1>4, <1>7 DEF LocksAt, Range
  <2>4. HoldsNow(p)' = {plock(p)}
    BY ZenonT(60), <2>2 DEF HoldsNow, Holds, LocksAt
  <2>5. FrameOK(p, pc'[p], frame'[p])
    BY <1>7, <2>2 DEF FrameOK, InSleep, InWake, Plain, NoFrame
  <2>6. {plock(p)} \in SUBSET Locks
    BY Zenon, Names
  <2> QED
    BY <1>1, <1>2, <2>1, <2>2, <2>3, <2>4, <2>5, <2>6, Quiet
<1> QED
  BY Zenon, <1>3, <1>5, <1>6, <1>7 DEF SleepFrame

-----------------------------------------------------------------------------
\* The locks of a process that wakes others.
LEMMA WakeLocks ==
  ASSUME NEW p \in Procs, NEW f, WakeFrame(p, f)
  PROVE  /\ f.cv \in Cvs /\ f.cv \notin LocksAt(p, f.ret, f)
         /\ f.cv \in Locks /\ LocksAt(p, f.ret, f) \subseteq Locks
         /\ f.ret \in {"exit_init", "exit_zombie", "kill_end", "io_done", "closed"}
         /\ f.ret = "kill_end" => f.who \in Procs
         /\ f.ret \in {"exit_init", "exit_zombie"} => p \in Users
BY ZenonT(60), Names DEF WakeFrame, LocksAt

\* wake_all takes the lock of the condition variable.
LEMMA WakeAllStep ==
  ASSUME LInv, NEW p \in Procs, wake_all(p)
  PROVE  LInv'
<1> DEFINE f == frame[p]
<1>1. /\ pc[p] = "wake" /\ Free(f.cv) /\ Locking(p, {}, {f.cv})
      /\ pc' = [pc EXCEPT ![p] = "wake_loop"] /\ frame' = frame
      /\ UNCHANGED <<waiters, oncv, state, killed>>
  BY Zenon DEF wake_all, Goto
<1>2. FrameOK(p, "wake", f) /\ state[p] = "RUNNING" /\ DOMAIN pc = Procs /\ DOMAIN frame = Procs
  BY Zenon, <1>1, Here
<1>3. WakeFrame(p, f)
  BY Zenon, <1>2 DEF FrameOK, InWake
<1>4. HoldsNow(p) = LocksAt(p, f.ret, f)
  BY Zenon, <1>1 DEF HoldsNow, Holds
<1>5. HoldsNow(p)' = LocksAt(p, f.ret, f) \cup {f.cv}
  BY Zenon, <1>1, <1>2 DEF HoldsNow, Holds
<1>6. FrameOK(p, pc'[p], frame'[p]) /\ Moves(p) /\ pc'[p] = "wake_loop"
  BY Zenon, <1>1, <1>2 DEF FrameOK, Moves, InSleep, InWake, Plain
<1>7. {f.cv} \in SUBSET Locks
  BY Zenon, <1>3, WakeLocks
<1> QED
  BY <1>1, <1>2, <1>4, <1>5, <1>6, <1>7, Quiet

\* wake_all returns when the list is empty.
LEMMA WakeReturn ==
  ASSUME LInv, NEW p \in Procs, wake_return(p)
  PROVE  LInv'
<1> DEFINE f == frame[p]
           g == [f EXCEPT !.cv = None, !.ret = "user"]
<1>1. /\ pc[p] = "wake_loop" /\ Locking(p, {f.cv}, {})
      /\ pc' = [pc EXCEPT ![p] = f.ret]
      /\ frame' = [frame EXCEPT ![p].cv = None, ![p].ret = "user"]
      /\ UNCHANGED <<waiters, oncv, state, killed>>
  BY Zenon DEF wake_return, Goto
<1>2. FrameOK(p, "wake_loop", f) /\ state[p] = "RUNNING" /\ DOMAIN pc = Procs /\ DOMAIN frame = Procs
  BY Zenon, <1>1, Here
<1>3. /\ WakeFrame(p, f) /\ f.exc \in {"user", "exit"} /\ (f.exc = "exit" => p \in Users)
      /\ DOMAIN f = {"cv", "lks", "who", "ret", "exc"}
  BY Zenon, <1>2 DEF FrameOK, InWake, InSleep
<1>4. Moves(p) /\ pc'[p] = f.ret /\ frame'[p] = g
  BY Zenon, <1>1, <1>2 DEF Moves
<1>5. g.who = f.who /\ g.exc = f.exc /\ DOMAIN g = {"cv", "lks", "who", "ret", "exc"}
  BY Zenon, <1>3
<1>6. HoldsNow(p) = LocksAt(p, f.ret, f) \cup {f.cv}
  BY Zenon, <1>1 DEF HoldsNow, Holds
<1> HIDE DEF g
<1>7. HoldsNow(p)' = LocksAt(p, f.ret, f)
  <2>1. HoldsNow(p)' = LocksAt(p, f.ret, g)
    BY Zenon, <1>3, <1>4, WakeLocks DEF HoldsNow, Holds
  <2>2. LocksAt(p, f.ret, g) = LocksAt(p, f.ret, f)
    BY Zenon, <1>5 DEF LocksAt
  <2> QED
    BY Zenon, <2>1, <2>2
<1>8. FrameOK(p, pc'[p], frame'[p]) /\ pc'[p] \notin {"swtch", "forkret", "dead"}
  BY ZenonT(60), <1>3, <1>4, <1>5, WakeLocks DEF FrameOK, InSleep, InWake, Plain
<1>9. /\ {f.cv} \in SUBSET Locks /\ {} \in SUBSET Locks /\ {f.cv} \subseteq HoldsNow(p)
      /\ HoldsNow(p)' = (HoldsNow(p) \ {f.cv}) \cup {}
  BY ZenonT(60), <1>3, <1>6, <1>7, WakeLocks
<1> QED
  BY ZenonT(60), <1>1, <1>2, <1>4, <1>8, <1>9, Quiet

\* wake_all wakes one waiter.
LEMMA WakeOne ==
  ASSUME LInv, NEW p \in Procs, wake_one(p)
  PROVE  LInv'
<1> DEFINE c == frame[p].cv
           s == waiters[c]
<1> SUFFICES ASSUME NEW q, q = Head(s) PROVE LInv'
  BY Zenon
<1>1. /\ pc[p] = "wake_loop" /\ s # <<>> /\ panic' = (panic \/ state[q] # "SLEEPING" \/ oncv[q] # c)
      /\ waiters' = [waiters EXCEPT ![c] = Tail(s)] /\ oncv' = [oncv EXCEPT ![q] = None]
      /\ state' = [state EXCEPT ![q] = "RUNNABLE"]
      /\ UNCHANGED <<holder, killed, pc, frame>>
  BY Zenon DEF wake_one
<1>2. /\ FrameOK(p, "wake_loop", frame[p]) /\ CoreType /\ WaitersInv /\ LockInv /\ panic = FALSE
  BY Zenon, <1>1 DEF LInv
<1>3. c \in Cvs
  BY Zenon, <1>2, WakeLocks DEF FrameOK, InWake
<1>4. s \in Seq(Procs) /\ Distinct(s) /\ Len(s) # 0 /\ \A r \in Procs : InList(r, s) <=> oncv[r] = c
  BY Zenon, <1>1, <1>2, <1>3, NoElement DEF WaitersInv
<1>5. /\ q \in Procs /\ InList(q, s) /\ Tail(s) \in Seq(Procs) /\ Distinct(Tail(s)) /\ ~InList(q, Tail(s))
      /\ \A x : InList(x, Tail(s)) => InList(x, s)
      /\ \A x : InList(x, s) => x = q \/ InList(x, Tail(s))
  BY ZenonT(60), <1>4, TailList
<1>6. oncv[q] = c /\ c # None
  BY Zenon, <1>3, <1>4, <1>5, Names
<1>7. pc[q] = "swtch" /\ state[q] = "SLEEPING" /\ oncv[q] = frame[q].cv
  BY Zenon, <1>5, <1>6 DEF LInv, StateOK
<1>8. /\ waiters'[c] = Tail(s) /\ \A d \in Cvs \ {c} : waiters'[d] = waiters[d]
      /\ oncv'[q] = None /\ \A r \in Procs \ {q} : oncv'[r] = oncv[r] /\ state'[r] = state[r]
      /\ state'[q] = "RUNNABLE"
  BY Zenon, <1>1, <1>2, <1>3, <1>5 DEF CoreType
<1>9. CoreType' /\ panic' = FALSE
  BY Zenon, <1>1, <1>2, <1>6, <1>7 DEF CoreType
<1> HIDE DEF s
<1>10. ASSUME NEW d \in Cvs
       PROVE  /\ waiters'[d] \in Seq(Procs) /\ Distinct(waiters'[d])
              /\ \A r \in Procs : InList(r, waiters'[d]) <=> oncv'[r] = d
  <2>1. CASE d # c
    <3>1. /\ waiters'[d] = waiters[d] /\ waiters[d] \in Seq(Procs) /\ Distinct(waiters[d])
          /\ \A r \in Procs : InList(r, waiters[d]) <=> oncv[r] = d
      BY Zenon, <1>2, <1>8, <2>1 DEF WaitersInv
    <3> QED
      BY ZenonT(60), <1>6, <1>8, <2>1, <3>1, Names
  <2>2. CASE d = c
    BY ZenonT(60), <1>4, <1>5, <1>6, <1>8, <2>2
  <2> QED
    BY Zenon, <2>1, <2>2
<1>11. WaitersInv'
  BY Zenon, <1>10 DEF WaitersInv
<1>12. StateOK(q)'
  BY Zenon, <1>1, <1>7, <1>8 DEF StateOK
<1>13. FrameOK(q, pc'[q], frame'[q]) /\ Moves(q)
  BY ZenonT(60), <1>1, <1>2, <1>5 DEF LInv, CoreType, Moves
<1>14. LockInv'
  BY Zenon, <1>1, <1>2 DEF LockInv, HoldsNow
<1> QED
  BY Zenon, <1>1, <1>5, <1>8, <1>9, <1>11, <1>12, <1>13, <1>14, Assemble

-----------------------------------------------------------------------------
\* A step of p to label b with frame f.
To(p, b, f) == Moves(p) /\ pc'[p] = b /\ frame'[p] = f

\* It gives up the locks rel and takes acq.
Swaps(p, b, f, rel, acq) ==
  /\ Locking(p, rel, acq) /\ rel \in SUBSET Locks /\ acq \in SUBSET Locks
  /\ rel \subseteq HoldsNow(p) /\ \A l \in acq : Free(l)
  /\ Holds(p, b, f) = (HoldsNow(p) \ rel) \cup acq

\* LInv after a step that moves one process and swaps locks.
LEMMA Step ==
  ASSUME LInv, NEW p \in Procs, NEW b, NEW f, To(p, b, f),
         FrameOK(p, b, f), b \notin {"swtch", "forkret", "dead"},
         NEW rel, NEW acq, Swaps(p, b, f, rel, acq),
         state[p] = "RUNNING", UNCHANGED <<waiters, oncv, state, killed>>
  PROVE  LInv'
<1>1. HoldsNow(p)' = Holds(p, b, f)
  BY Zenon DEF HoldsNow, To
<1> QED
  BY Zenon, <1>1, Quiet DEF To, Swaps

\* A jump that leaves the frame alone,
LEMMA GoSame ==
  ASSUME LInv, NEW p \in Procs, NEW b, Goto(p, b), frame' = frame
  PROVE  To(p, b, frame[p])
BY Zenon DEF LInv, CoreType, To, Moves, Goto

\* and one that sets it.
LEMMA GoSet ==
  ASSUME LInv, NEW p \in Procs, NEW b, Goto(p, b), NEW f, frame' = [frame EXCEPT ![p] = f]
  PROVE  To(p, b, f)
BY Zenon DEF LInv, CoreType, To, Moves, Goto

\* A step that touches no lock.
LEMMA StepUnlocked ==
  ASSUME LInv, NEW p \in Procs, NEW b, NEW f, To(p, b, f),
         FrameOK(p, b, f), b \notin {"swtch", "forkret", "dead"},
         UNCHANGED <<holder, panic>>, Holds(p, b, f) = HoldsNow(p),
         state[p] = "RUNNING", UNCHANGED <<waiters, oncv, state, killed>>
  PROVE  LInv'
<1>1. Locking(p, {}, {})
  BY Zenon DEF LInv, CoreType, Locking
<1>2. Swaps(p, b, f, {}, {})
  BY Zenon, <1>1 DEF Swaps
<1> QED
  BY Zenon, <1>2, Step

-----------------------------------------------------------------------------
\* wait takes the lock of its process.
LEMMA WaitLock ==
  ASSUME LInv, NEW p \in Procs, wait_lock(p), p \notin Killable,
         pc[p] = "wait" \/ (pc[p] = "user" /\ state[p] = "RUNNING")
  PROVE  LInv'
<1>1. /\ Free(plock(p)) /\ Locking(p, {}, {plock(p)}) /\ Goto(p, "scan")
      /\ UNCHANGED <<waiters, oncv, state, killed>> /\ frame' = frame
  BY Zenon DEF wait_lock
<1>2. FrameOK(p, pc[p], frame[p]) /\ state[p] = "RUNNING" /\ To(p, "scan", frame[p])
  BY Zenon, <1>1, Here, GoSame
<1>3. HoldsNow(p) = {} /\ Holds(p, "scan", frame[p]) = {plock(p)}
  BY Zenon DEF HoldsNow, Holds, LocksAt
<1>4. FrameOK(p, "scan", frame[p])
  BY Zenon, <1>2 DEF FrameOK, InSleep, InWake, Plain
<1>5. Swaps(p, "scan", frame[p], {}, {plock(p)})
  BY Zenon, <1>1, <1>3, Names DEF Swaps
<1> QED
  BY Zenon, <1>1, <1>2, <1>4, <1>5, Step

\* wait looks at one child, and reaps it if it is dead.
LEMMA WaitScan ==
  ASSUME LInv, KInv, NEW p \in Procs, wait_scan(p)
  PROVE  LInv'
<1> SUFFICES ASSUME NEW q, q = childq[p][kid[p]] PROVE LInv'
  BY Zenon
<1>1. /\ pc[p] = "scan" /\ kid[p] <= Len(childq[p]) /\ UNCHANGED <<waiters, oncv, killed, frame>>
      /\ IF state[q] = "ZOMBIE"
         THEN /\ state' = [state EXCEPT ![q] = "FREED"] /\ Locking(p, {plock(p)}, {})
              /\ pc' = [pc EXCEPT ![p] = "user"]
         ELSE UNCHANGED <<state, holder, panic, pc>>
  BY Zenon DEF wait_scan, Goto
<1>2. FrameOK(p, "scan", frame[p]) /\ state[p] = "RUNNING" /\ DOMAIN pc = Procs /\ DOMAIN frame = Procs
  BY ZenonT(60), <1>1, Here
<1>3. CASE state[q] # "ZOMBIE"
  BY <1>1, <1>2, <1>3 DEF LInv, CoreType, LockInv, HoldsNow, WaitersInv, StateOK
<1>4. CASE state[q] = "ZOMBIE"
  <2>0. q \in Procs /\ q # p
    <3>1. childq[p] \in Seq(Users) /\ kid[p] \in Nat \ {0}
      BY Zenon DEF KInv, FamilyType
    <3>2. q \in Users
      BY <1>1, <3>1
    <3> QED
      BY Zenon, <1>2, <1>4, <3>2 DEF Users
  <2>1. /\ Moves(p) /\ pc'[p] = "user" /\ frame'[p] = frame[p] /\ Locking(p, {plock(p)}, {})
        /\ pc' = [pc EXCEPT ![p] = "user"]
    BY Zenon, <1>1, <1>2, <1>4 DEF Moves
  <2>2. HoldsNow(p) = {plock(p)} /\ HoldsNow(p)' = {} /\ {plock(p)} \in SUBSET Locks
    BY ZenonT(60), <1>1, <2>1, Names DEF HoldsNow, Holds, LocksAt
  <2>a. /\ HoldsNow(p)' = (HoldsNow(p) \ {plock(p)}) \cup {} /\ {plock(p)} \subseteq HoldsNow(p)
        /\ {} \in SUBSET Locks /\ \A l \in {} : Free(l)
    BY Zenon, <2>2
  <2>3. /\ LockInv' /\ holder' \in [Locks -> Procs \cup {None}]
        /\ \A l \in {plock(p)} : holder[l] = p
    BY ZenonT(60), <2>1, <2>2, <2>a, Locked DEF Locking
  <2>b. WaitersInv /\ panic = FALSE
    BY Zenon DEF LInv
  <2>c. WaitersInv'
    BY Zenon, <1>1, <2>b DEF WaitersInv
  <2>4. panic' = FALSE
    BY Zenon, <2>1, <2>3, <2>b DEF Locking
  <2>9. CoreType'
    BY ZenonT(60), <1>1, <1>4, <2>0, <2>1, <2>3 DEF LInv, CoreType
  <2>5. FrameOK(p, pc'[p], frame'[p])
    BY Zenon, <1>2, <2>1 DEF FrameOK, InSleep, InWake, Plain
  <2>6. /\ state'[q] = "FREED" /\ oncv' = oncv /\ killed' = killed
        /\ \A r \in Procs \ {q} : state'[r] = state[r]
    BY ZenonT(60), <1>1, <1>4, <2>0 DEF LInv, CoreType
  <2>7. ASSUME NEW r \in Procs PROVE StateOK(r)'
    <3>1. StateOK(r)
      BY Zenon DEF LInv
    <3>2. CASE r = p
      BY Zenon, <1>1, <1>2, <2>0, <2>1, <2>6, <3>1, <3>2 DEF StateOK
    <3>3. CASE r = q
      BY ZenonT(60), <1>4, <2>0, <2>1, <2>6, <3>1, <3>3 DEF StateOK, Moves
    <3>4. CASE r # p /\ r # q
      BY ZenonT(60), <2>1, <2>6, <3>1, <3>4 DEF StateOK, Moves
    <3> QED
      BY Zenon, <3>2, <3>3, <3>4
  <2>8. \A r \in Procs : killed'[r] => r \in Killable
    BY Zenon, <1>1 DEF LInv
  <2> QED
    BY ZenonT(60), <2>1, <2>3, <2>4, <2>5, <2>7, <2>8, <2>9, <2>c, Gather
<1> QED
  BY Zenon, <1>3, <1>4

\* wait goes to sleep after the scan.
LEMMA WaitSleep ==
  ASSUME LInv, NEW p \in Procs, wait_sleep(p)
  PROVE  LInv'
<1> DEFINE f == [frame[p] EXCEPT !.cv = cv(p), !.lks = <<plock(p)>>, !.ret = "rewait", !.exc = "user"]
<1>1. /\ pc[p] = "scan" /\ UNCHANGED <<waiters, oncv, state, killed>>
      /\ \/ Locking(p, {plock(p)}, {}) /\ Goto(p, "user") /\ frame' = frame
         \/ /\ Sleep(p, cv(p), <<plock(p)>>, "rewait", "user") /\ UNCHANGED <<holder, panic>>
  BY Zenon DEF wait_sleep
<1>2. FrameOK(p, "scan", frame[p]) /\ state[p] = "RUNNING" /\ DOMAIN pc = Procs /\ DOMAIN frame = Procs
  BY Zenon, <1>1, Here
<1>3. HoldsNow(p) = {plock(p)} /\ {plock(p)} \in SUBSET Locks
  BY Zenon, <1>1, Names DEF HoldsNow, Holds, LocksAt
<1>4. CASE Locking(p, {plock(p)}, {}) /\ Goto(p, "user") /\ frame' = frame
  <2>1. To(p, "user", frame[p])
    BY Zenon, <1>4, GoSame
  <2>2. Holds(p, "user", frame[p]) = {}
    BY Zenon DEF Holds, LocksAt
  <2>4. Swaps(p, "user", frame[p], {plock(p)}, {})
    BY ZenonT(60), <1>3, <1>4, <2>2 DEF Swaps
  <2>3. FrameOK(p, "user", frame[p])
    BY Zenon, <1>2 DEF FrameOK, InSleep, InWake, Plain
  <2> QED
    BY ZenonT(60), <1>1, <1>2, <2>1, <2>3, <2>4, Step
<1>5. CASE Sleep(p, cv(p), <<plock(p)>>, "rewait", "user") /\ UNCHANGED <<holder, panic>>
  <2>1. To(p, "sleep", f)
    <3>1. Goto(p, "sleep") /\ frame' = [frame EXCEPT ![p] = f]
      BY Zenon, <1>2, <1>5 DEF Sleep
    <3> QED
      BY Zenon, <3>1, GoSet
  <2>2. /\ DOMAIN f = {"cv", "lks", "who", "ret", "exc"} /\ f.cv = cv(p) /\ f.lks = <<plock(p)>>
        /\ f.ret = "rewait" /\ f.exc = "user" /\ p \notin Killable
    BY Zenon, <1>2 DEF FrameOK
  <2> HIDE DEF f
  <2>3. FrameOK(p, "sleep", f)
    BY Zenon, <2>2 DEF FrameOK, InSleep, InWake, Plain, SleepFrame
  <2>4. Holds(p, "sleep", f) = {plock(p)}
    BY Zenon, <2>2 DEF Holds, LocksAt
  <2> QED
    BY ZenonT(60), <1>1, <1>2, <1>3, <1>5, <2>1, <2>3, <2>4, StepUnlocked
<1> QED
  BY Zenon, <1>1, <1>4, <1>5

\* wait is woken and starts again.
LEMMA WaitAgain ==
  ASSUME LInv, NEW p \in Procs, wait_again(p)
  PROVE  LInv'
<1>1. /\ pc[p] = "rewait" /\ Locking(p, {plock(p)}, {}) /\ Goto(p, "wait")
      /\ UNCHANGED <<waiters, oncv, state, killed>> /\ frame' = frame
  BY Zenon DEF wait_again
<1>2. FrameOK(p, "rewait", frame[p]) /\ state[p] = "RUNNING" /\ To(p, "wait", frame[p])
  BY Zenon, <1>1, Here, GoSame
<1>3. HoldsNow(p) = {plock(p)} /\ Holds(p, "wait", frame[p]) = {}
  BY ZenonT(60), <1>1 DEF HoldsNow, Holds, LocksAt
<1>4. FrameOK(p, "wait", frame[p])
  BY Zenon, <1>2 DEF FrameOK, InSleep, InWake, Plain
<1>5. Swaps(p, "wait", frame[p], {plock(p)}, {})
  BY Zenon, <1>1, <1>3, Names DEF Swaps
<1> QED
  BY Zenon, <1>1, <1>2, <1>4, <1>5, Step

-----------------------------------------------------------------------------
\* A process enters exit.
LEMMA ExitCall ==
  ASSUME LInv, NEW p \in Users, exit_call(p), state[p] = "RUNNING"
  PROVE  LInv'
<1>1. /\ pc[p] = "user" /\ Goto(p, "exit_files") /\ UNCHANGED <<holder, panic>>
      /\ UNCHANGED <<waiters, oncv, state, killed>> /\ frame' = frame /\ p \in Procs
  BY Zenon DEF exit_call, Users
<1>2. FrameOK(p, "user", frame[p]) /\ To(p, "exit_files", frame[p])
  BY Zenon, <1>1, Here, GoSame
<1>3. Holds(p, "exit_files", frame[p]) = HoldsNow(p)
  BY Zenon, <1>1 DEF HoldsNow, Holds, LocksAt
<1>4. FrameOK(p, "exit_files", frame[p])
  BY Zenon, <1>2 DEF FrameOK, InSleep, InWake, Plain
<1> QED
  BY Zenon, <1>1, <1>2, <1>3, <1>4, StepUnlocked

\* exit takes a child from its list.
LEMMA ExitPop ==
  ASSUME LInv, KInv, NEW p \in Procs, exit_pop(p)
  PROVE  LInv'
<1> SUFFICES ASSUME NEW q, q = Head(childq[p]) PROVE LInv'
  BY Zenon
<1> DEFINE f == [frame[p] EXCEPT !.who = q]
<1>1. /\ pc[p] = "exit" /\ childq[p] # <<>> /\ Free(plock(q)) /\ Locking(p, {}, {plock(q)})
      /\ frame' = [frame EXCEPT ![p].who = q] /\ Goto(p, "adopt")
      /\ UNCHANGED <<waiters, oncv, state, killed>>
  BY Zenon DEF exit_pop
<1>2. FrameOK(p, "exit", frame[p]) /\ state[p] = "RUNNING" /\ DOMAIN frame = Procs
  BY Zenon, <1>1, Here
<1>3. q \in Procs
  <2>1. childq[p] \in Seq(Users)
    BY Zenon DEF KInv, FamilyType
  <2>2. Len(childq[p]) # 0
    BY Zenon, <1>1, <2>1, NoElement
  <2> QED
    BY <2>1, <2>2 DEF Users
<1>4. To(p, "adopt", f)
  <2>1. frame' = [frame EXCEPT ![p] = f]
    BY Zenon, <1>1, <1>2
  <2> QED
    BY Zenon, <1>1, <2>1, GoSet
<1>5. /\ DOMAIN f = {"cv", "lks", "who", "ret", "exc"} /\ f.who = q /\ f.exc = frame[p].exc
      /\ f.exc \in {"user", "exit"} /\ p \in Users
  BY Zenon, <1>2 DEF FrameOK, InSleep
<1> HIDE DEF f
<1>6. FrameOK(p, "adopt", f)
  BY Zenon, <1>3, <1>5 DEF FrameOK, InSleep, InWake, Plain
<1>7. HoldsNow(p) = {} /\ Holds(p, "adopt", f) = {plock(q)}
  BY Zenon, <1>1, <1>5 DEF HoldsNow, Holds, LocksAt
<1>8. Swaps(p, "adopt", f, {}, {plock(q)})
  BY ZenonT(60), <1>1, <1>3, <1>7, Names DEF Swaps
<1> QED
  BY Zenon, <1>1, <1>2, <1>4, <1>6, <1>8, Step

\* A step that ends a call leaves no frame.
LEMMA FrameEnds ==
  ASSUME LInv, NEW p \in Procs, NEW b \in Plain, FrameOK(p, pc[p], frame[p]),
         b \in {"user", "exit"}, b = "exit" => p \in Users
  PROVE  FrameOK(p, b, NoFrame) /\ Holds(p, b, NoFrame) = {}
BY Zenon DEF FrameOK, NoFrame, InSleep, InWake, Holds, LocksAt

\* exit hands the child to init.
LEMMA ExitAdopt ==
  ASSUME LInv, NEW p \in Procs, exit_adopt(p)
  PROVE  LInv'
<1> DEFINE q == frame[p].who
<1>1. /\ pc[p] = "adopt" /\ Locking(p, {plock(q)}, {})
      /\ frame' = [frame EXCEPT ![p] = NoFrame] /\ Goto(p, "exit")
      /\ UNCHANGED <<waiters, oncv, state, killed>>
  BY Zenon DEF exit_adopt
<1>2. FrameOK(p, "adopt", frame[p]) /\ state[p] = "RUNNING" /\ To(p, "exit", NoFrame)
  BY Zenon, <1>1, Here, GoSet
<1>3. q \in Procs /\ p \in Users
  BY Zenon, <1>2 DEF FrameOK
<1>4. FrameOK(p, "exit", NoFrame) /\ Holds(p, "exit", NoFrame) = {}
  BY Zenon, <1>1, <1>2, <1>3, FrameEnds DEF Plain
<1>5. HoldsNow(p) = {plock(q)}
  BY Zenon, <1>1 DEF HoldsNow, Holds, LocksAt
<1>6. Swaps(p, "exit", NoFrame, {plock(q)}, {})
  BY ZenonT(60), <1>1, <1>3, <1>4, <1>5, Names DEF Swaps
<1> QED
  BY Zenon, <1>1, <1>2, <1>4, <1>6, Step

\* exit reads its parent.
LEMMA ExitReadParent ==
  ASSUME LInv, KInv, NEW p \in Procs, exit_read_parent(p)
  PROVE  LInv'
<1> DEFINE f == [frame[p] EXCEPT !.who = parent[p]]
<1>1. /\ pc[p] = "exit" /\ frame' = [frame EXCEPT ![p].who = parent[p]] /\ Goto(p, "exit_parent")
      /\ UNCHANGED <<waiters, oncv, state, killed>> /\ UNCHANGED <<holder, panic>>
  BY Zenon DEF exit_read_parent
<1>2. FrameOK(p, "exit", frame[p]) /\ state[p] = "RUNNING" /\ DOMAIN frame = Procs
  BY Zenon, <1>1, Here
<1>3. p \in Users /\ parent[p] \in Procs
  BY Zenon, <1>2 DEF FrameOK, KInv, Parents, Alive
<1>4. To(p, "exit_parent", f)
  <2>1. frame' = [frame EXCEPT ![p] = f]
    BY Zenon, <1>1, <1>2
  <2> QED
    BY Zenon, <1>1, <2>1, GoSet
<1>5. /\ DOMAIN f = {"cv", "lks", "who", "ret", "exc"} /\ f.who = parent[p]
      /\ f.exc \in {"user", "exit"}
  BY Zenon, <1>2 DEF FrameOK, InSleep
<1> HIDE DEF f
<1>6. FrameOK(p, "exit_parent", f)
  BY Zenon, <1>3, <1>5 DEF FrameOK, InSleep, InWake, Plain
<1>7. HoldsNow(p) = {} /\ Holds(p, "exit_parent", f) = {}
  BY Zenon, <1>1 DEF HoldsNow, Holds, LocksAt
<1> QED
  BY Zenon, <1>1, <1>2, <1>4, <1>6, <1>7, StepUnlocked

\* exit locks the parent it has read.
LEMMA ExitLockParent ==
  ASSUME LInv, NEW p \in Procs, exit_lock_parent(p)
  PROVE  LInv'
<1> DEFINE q == frame[p].who
<1>1. /\ pc[p] = "exit_parent" /\ Free(plock(q)) /\ Locking(p, {}, {plock(q)})
      /\ Goto(p, "exit_self") /\ frame' = frame
      /\ UNCHANGED <<waiters, oncv, state, killed>>
  BY Zenon DEF exit_lock_parent
<1>2. FrameOK(p, "exit_parent", frame[p]) /\ state[p] = "RUNNING" /\ To(p, "exit_self", frame[p])
  BY Zenon, <1>1, Here, GoSame
<1>3. q \in Procs /\ FrameOK(p, "exit_self", frame[p])
  BY Zenon, <1>2 DEF FrameOK, InSleep, InWake, Plain
<1>4. HoldsNow(p) = {} /\ Holds(p, "exit_self", frame[p]) = {plock(q)}
  BY Zenon, <1>1 DEF HoldsNow, Holds, LocksAt
<1>5. Swaps(p, "exit_self", frame[p], {}, {plock(q)})
  BY Zenon, <1>1, <1>3, <1>4, Names DEF Swaps
<1> QED
  BY Zenon, <1>1, <1>2, <1>3, <1>5, Step

\* The frame of a call of wake_all
LEMMA WakeCall ==
  ASSUME LInv, NEW p \in Procs, NEW c, NEW who, NEW ret, WakeAll(p, c, who, ret)
  PROVE  \E f : /\ To(p, "wake", f) /\ DOMAIN f = {"cv", "lks", "who", "ret", "exc"}
                /\ f.exc = frame[p].exc /\ f.cv = c /\ f.who = who /\ f.ret = ret
<1> DEFINE f == [frame[p] EXCEPT !.cv = c, !.who = who, !.ret = ret]
<1>0. DOMAIN frame[p] = {"cv", "lks", "who", "ret", "exc"}
  BY Zenon DEF LInv, FrameOK
<1>1. Goto(p, "wake") /\ frame' = [frame EXCEPT ![p] = f]
  BY Zenon DEF WakeAll, LInv, CoreType
<1>2. To(p, "wake", f)
  BY Zenon, <1>1, GoSet
<1>3. /\ DOMAIN f = {"cv", "lks", "who", "ret", "exc"}
      /\ f.exc = frame[p].exc /\ f.cv = c /\ f.who = who /\ f.ret = ret
  BY Zenon, <1>0
<1> HIDE DEF f
<1> QED
  BY Zenon, <1>2, <1>3

\* exit takes its own lock, releases that of the parent and begins to wake it.
LEMMA ExitLockSelf ==
  ASSUME LInv, KInv, NEW p \in Procs, exit_lock_self(p)
  PROVE  LInv'
<1> DEFINE q == frame[p].who
           ret == IF wakeupinit[p] THEN "exit_init" ELSE "exit_zombie"
<1>0. q = parent[p]
  BY Zenon DEF KInv, Exits, exit_lock_self
<1>1. /\ pc[p] = "exit_self" /\ Free(plock(p)) /\ Locking(p, {plock(q)}, {plock(p)})
      /\ WakeAll(p, cv(q), None, ret) /\ UNCHANGED <<waiters, oncv, state, killed>>
  BY Zenon, <1>0 DEF exit_lock_self
<1>2. FrameOK(p, "exit_self", frame[p]) /\ state[p] = "RUNNING"
  BY Zenon, <1>1, Here
<1>3. /\ q \in Procs /\ p \in Users /\ ret \in {"exit_init", "exit_zombie"}
      /\ frame[p].exc \in {"user", "exit"} /\ DOMAIN frame[p] = {"cv", "lks", "who", "ret", "exc"}
  BY Zenon, <1>2 DEF FrameOK, InSleep
<1> HIDE DEF ret
<1>4. PICK f : /\ To(p, "wake", f) /\ DOMAIN f = {"cv", "lks", "who", "ret", "exc"}
               /\ f.exc = frame[p].exc /\ f.cv = cv(q) /\ f.who = None /\ f.ret = ret
  BY <1>1, WakeCall
<1>5. FrameOK(p, "wake", f)
  BY <1>3, <1>4, Names DEF FrameOK, InSleep, InWake, Plain, WakeFrame
<1>6. HoldsNow(p) = {plock(q)} /\ Holds(p, "wake", f) = {plock(p)}
  BY ZenonT(60), <1>1, <1>3, <1>4 DEF HoldsNow, Holds, LocksAt
<1>7. p # q
  BY ZenonT(60), <1>0, <1>2, <1>3 DEF KInv, Parents, Alive
<1>8. Swaps(p, "wake", f, {plock(q)}, {plock(p)})
  BY <1>1, <1>3, <1>6, <1>7, Names DEF Swaps
<1> QED
  BY Zenon, <1>1, <1>2, <1>4, <1>5, <1>8, Step

\* exit wakes init if it has handed dead children over.
LEMMA ExitWakeInit ==
  ASSUME LInv, NEW p \in Procs, exit_wake_init(p)
  PROVE  LInv'
<1>1. /\ pc[p] = "exit_init" /\ WakeAll(p, cv(bootproc), None, "exit_zombie")
      /\ UNCHANGED <<holder, panic>> /\ UNCHANGED <<waiters, oncv, state, killed>>
  BY Zenon DEF exit_wake_init
<1>2. FrameOK(p, "exit_init", frame[p]) /\ state[p] = "RUNNING" /\ bootproc \in Procs
  BY Zenon, <1>1, Here, ShellAssumption
<1>3. /\ p \in Users /\ frame[p].exc \in {"user", "exit"}
      /\ DOMAIN frame[p] = {"cv", "lks", "who", "ret", "exc"}
  BY Zenon, <1>2 DEF FrameOK, InSleep
<1>4. PICK f : /\ To(p, "wake", f) /\ DOMAIN f = {"cv", "lks", "who", "ret", "exc"}
               /\ f.exc = frame[p].exc /\ f.cv = cv(bootproc) /\ f.ret = "exit_zombie"
  BY <1>1, <1>3, WakeCall
<1>5. FrameOK(p, "wake", f)
  BY <1>2, <1>3, <1>4, Names DEF FrameOK, InSleep, InWake, Plain, WakeFrame
<1>6. HoldsNow(p) = {plock(p)} /\ Holds(p, "wake", f) = {plock(p)}
  BY Zenon, <1>1, <1>4 DEF HoldsNow, Holds, LocksAt
<1> QED
  BY Zenon, <1>1, <1>2, <1>4, <1>5, <1>6, StepUnlocked

\* exit becomes a zombie and releases its lock.
LEMMA ExitZombie ==
  ASSUME LInv, NEW p \in Procs, exit_zombie(p)
  PROVE  LInv'
<1>1. /\ pc[p] = "exit_zombie" /\ holder' = [holder EXCEPT ![plock(p)] = None]
      /\ panic' = (panic \/ state[p] # "RUNNING" \/ holder[plock(p)] # p)
      /\ state' = [state EXCEPT ![p] = "ZOMBIE"] /\ Goto(p, "dead")
      /\ UNCHANGED <<waiters, oncv, killed>> /\ frame' = frame
  BY Zenon DEF exit_zombie
<1>2. /\ FrameOK(p, "exit_zombie", frame[p]) /\ state[p] = "RUNNING" /\ oncv[p] = None
      /\ To(p, "dead", frame[p])
  BY Zenon, <1>1, Here, GoSame
<1>3. CoreType /\ WaitersInv /\ panic = FALSE
  BY Zenon DEF LInv
<1>4. HoldsNow(p) = {plock(p)} /\ HoldsNow(p)' = {} /\ plock(p) \in Locks
  BY ZenonT(60), <1>1, <1>2, Names DEF To, HoldsNow, Holds, LocksAt
<1>5. /\ LockInv' /\ holder' \in [Locks -> Procs \cup {None}]
      /\ \A l \in {plock(p)} : holder[l] = p
  <2> DEFINE rel == {plock(p)}
             acq == {}
  <2>1. holder' = [l \in Locks |-> IF l \in acq THEN p ELSE IF l \in rel THEN None ELSE holder[l]]
    BY Zenon, <1>1, <1>3, <1>4 DEF CoreType
  <2>2. HoldsNow(p)' = (HoldsNow(p) \ rel) \cup acq /\ rel \subseteq HoldsNow(p)
    BY Zenon, <1>4
  <2>3. rel \in SUBSET Locks /\ acq \in SUBSET Locks /\ \A l \in acq : Free(l)
    BY Zenon, <1>4
  <2>4. Moves(p)
    BY Zenon, <1>2 DEF To
  <2>5. rel = {plock(p)}
    BY Zenon
  <2> HIDE DEF rel, acq
  <2>6. /\ LockInv' /\ holder' \in [Locks -> Procs \cup {None}]
        /\ \A l \in rel : holder[l] = p
    BY Zenon, <2>1, <2>2, <2>3, <2>4, Locked
  <2> QED
    BY Zenon, <2>5, <2>6
<1>6. CoreType' /\ panic' = FALSE
  BY Zenon, <1>1, <1>2, <1>3, <1>5 DEF CoreType, To, Moves
<1>7. WaitersInv'
  BY Zenon, <1>1, <1>3 DEF WaitersInv
<1>8. StateOK(p)'
  BY Zenon, <1>1, <1>2, <1>3 DEF StateOK, CoreType, To
<1>9. FrameOK(p, pc'[p], frame'[p])
  BY Zenon, <1>2 DEF FrameOK, InSleep, InWake, Plain, To
<1>10. \A r \in Procs \ {p} : state'[r] = state[r] /\ oncv'[r] = oncv[r]
  BY Zenon, <1>1, <1>3 DEF CoreType
<1> QED
  BY ZenonT(60), <1>1, <1>2, <1>5, <1>6, <1>7, <1>8, <1>9, <1>10, Assemble DEF To

-----------------------------------------------------------------------------
\* kill marks its victim and begins to wake it.
LEMMA KillStep ==
  ASSUME LInv, NEW p \in Procs, NEW q \in Killable, kill(p, q), state[p] = "RUNNING"
  PROVE  LInv'
<1>1. /\ pc[p] = "user" /\ Free(plock(q)) /\ killed' = [killed EXCEPT ![q] = TRUE]
      /\ UNCHANGED <<waiters, oncv, state>>
      /\ IF state[q] = "SLEEPING"
         THEN Locking(p, {}, {plock(q)}) /\ WakeAll(p, oncv[q], q, "kill_end")
         ELSE UNCHANGED <<holder, panic, frame, pc>>
  BY Zenon DEF kill
<1>2. /\ FrameOK(p, "user", frame[p]) /\ q \in Procs /\ CoreType /\ StateOK(q)
  BY Zenon, <1>1, Here, ShellAssumption DEF LInv, Users
<1>3. killed' \in [Procs -> BOOLEAN] /\ \A r \in Procs : killed'[r] => r \in Killable
  BY Zenon, <1>1, <1>2 DEF LInv, CoreType
<1>4. HoldsNow(p) = {}
  BY ZenonT(60), <1>1 DEF HoldsNow, Holds, LocksAt
<1>5. CASE state[q] = "SLEEPING"
  <2>1. oncv[q] \in Cvs
    <3>1. oncv[q] = frame[q].cv /\ pc[q] = "swtch"
      BY Zenon, <1>2, <1>5 DEF StateOK
    <3>2. FrameOK(q, "swtch", frame[q])
      BY Zenon, <1>2, <3>1, Here
    <3> QED
      BY ZenonT(60), <1>2, <3>1, <3>2, Names DEF FrameOK, InSleep, SleepFrame
  <2>2. /\ frame[p].exc \in {"user", "exit"} /\ (frame[p].exc = "exit" => p \in Users)
        /\ DOMAIN frame[p] = {"cv", "lks", "who", "ret", "exc"}
    BY Zenon, <1>2 DEF FrameOK, InSleep
  <2>3. PICK f : /\ To(p, "wake", f) /\ DOMAIN f = {"cv", "lks", "who", "ret", "exc"}
                 /\ f.exc = frame[p].exc /\ f.cv = oncv[q] /\ f.who = q /\ f.ret = "kill_end"
    <3>1. WakeAll(p, oncv[q], q, "kill_end")
      BY Zenon, <1>1, <1>5
    <3> QED
      BY <3>1, WakeCall
  <2>4. FrameOK(p, "wake", f)
    BY Zenon, <1>2, <2>1, <2>2, <2>3 DEF FrameOK, InSleep, InWake, Plain, WakeFrame
  <2>5. Holds(p, "wake", f) = {plock(q)}
    BY Zenon, <2>3 DEF Holds, LocksAt
  <2>6. HoldsNow(p)' = {plock(q)} /\ Moves(p) /\ pc'[p] = "wake" /\ frame'[p] = f
    BY Zenon, <2>3, <2>5 DEF HoldsNow, To
  <2>7. /\ Locking(p, {}, {plock(q)}) /\ {} \in SUBSET Locks /\ {plock(q)} \in SUBSET Locks
        /\ {} \subseteq HoldsNow(p) /\ (\A l \in {plock(q)} : Free(l))
        /\ HoldsNow(p)' = (HoldsNow(p) \ {}) \cup {plock(q)}
    BY Zenon, <1>1, <1>2, <1>4, <1>5, <2>6, Names
  <2> QED
    BY <1>1, <1>3, <2>4, <2>6, <2>7, QuietKill
<1>6. CASE state[q] # "SLEEPING"
  <2>1. UNCHANGED <<holder, panic, frame, pc>>
    BY Zenon, <1>1, <1>6
  <2>2. LockInv /\ WaitersInv /\ panic = FALSE /\ \A r \in Procs : FrameOK(r, pc[r], frame[r]) /\ StateOK(r)
    BY Zenon DEF LInv
  <2>3. LockInv' /\ WaitersInv' /\ panic' = FALSE
    BY Zenon, <1>1, <2>1, <2>2 DEF LockInv, HoldsNow, WaitersInv
  <2>4. CoreType'
    BY ZenonT(60), <1>1, <1>2, <1>3, <2>1 DEF CoreType
  <2>5. \A r \in Procs : FrameOK(r, pc'[r], frame'[r]) /\ StateOK(r)'
    BY <1>1, <2>1, <2>2 DEF StateOK
  <2> QED
    BY Zenon, <1>3, <2>3, <2>4, <2>5 DEF LInv
<1> QED
  BY Zenon, <1>5, <1>6

\* kill releases the lock of the process it has killed.
LEMMA KillEnd ==
  ASSUME LInv, NEW p \in Procs, kill_end(p)
  PROVE  LInv'
<1> DEFINE q == frame[p].who
<1>1. /\ pc[p] = "kill_end" /\ Locking(p, {plock(q)}, {})
      /\ frame' = [frame EXCEPT ![p] = NoFrame] /\ Goto(p, "user")
      /\ UNCHANGED <<waiters, oncv, state, killed>>
  BY Zenon DEF kill_end
<1>2. FrameOK(p, "kill_end", frame[p]) /\ state[p] = "RUNNING" /\ To(p, "user", NoFrame)
  BY Zenon, <1>1, Here, GoSet
<1>3. q \in Procs
  BY Zenon, <1>2 DEF FrameOK
<1>4. FrameOK(p, "user", NoFrame) /\ Holds(p, "user", NoFrame) = {}
  BY Zenon, <1>1, <1>2, FrameEnds DEF Plain
<1>5. HoldsNow(p) = {plock(q)}
  BY Zenon, <1>1 DEF HoldsNow, Holds, LocksAt
<1>6. Swaps(p, "user", NoFrame, {plock(q)}, {})
  BY Zenon, <1>1, <1>3, <1>4, <1>5, Names DEF Swaps
<1> QED
  BY Zenon, <1>1, <1>2, <1>4, <1>6, Step

-----------------------------------------------------------------------------
\* doclone makes a new process runnable.
LEMMA Clone ==
  ASSUME LInv, NEW p \in Procs, NEW q \in Users, doclone(p, q)
  PROVE  LInv'
<1>1. /\ state[q] = "UNUSED" /\ state' = [state EXCEPT ![q] = "RUNNABLE"] /\ Goto(q, "forkret")
      /\ UNCHANGED <<holder, panic>> /\ UNCHANGED <<waiters, oncv, killed>> /\ frame' = frame
      /\ q \in Procs
  BY Zenon DEF doclone, Users
<1>2. /\ FrameOK(q, pc[q], frame[q]) /\ To(q, "forkret", frame[q]) /\ StateOK(q)
      /\ CoreType /\ WaitersInv /\ panic = FALSE
  BY Zenon, <1>1, Here, GoSame DEF LInv
<1>3. pc[q] = "user" /\ oncv[q] = None
  BY Zenon, <1>1, <1>2 DEF StateOK
<1>4. HoldsNow(q) = {} /\ HoldsNow(q)' = {}
  BY Zenon, <1>2, <1>3 DEF To, HoldsNow, Holds, LocksAt
<1>5. LockInv'
  <2>1. holder' = [l \in Locks |-> IF l \in {} THEN q ELSE IF l \in {} THEN None ELSE holder[l]]
    BY Zenon, <1>1, <1>2 DEF CoreType
  <2>2. Moves(q)
    BY Zenon, <1>2 DEF To
  <2> QED
    BY Zenon, <1>1, <1>4, <2>1, <2>2, Locked
<1>6. CoreType' /\ panic' = FALSE
  BY Zenon, <1>1, <1>2 DEF CoreType, To, Moves
<1>7. WaitersInv'
  BY Zenon, <1>1, <1>2 DEF WaitersInv
<1>8. StateOK(q)'
  BY Zenon, <1>1, <1>2, <1>3 DEF StateOK, CoreType, To
<1>9. FrameOK(q, pc'[q], frame'[q])
  BY Zenon, <1>2, <1>3 DEF FrameOK, InSleep, InWake, Plain, To
<1>10. \A r \in Procs \ {q} : state'[r] = state[r] /\ oncv'[r] = oncv[r]
  BY Zenon, <1>1, <1>2 DEF CoreType
<1> QED
  BY ZenonT(60), <1>1, <1>2, <1>5, <1>6, <1>7, <1>8, <1>9, <1>10, Assemble DEF To

-----------------------------------------------------------------------------
\* The labels of the pipe between which no call is made.
IOPlain == {"user", "write_lock", "write_loop", "write_full", "write_woken", "read_loop",
            "read_empty", "read_woken", "io_done", "io_killed", "close_r", "close_w", "closed"}

\* The locks of the labels of read and write.
LEMMA IOLocks ==
  ASSUME NEW p, NEW f
  PROVE  /\ \A b \in {"user", "write_lock", "close_r", "close_w"} : LocksAt(p, b, f) = {}
         /\ \A b \in {"read_loop", "write_loop", "io_done"} : LocksAt(p, b, f) = {lock}
         /\ \A b \in {"read_empty", "write_full", "read_woken", "write_woken", "io_killed"} :
              LocksAt(p, b, f) = {lock, lock_close}
         /\ LocksAt(p, "closed", f) = {lock_close}
BY Zenon DEF LocksAt

\* A step between two labels of the pipe that swaps the locks in which they differ.
LEMMA IOStep ==
  ASSUME LInv, NEW p \in Procs, pc[p] \in IOPlain, NEW b \in IOPlain, state[p] = "RUNNING",
         To(p, b, frame[p]), NEW rel, NEW acq, Locking(p, rel, acq),
         acq \subseteq {lock, lock_close}, \A l \in acq : Free(l),
         rel \subseteq LocksAt(p, pc[p], frame[p]),
         LocksAt(p, b, frame[p]) = (LocksAt(p, pc[p], frame[p]) \ rel) \cup acq,
         UNCHANGED <<waiters, oncv, state, killed>>
  PROVE  LInv'
<1>1. FrameOK(p, pc[p], frame[p])
  BY Zenon, Here
<1>2. FrameOK(p, b, frame[p])
  BY ZenonT(60), <1>1 DEF FrameOK, IOPlain, InSleep, InWake, Plain
<1>3. /\ Holds(p, b, frame[p]) = LocksAt(p, b, frame[p])
      /\ HoldsNow(p) = LocksAt(p, pc[p], frame[p])
  BY Zenon DEF HoldsNow, Holds, IOPlain
<1>4. LocksAt(p, pc[p], frame[p]) \subseteq Locks
  BY IOLocks, Names DEF IOPlain
<1>5. Swaps(p, b, frame[p], rel, acq)
  BY <1>3, <1>4, Names DEF Swaps
<1>6. b \notin {"swtch", "forkret", "dead"}
  BY Zenon DEF IOPlain
<1> QED
  BY Zenon, <1>2, <1>5, <1>6, Step

\* A step of read or write under the lock of the pipe.
LEMMA IOGo ==
  ASSUME LInv, NEW p \in Procs, pc[p] \in IOPlain, NEW b \in IOPlain, state[p] = "RUNNING",
         Goto(p, b), frame' = frame, NEW rel, NEW acq, Locking(p, rel, acq),
         acq \subseteq {lock, lock_close}, \A l \in acq : Free(l),
         rel \subseteq LocksAt(p, pc[p], frame[p]),
         LocksAt(p, b, frame[p]) = (LocksAt(p, pc[p], frame[p]) \ rel) \cup acq,
         UNCHANGED <<waiters, oncv, state, killed>>
  PROVE  LInv'
<1>1. To(p, b, frame[p])
  BY Zenon, GoSame
<1> QED
  BY Zenon, <1>1, IOStep

\* A step of read or write that holds no lock.
LEMMA IOGoUnlocked ==
  ASSUME LInv, NEW p \in Procs, pc[p] \in IOPlain, NEW b \in IOPlain, state[p] = "RUNNING",
         Goto(p, b), frame' = frame, UNCHANGED <<holder, panic>>,
         LocksAt(p, b, frame[p]) = LocksAt(p, pc[p], frame[p]),
         UNCHANGED <<waiters, oncv, state, killed>>
  PROVE  LInv'
<1>1. Locking(p, {}, {})
  BY Zenon DEF LInv, CoreType, Locking
<1> QED
  BY <1>1, IOGo

\* write and read return.
LEMMA IOReturn ==
  ASSUME LInv, NEW p \in Procs, pc[p] \in IOPlain, state[p] = "RUNNING",
         Return(p, LocksAt(p, pc[p], frame[p])), frame' = frame,
         UNCHANGED <<waiters, oncv, state, killed>>
  PROVE  LInv'
<1> DEFINE rel == LocksAt(p, pc[p], frame[p])
<1>1. Goto(p, "user") /\ Locking(p, rel, {}) /\ "user" \in IOPlain
  BY Zenon DEF Return, IOPlain
<1>2. LocksAt(p, "user", frame[p]) = (rel \ rel) \cup {}
  BY Zenon, IOLocks
<1> HIDE DEF rel
<1>3. rel = LocksAt(p, pc[p], frame[p])
  BY Zenon DEF rel
<1> QED
  BY <1>1, <1>2, <1>3, IOGo

\* They call sleep.
LEMMA IOSleep ==
  ASSUME LInv, NEW p \in Procs, pc[p] \in {"write_full", "read_empty"},
         NEW c, NEW ret, Sleep(p, c, <<lock, lock_close>>, ret, "io_killed"),
         ret \in {"read_woken", "write_woken"}, c = IF ret = "read_woken" THEN empty ELSE full,
         UNCHANGED <<holder, panic>>, UNCHANGED <<waiters, oncv, state, killed>>
  PROVE  LInv'
<1> DEFINE f == [frame[p] EXCEPT !.cv = c, !.lks = <<lock, lock_close>>, !.ret = ret, !.exc = "io_killed"]
<1>1. FrameOK(p, pc[p], frame[p]) /\ state[p] = "RUNNING" /\ DOMAIN frame = Procs
  BY Zenon, Here
<1>2. To(p, "sleep", f)
  <2>1. Goto(p, "sleep") /\ frame' = [frame EXCEPT ![p] = f]
    BY Zenon, <1>1 DEF Sleep
  <2> QED
    BY Zenon, <2>1, GoSet
<1>3. /\ DOMAIN f = {"cv", "lks", "who", "ret", "exc"} /\ f.cv = c /\ f.lks = <<lock, lock_close>>
      /\ f.ret = ret /\ f.exc = "io_killed"
  BY Zenon, <1>1 DEF FrameOK
<1> HIDE DEF f
<1>4. FrameOK(p, "sleep", f)
  BY Zenon, <1>3 DEF FrameOK, InSleep, InWake, Plain, SleepFrame
<1>5. HoldsNow(p) = {lock, lock_close} /\ Holds(p, "sleep", f) = {lock, lock_close}
  BY Zenon, <1>3 DEF HoldsNow, Holds, LocksAt
<1> QED
  BY Zenon, <1>1, <1>2, <1>4, <1>5, StepUnlocked

\* They call wake_all.
LEMMA IOWake ==
  ASSUME LInv, NEW p \in Procs, pc[p] \in {"write_loop", "read_loop"},
         NEW c \in {empty, full}, WakeAll(p, c, None, "io_done"),
         UNCHANGED <<holder, panic>>, UNCHANGED <<waiters, oncv, state, killed>>
  PROVE  LInv'
<1>1. FrameOK(p, pc[p], frame[p]) /\ state[p] = "RUNNING"
  BY Zenon, Here
<1>2. frame[p].exc \in {"user", "exit"} /\ (frame[p].exc = "exit" => p \in Users)
  BY Zenon, <1>1 DEF FrameOK, InSleep
<1>3. PICK f : /\ To(p, "wake", f) /\ DOMAIN f = {"cv", "lks", "who", "ret", "exc"}
               /\ f.exc = frame[p].exc /\ f.cv = c /\ f.who = None /\ f.ret = "io_done"
  BY WakeCall
<1>4. FrameOK(p, "wake", f)
  BY Zenon, <1>2, <1>3 DEF FrameOK, InSleep, InWake, Plain, WakeFrame
<1>5. HoldsNow(p) = {lock} /\ Holds(p, "wake", f) = {lock}
  BY Zenon, <1>3 DEF HoldsNow, Holds, LocksAt
<1> QED
  BY Zenon, <1>1, <1>3, <1>4, <1>5, StepUnlocked

\* The steps of write.
LEMMA WriteStep ==
  ASSUME LInv, NEW p \in Procs, write_lock(p) \/ write_loop(p) \/ write_full(p)
  PROVE  LInv'
<1> USE DEF IOPlain
<1>0. UNCHANGED <<waiters, oncv, state, killed>> /\ (pc[p] \in IOPlain \ {"user"} => state[p] = "RUNNING")
  BY Zenon, Here DEF write_lock, write_loop, write_full
<1>1. CASE write_lock(p)
  <2>1. /\ pc[p] = "write_lock" /\ Free(lock) /\ Locking(p, {}, {lock}) /\ Goto(p, "write_loop")
        /\ frame' = frame
    BY Zenon, <1>1 DEF write_lock
  <2>2. LocksAt(p, "write_loop", frame[p]) = (LocksAt(p, pc[p], frame[p]) \ {}) \cup {lock}
    BY ZenonT(60), <2>1, IOLocks
  <2> QED
    BY <1>0, <2>1, <2>2, IOGo
<1>2. CASE write_full(p)
  <2>1. pc[p] = "write_full" /\ LocksAt(p, pc[p], frame[p]) = {lock, lock_close}
    <3>1. pc[p] = "write_full"
      BY Zenon, <1>2 DEF write_full
    <3> QED
      BY <3>1, IOLocks
  <2>2. CASE readopen
    <3>1. Sleep(p, full, <<lock, lock_close>>, "write_woken", "io_killed") /\ UNCHANGED <<holder, panic>>
      BY Zenon, <1>2, <2>2 DEF write_full
    <3> QED
      BY Zenon, <1>0, <2>1, <3>1, IOSleep
  <2>3. CASE ~readopen
    <3>1. Return(p, {lock, lock_close}) /\ frame' = frame
      BY Zenon, <1>2, <2>3 DEF write_full
    <3> QED
      BY Zenon, <1>0, <2>1, <3>1, IOReturn
  <2> QED
    BY Zenon, <2>2, <2>3
<1>3. CASE write_loop(p)
  <2>1. pc[p] = "write_loop" /\ LocksAt(p, pc[p], frame[p]) = {lock}
    <3>1. pc[p] = "write_loop"
      BY Zenon, <1>3 DEF write_loop
    <3> QED
      BY <3>1, IOLocks
  <2>2. CASE UNCHANGED <<holder, panic, pc, frame>>
    <3>1. To(p, "write_loop", frame[p]) /\ Locking(p, {}, {})
      BY ZenonT(60), <2>1, <2>2 DEF LInv, CoreType, To, Moves, Locking
    <3>2. LocksAt(p, "write_loop", frame[p]) = (LocksAt(p, pc[p], frame[p]) \ {}) \cup {}
      BY Zenon, <2>1
    <3> QED
      BY <1>0, <2>1, <3>1, <3>2, IOStep
  <2>3. CASE Return(p, {lock}) /\ frame' = frame
    BY ZenonT(60), <1>0, <2>1, <2>3, IOReturn
  <2>4. CASE Free(lock_close) /\ Locking(p, {}, {lock_close}) /\ Goto(p, "write_full") /\ frame' = frame
    <3>1. LocksAt(p, "write_full", frame[p]) = (LocksAt(p, pc[p], frame[p]) \ {}) \cup {lock_close}
      BY ZenonT(60), <2>1, IOLocks
    <3> QED
      BY <1>0, <2>1, <2>4, <3>1, IOGo
  <2>5. CASE WakeAll(p, empty, None, "io_done") /\ UNCHANGED <<holder, panic>>
    BY Zenon, <1>0, <2>1, <2>5, IOWake
  <2> QED
    BY ZenonT(60), <1>3, <2>2, <2>3, <2>4, <2>5 DEF write_loop
<1> QED
  BY Zenon, <1>1, <1>2, <1>3

\* The steps of read.
LEMMA ReadStep ==
  ASSUME LInv, NEW p \in Procs, read_loop(p) \/ read_empty(p)
  PROVE  LInv'
<1> USE DEF IOPlain
<1>0. UNCHANGED <<waiters, oncv, state, killed>> /\ (pc[p] \in IOPlain \ {"user"} => state[p] = "RUNNING")
  BY Zenon, Here DEF read_loop, read_empty
<1>2. CASE read_empty(p)
  <2>1. pc[p] = "read_empty" /\ LocksAt(p, pc[p], frame[p]) = {lock, lock_close}
    <3>1. pc[p] = "read_empty"
      BY Zenon, <1>2 DEF read_empty
    <3> QED
      BY <3>1, IOLocks
  <2>2. CASE writeopen
    <3>1. Sleep(p, empty, <<lock, lock_close>>, "read_woken", "io_killed") /\ UNCHANGED <<holder, panic>>
      BY Zenon, <1>2, <2>2 DEF read_empty
    <3> QED
      BY Zenon, <1>0, <2>1, <3>1, IOSleep
  <2>3. CASE ~writeopen
    <3>1. Return(p, {lock, lock_close}) /\ frame' = frame
      BY Zenon, <1>2, <2>3 DEF read_empty
    <3> QED
      BY Zenon, <1>0, <2>1, <3>1, IOReturn
  <2> QED
    BY ZenonT(60), <2>2, <2>3
<1>3. CASE read_loop(p)
  <2>1. pc[p] = "read_loop" /\ LocksAt(p, pc[p], frame[p]) = {lock}
    <3>1. pc[p] = "read_loop"
      BY Zenon, <1>3 DEF read_loop
    <3> QED
      BY <3>1, IOLocks
  <2>2. CASE UNCHANGED <<holder, panic, pc, frame>>
    <3>1. To(p, "read_loop", frame[p]) /\ Locking(p, {}, {})
      BY ZenonT(60), <2>1, <2>2 DEF LInv, CoreType, To, Moves, Locking
    <3>2. LocksAt(p, "read_loop", frame[p]) = (LocksAt(p, pc[p], frame[p]) \ {}) \cup {}
      BY Zenon, <2>1
    <3> QED
      BY <1>0, <2>1, <3>1, <3>2, IOStep
  <2>3. CASE Return(p, {lock}) /\ frame' = frame
    BY ZenonT(60), <1>0, <2>1, <2>3, IOReturn
  <2>4. CASE Free(lock_close) /\ Locking(p, {}, {lock_close}) /\ Goto(p, "read_empty") /\ frame' = frame
    <3>1. LocksAt(p, "read_empty", frame[p]) = (LocksAt(p, pc[p], frame[p]) \ {}) \cup {lock_close}
      BY ZenonT(60), <2>1, IOLocks
    <3> QED
      BY <1>0, <2>1, <2>4, <3>1, IOGo
  <2>5. CASE WakeAll(p, full, None, "io_done") /\ UNCHANGED <<holder, panic>>
    BY Zenon, <1>0, <2>1, <2>5, IOWake
  <2> QED
    BY ZenonT(60), <1>3, <2>2, <2>3, <2>4, <2>5 DEF read_loop
<1> QED
  BY Zenon, <1>2, <1>3

\* The ends of read and write: woken, killed and done.
LEMMA IODone ==
  ASSUME LInv, NEW p \in Procs, io_woken(p) \/ io_return(p)
  PROVE  LInv'
<1> USE DEF IOPlain
<1>0. UNCHANGED <<waiters, oncv, state, killed>> /\ (pc[p] \in IOPlain \ {"user"} => state[p] = "RUNNING")
  BY Zenon, Here DEF io_woken, io_return
<1>1. CASE io_woken(p)
  <2> DEFINE b == IF pc[p] = "read_woken" THEN "read_loop" ELSE "write_loop"
  <2>1. /\ pc[p] \in {"read_woken", "write_woken"} /\ Locking(p, {lock_close}, {}) /\ Goto(p, b)
        /\ frame' = frame
    BY Zenon, <1>1 DEF io_woken
  <2>2. b \in {"read_loop", "write_loop"}
    BY Zenon
  <2> HIDE DEF b
  <2>3. /\ LocksAt(p, pc[p], frame[p]) = {lock, lock_close} /\ LocksAt(p, b, frame[p]) = {lock}
    BY <2>1, <2>2, IOLocks
  <2>4. /\ {lock_close} \subseteq LocksAt(p, pc[p], frame[p])
        /\ LocksAt(p, b, frame[p]) = (LocksAt(p, pc[p], frame[p]) \ {lock_close}) \cup {}
    BY Zenon, <2>3, Names
  <2> QED
    BY <1>0, <2>1, <2>2, <2>4, IOGo
<1>2. CASE io_return(p)
  <2>1. /\ pc[p] \in {"io_done", "io_killed"} /\ frame' = frame
        /\ Return(p, IF pc[p] = "io_done" THEN {lock} ELSE {lock, lock_close})
    BY Zenon, <1>2 DEF io_return
  <2>2. LocksAt(p, pc[p], frame[p]) = IF pc[p] = "io_done" THEN {lock} ELSE {lock, lock_close}
    <3>1. CASE pc[p] = "io_done"
      BY <3>1, IOLocks
    <3>2. CASE pc[p] = "io_killed"
      BY <3>2, IOLocks
    <3> QED
      BY Zenon, <2>1, <3>1, <3>2
  <2> QED
    BY Zenon, <1>0, <2>1, <2>2, IOReturn
<1> QED
  BY Zenon, <1>1, <1>2

\* read and write are called.
LEMMA IOCalls ==
  ASSUME LInv, NEW p \in Procs, NEW n, state[p] = "RUNNING",
         write_call(p, n) \/ read_call(p, n) \/ reader_onzero(p)
  PROVE  LInv'
<1> USE DEF IOPlain
<1>0. UNCHANGED <<waiters, oncv, state, killed>> /\ pc[p] = "user" /\ frame' = frame
  BY Zenon DEF write_call, read_call, reader_onzero
<1>1. CASE write_call(p, n)
  <2>1. Goto(p, "write_lock") /\ UNCHANGED <<holder, panic>>
    BY Zenon, <1>1 DEF write_call
  <2>2. LocksAt(p, "write_lock", frame[p]) = LocksAt(p, pc[p], frame[p])
    BY ZenonT(60), <1>0, IOLocks
  <2> QED
    BY Zenon, <1>0, <2>1, <2>2, IOGoUnlocked
<1>2. CASE read_call(p, n)
  <2>1. Goto(p, "read_loop") /\ Free(lock) /\ Locking(p, {}, {lock})
    BY Zenon, <1>2 DEF read_call
  <2>2. LocksAt(p, "read_loop", frame[p]) = (LocksAt(p, pc[p], frame[p]) \ {}) \cup {lock}
    BY ZenonT(60), <1>0, IOLocks
  <2> QED
    BY <1>0, <2>1, <2>2, IOGo
<1>3. CASE reader_onzero(p)
  <2>1. Goto(p, "close_r") /\ UNCHANGED <<holder, panic>>
    BY Zenon, <1>3 DEF reader_onzero
  <2>2. LocksAt(p, "close_r", frame[p]) = LocksAt(p, pc[p], frame[p])
    BY ZenonT(60), <1>0, IOLocks
  <2> QED
    BY Zenon, <1>0, <2>1, <2>2, IOGoUnlocked
<1> QED
  BY Zenon, <1>1, <1>2, <1>3

\* close and exit give up descriptors.
LEMMA CloseFds ==
  ASSUME LInv, NEW p \in Procs, NEW ends, NEW ret, close_fds(p, ends, ret), state[p] = "RUNNING",
         \/ pc[p] = "user" /\ ret = "user"
         \/ pc[p] = "exit_files" /\ ret = "exit"
  PROVE  LInv'
<1> DEFINE f == [frame[p] EXCEPT !.exc = ret]
<1>1. /\ \/ frame' = [frame EXCEPT ![p].exc = ret] /\ Goto(p, "close_w")
         \/ Goto(p, ret) /\ frame' = frame
      /\ UNCHANGED <<holder, panic>> /\ UNCHANGED <<waiters, oncv, state, killed>>
  BY Zenon DEF close_fds
<1>2. FrameOK(p, pc[p], frame[p]) /\ DOMAIN frame = Procs
  BY Zenon, Here
<1>3. ret = "exit" => p \in Users
  BY Zenon, <1>2 DEF FrameOK
<1>4. HoldsNow(p) = {}
  BY Zenon DEF HoldsNow, Holds, LocksAt
<1>5. CASE Goto(p, ret) /\ frame' = frame
  <2>1. To(p, ret, frame[p])
    BY Zenon, <1>5, GoSame
  <2>2. FrameOK(p, ret, frame[p]) /\ Holds(p, ret, frame[p]) = {}
    BY Zenon, <1>2, <1>3 DEF FrameOK, InSleep, InWake, Plain, Holds, LocksAt
  <2> QED
    BY Zenon, <1>1, <1>4, <2>1, <2>2, StepUnlocked
<1>6. CASE frame' = [frame EXCEPT ![p].exc = ret] /\ Goto(p, "close_w")
  <2>1. To(p, "close_w", f)
    <3>1. frame' = [frame EXCEPT ![p] = f]
      BY Zenon, <1>2, <1>6
    <3> QED
      BY Zenon, <1>6, <3>1, GoSet
  <2>2. DOMAIN f = {"cv", "lks", "who", "ret", "exc"} /\ f.exc = ret
    BY Zenon, <1>2 DEF FrameOK
  <2> HIDE DEF f
  <2>3. FrameOK(p, "close_w", f) /\ Holds(p, "close_w", f) = {}
    BY Zenon, <1>3, <2>2 DEF FrameOK, InSleep, InWake, Plain, Holds, LocksAt
  <2> QED
    BY ZenonT(60), <1>1, <1>4, <2>1, <2>3, StepUnlocked
<1> QED
  BY Zenon, <1>1, <1>5, <1>6

\* The close of an end takes its locks and begins to wake the readers.
LEMMA Pipeclose ==
  ASSUME LInv, NEW p \in Procs, pipeclose(p)
  PROVE  LInv'
<1>1. /\ pc[p] \in {"close_r", "close_w"} /\ Free(lock_close) /\ Locking(p, {}, {lock_close})
      /\ WakeAll(p, empty, None, "closed") /\ UNCHANGED <<waiters, oncv, state, killed>>
  BY Zenon DEF pipeclose
<1>2. FrameOK(p, pc[p], frame[p]) /\ state[p] = "RUNNING"
  BY Zenon, <1>1, Here
<1>3. frame[p].exc \in {"user", "exit"} /\ (frame[p].exc = "exit" => p \in Users)
  BY Zenon, <1>1, <1>2 DEF FrameOK, InSleep
<1>4. PICK f : /\ To(p, "wake", f) /\ DOMAIN f = {"cv", "lks", "who", "ret", "exc"}
               /\ f.exc = frame[p].exc /\ f.cv = empty /\ f.who = None /\ f.ret = "closed"
  BY <1>1, WakeCall
<1>5. FrameOK(p, "wake", f)
  BY ZenonT(60), <1>3, <1>4 DEF FrameOK, InSleep, InWake, Plain, WakeFrame
<1>6. HoldsNow(p) = {} /\ Holds(p, "wake", f) = {lock_close}
  BY ZenonT(60), <1>1, <1>4 DEF HoldsNow, Holds, LocksAt
<1>7. Swaps(p, "wake", f, {}, {lock_close})
  BY Zenon, <1>1, <1>6, Names DEF Swaps
<1> QED
  BY ZenonT(60), <1>1, <1>2, <1>4, <1>5, <1>7, Step

\* The close of an end is over.
LEMMA Pipeclosed ==
  ASSUME LInv, NEW p \in Procs, pipeclosed(p)
  PROVE  LInv'
<1> DEFINE b == frame[p].exc
<1>1. /\ pc[p] = "closed" /\ Locking(p, {lock_close}, {}) /\ Goto(p, b)
      /\ frame' = [frame EXCEPT ![p] = NoFrame] /\ UNCHANGED <<waiters, oncv, state, killed>>
  BY Zenon DEF pipeclosed
<1>2. FrameOK(p, "closed", frame[p]) /\ state[p] = "RUNNING" /\ To(p, b, NoFrame)
  BY Zenon, <1>1, Here, GoSet
<1>3. b \in {"user", "exit"} /\ (b = "exit" => p \in Users)
  BY Zenon, <1>2 DEF FrameOK, InSleep
<1>4. FrameOK(p, b, NoFrame) /\ Holds(p, b, NoFrame) = {}
  BY ZenonT(60), <1>1, <1>2, <1>3, FrameEnds DEF Plain
<1>5. HoldsNow(p) = {lock_close}
  BY Zenon, <1>1 DEF HoldsNow, Holds, LocksAt
<1>6. Swaps(p, b, NoFrame, {lock_close}, {})
  BY Zenon, <1>1, <1>4, <1>5, Names DEF Swaps
<1> QED
  BY ZenonT(60), <1>1, <1>2, <1>3, <1>4, <1>6, Step

-----------------------------------------------------------------------------
\* Every step keeps the locks, as long as no process is killed in wait.
LEMMA NextL ==
  ASSUME \A p \in Killable : "wait" \notin Calls[p], LInv, KInv, [Next]_vars
  PROVE  LInv'
<1>1. CASE UNCHANGED vars
  <2>1. UNCHANGED <<holder, waiters, oncv, state, killed, pc, frame, panic>>
    BY Zenon, <1>1 DEF vars, cv_vars
  <2>2. CoreType' /\ panic' = FALSE
    BY ZenonT(60), <2>1 DEF LInv, CoreType
  <2>3. LockInv' /\ WaitersInv'
    BY ZenonT(60), <2>1 DEF LInv, LockInv, WaitersInv, HoldsNow
  <2>4. ASSUME NEW p \in Procs PROVE FrameOK(p, pc'[p], frame'[p]) /\ StateOK(p)' /\ (killed'[p] => p \in Killable)
    BY ZenonT(60), <2>1 DEF LInv, StateOK
  <2> QED
    BY Zenon, <2>2, <2>3, <2>4 DEF LInv
<1>2. ASSUME NEW p \in Procs, Syscall(p) PROVE LInv'
  <2>1. CASE \E q \in Procs : May(p, "fork") /\ fork(p, q)
    BY Zenon, <2>1, Clone DEF fork
  <2>2. CASE \E n \in Sizes : May(p, "write") /\ write_call(p, n)
    BY Zenon, <2>2, IOCalls DEF May, Running
  <2>3. CASE \E n \in Sizes : May(p, "read") /\ read_call(p, n)
    BY Zenon, <2>3, IOCalls DEF May, Running
  <2>4. CASE \E e \in fds[p] : May(p, IF e = "r" THEN "close_r" ELSE "close_w") /\ close_fds(p, {e}, "user")
    BY Zenon, <2>4, CloseFds DEF May, Running
  <2>5. CASE May(p, "wait") /\ wait_lock(p)
    BY Zenon, <2>5, WaitLock DEF May, Running
  <2>6. CASE \E q \in Killable \ {p} : May(p, "kill") /\ kill(p, q)
    BY Zenon, <2>6, KillStep DEF May, Running
  <2>7. CASE May(p, "exit") /\ exit_call(p)
    <3>1. p \in Users
      BY Zenon, <2>7, ShellAssumption DEF May, exit_call, Users
    <3> QED
      BY Zenon, <2>7, <3>1, ExitCall DEF May, Running
  <2> QED
    BY ZenonT(60), <1>2, <2>1, <2>2, <2>3, <2>4, <2>5, <2>6, <2>7 DEF Syscall
<1>3. ASSUME NEW p \in Procs, Kernel(p) PROVE LInv'
  <2>1. CASE CondvarStep(p)
    BY ZenonT(60), <2>1, SleepTo, SleepEnqueue, Resume, SleepRelock, WakeAllStep, WakeOne, WakeReturn DEF CondvarStep
  <2>2. CASE ProcStep(p)
    <3>1. CASE pc[p] = "wait" /\ wait_lock(p)
      <4>1. p \notin Killable
        BY Zenon, <3>1, Here DEF FrameOK
      <4> QED
        BY Zenon, <3>1, <4>1, WaitLock
    <3> QED
      BY ZenonT(60), <2>2, <3>1, WaitScan, WaitSleep, WaitAgain, ExitPop, ExitAdopt, ExitReadParent,
         ExitLockParent, ExitLockSelf, ExitWakeInit, ExitZombie, KillEnd DEF ProcStep
  <2>3. CASE PipeStep(p)
    BY Zenon, <2>3, WriteStep, ReadStep, IODone, Pipeclose, Pipeclosed DEF PipeStep
  <2>4. CASE exit_files(p)
    BY Zenon, <2>4, Here, CloseFds DEF exit_files
  <2>5. CASE reader_onzero(p)
    <3>1. state[p] = "RUNNING"
      BY ZenonT(60), <2>5, ShellAssumption DEF reader_onzero, LInv, StateOK, Users
    <3> QED
      BY ZenonT(60), <2>5, <3>1, IOCalls
  <2> QED
    BY Zenon, <1>3, <2>1, <2>2, <2>3, <2>4, <2>5 DEF Kernel
<1> QED
  BY Zenon, <1>1, <1>2, <1>3 DEF Next

\* LInv holds at the start.
LEMMA InitL == Init => LInv
<1> SUFFICES ASSUME Init PROVE LInv
  BY Zenon
<1>1. CoreType
  BY Zenon, Names DEF Init, CoreType
<1>2. ASSUME NEW p \in Procs
      PROVE  /\ p # bootproc => pc[p] = "user" /\ frame[p] = NoFrame /\ oncv[p] = None
             /\ p = bootproc => /\ pc[p] = "swtch" /\ oncv[p] = cv(p) /\ state[p] = "SLEEPING"
                                /\ frame[p] = [NoFrame EXCEPT !.cv = cv(p), !.lks = <<plock(p)>>, !.ret = "rewait"]
             /\ p \in {worker, first} => state[p] = "RUNNING"
             /\ p \notin {worker, first, bootproc} => state[p] = "UNUSED"
             /\ ~killed[p]
  BY Zenon, ShellAssumption DEF Init, Users
<1>3. ASSUME NEW p \in Procs PROVE HoldsNow(p) = {}
  BY Zenon, <1>2 DEF HoldsNow, Holds, LocksAt
<1>4. LockInv
  BY Zenon, <1>3, Names DEF LockInv, Init
<1>5. WaitersInv
  <2>1. /\ \A c \in Cvs : waiters[c] = IF c = cv(bootproc) THEN <<bootproc>> ELSE <<>>
        /\ \A p \in Procs : oncv[p] = IF p = bootproc THEN cv(p) ELSE None
        /\ cv(bootproc) \in Cvs /\ bootproc \in Procs
    BY Zenon, Names, ShellAssumption DEF Init
  <2>2. <<bootproc>> \in Seq(Procs) /\ <<>> \in Seq(Procs) /\ Len(<<bootproc>>) = 1 /\ Len(<<>>) = 0
    BY <2>1
  <2>3. <<bootproc>>[1] = bootproc /\ 1 .. 1 = {1} /\ 1 .. 0 = {}
    OBVIOUS
  <2>4. \A p \in Procs : oncv[p] # None => p = bootproc
    BY Zenon, <2>1
  <2>5. ASSUME NEW c \in Cvs
        PROVE  /\ waiters[c] \in Seq(Procs) /\ Distinct(waiters[c])
               /\ \A p \in Procs : InList(p, waiters[c]) <=> oncv[p] = c
    <3>1. CASE c = cv(bootproc)
      <4>1. waiters[c] = <<bootproc>> /\ \A p \in Procs : oncv[p] = c <=> p = bootproc
        BY Zenon, <2>1, <2>4, <3>1, Names
      <4> QED
        BY <2>2, <2>3, <4>1 DEF Distinct, InList
    <3>2. CASE c # cv(bootproc)
      <4>1. waiters[c] = <<>> /\ \A p \in Procs : oncv[p] # c
        BY Zenon, <2>1, <3>2, Names
      <4> QED
        BY Zenon, <2>2, <2>3, <4>1 DEF Distinct, InList
    <3> QED
      BY Zenon, <3>1, <3>2
  <2> QED
    BY Zenon, <2>5 DEF WaitersInv
<1>6. ASSUME NEW p \in Procs PROVE FrameOK(p, pc[p], frame[p])
  <2>1. CASE p # bootproc
    <3>1. /\ DOMAIN frame[p] = {"cv", "lks", "who", "ret", "exc"} /\ frame[p].exc = "user"
          /\ pc[p] = "user"
      <4>1. pc[p] = "user" /\ frame[p] = NoFrame
        BY Zenon, <1>2, <2>1
      <4> QED
        BY <4>1 DEF NoFrame
    <3> QED
      BY Zenon, <3>1 DEF FrameOK, InSleep, InWake, Plain
  <2>2. CASE p = bootproc
    <3>1. /\ DOMAIN frame[p] = {"cv", "lks", "who", "ret", "exc"} /\ frame[p].cv = cv(p)
          /\ frame[p].lks = <<plock(p)>> /\ frame[p].ret = "rewait" /\ frame[p].exc = "user"
          /\ pc[p] = "swtch"
      BY ZenonT(60), <1>2, <2>2 DEF NoFrame
    <3>2. p \notin Killable
      BY Zenon, <2>2, ShellAssumption DEF Users
    <3> QED
      BY Zenon, <3>1, <3>2 DEF FrameOK, InSleep, InWake, Plain, SleepFrame
  <2> QED
    BY Zenon, <2>1, <2>2
<1>7. ASSUME NEW p \in Procs PROVE StateOK(p)
  <2>1. CASE p = bootproc
    BY Zenon, <1>2, <2>1 DEF StateOK, NoFrame
  <2>2. CASE p # bootproc
    BY Zenon, <1>2, <2>2, ShellAssumption DEF StateOK, Users
  <2> QED
    BY Zenon, <2>1, <2>2
<1> QED
  BY ZenonT(60), <1>1, <1>2, <1>4, <1>5, <1>6, <1>7 DEF LInv, Init

-----------------------------------------------------------------------------
\* A step of m outside condvar.cc that leaves the sleepers alone.
Apart(m) ==
  /\ Moves(m) /\ oncv' = oncv
  /\ pc[m] \notin InSleep \cup InWake /\ pc'[m] \notin {"enqueue", "swtch", "relock", "wake_loop"}

\* What every step does: who sleeps on c did so before or has called sleep, and a
\* wake-up of c goes on until nobody sleeps on c.
KeepsSleepers ==
  \A c \in Cvs :
    /\ \A r \in Procs : Sleeps(r, c)' => Sleeps(r, c) \/ (pc[r] = "sleep" /\ frame[r].cv = c)
    /\ Waking(c) => Waking(c)' \/ \A r \in Procs : ~Sleeps(r, c)'

\* A step outside condvar.cc does what every step does.
LEMMA ApartSleepers ==
  ASSUME NEW m \in Procs, Apart(m)
  PROVE  KeepsSleepers
<1> SUFFICES ASSUME NEW c \in Cvs
             PROVE  /\ \A r \in Procs : Sleeps(r, c)' => Sleeps(r, c)
                    /\ Waking(c) => Waking(c)'
  BY Zenon DEF KeepsSleepers
<1>1. ASSUME NEW r \in Procs, Sleeps(r, c)' PROVE Sleeps(r, c)
  BY Zenon, <1>1 DEF Sleeps, Apart, Moves
<1>2. ASSUME NEW r \in Procs, frame[r].cv = c /\ pc[r] \in {"wake", "wake_loop"}
      PROVE  frame'[r].cv = c /\ pc'[r] \in {"wake", "wake_loop"}
  BY Zenon, <1>2 DEF Apart, Moves, InWake
<1> QED
  BY Zenon, <1>1, <1>2 DEF Waking

\* When wake_all returns nobody sleeps on the condition variable.
LEMMA WokenAll ==
  ASSUME LInv, NEW p \in Procs, wake_return(p), NEW r \in Procs, NEW c, c = frame[p].cv
  PROVE  ~Sleeps(r, c)'
<1>0. DOMAIN pc = Procs /\ DOMAIN frame = Procs /\ FrameOK(p, pc[p], frame[p])
  BY Zenon, Here
<1>1. /\ pc[p] = "wake_loop" /\ waiters[c] = <<>> /\ oncv' = oncv /\ Moves(p) /\ pc'[p] = frame[p].ret
  BY Zenon, <1>0 DEF wake_return, Goto, Moves
<1>2. c \in Cvs /\ frame[p].ret \in {"exit_init", "exit_zombie", "kill_end", "io_done", "closed"}
  BY Zenon, <1>0, <1>1, WakeLocks DEF FrameOK, InWake
<1>3. c \in HoldsNow(p)
  BY Zenon, <1>1 DEF HoldsNow, Holds
<1>4. oncv'[r] # c
  <2>1. InList(r, waiters[c]) <=> oncv[r] = c
    BY <1>2 DEF LInv, WaitersInv
  <2>2. ~InList(r, <<>>)
    BY DEF InList
  <2> QED
    BY Zenon, <1>1, <2>1, <2>2
<1>5. ASSUME pc'[r] = "enqueue", frame'[r].cv = c PROVE FALSE
  <2>0. r # p
    BY Zenon, <1>1, <1>2, <1>5
  <2>1. c \in HoldsNow(r)
    BY Zenon, <1>1, <1>5, <2>0 DEF HoldsNow, Holds, Moves
  <2>2. holder[c] = r /\ holder[c] = p
    BY Zenon, <1>2, <1>3, <2>1, Names DEF LInv, LockInv
  <2> QED
    BY Zenon, <2>0, <2>2
<1>6. ~(oncv'[r] = c \/ (pc'[r] = "enqueue" /\ frame'[r].cv = c))
  BY Zenon, <1>4, <1>5
<1> QED
  BY Zenon, <1>6 DEF Sleeps

\* sleep and wake_all do what every step does.
LEMMA CondvarSleepers ==
  ASSUME LInv, NEW p \in Procs, CondvarStep(p)
  PROVE  KeepsSleepers
<1>0. DOMAIN pc = Procs /\ DOMAIN frame = Procs /\ FrameOK(p, pc[p], frame[p]) /\ oncv \in [Procs -> Cvs \cup {None}]
  BY Zenon, Here DEF LInv, CoreType
<1> SUFFICES ASSUME NEW c \in Cvs
             PROVE  /\ \A r \in Procs : Sleeps(r, c)' => Sleeps(r, c) \/ (pc[r] = "sleep" /\ frame[r].cv = c)
                    /\ Waking(c) => Waking(c)' \/ \A r \in Procs : ~Sleeps(r, c)'
  BY Zenon DEF KeepsSleepers
<1> DEFINE W(r) == frame[r].cv = c /\ pc[r] \in {"wake", "wake_loop"}
<1>1. CASE sleep_to(p)
  <2>1. pc[p] = "sleep" /\ pc' = [pc EXCEPT ![p] = "enqueue"] /\ frame' = frame /\ oncv' = oncv
    BY Zenon, <1>1 DEF sleep_to, Goto
  <2>2. \A r \in Procs : Sleeps(r, c)' => Sleeps(r, c) \/ (pc[r] = "sleep" /\ frame[r].cv = c)
    BY Zenon, <1>0, <2>1 DEF Sleeps
  <2>3. \A r \in Procs : W(r) => W(r)'
    BY Zenon, <1>0, <2>1
  <2> QED
    BY Zenon, <2>2, <2>3 DEF Waking
<1>2. CASE sleep_enqueue(p)
  <2>1. /\ pc[p] = "enqueue" /\ pc' = [pc EXCEPT ![p] = "swtch"] /\ frame' = frame
        /\ oncv' = [oncv EXCEPT ![p] = frame[p].cv]
    BY Zenon, <1>2 DEF sleep_enqueue, Goto
  <2>2. \A r \in Procs : Sleeps(r, c)' => Sleeps(r, c)
    BY Zenon, <1>0, <2>1 DEF Sleeps
  <2>3. \A r \in Procs : W(r) => W(r)'
    BY Zenon, <1>0, <2>1
  <2> QED
    BY Zenon, <2>2, <2>3 DEF Waking
<1>3. CASE resume(p)
  <2>1. /\ pc[p] \in {"swtch", "forkret"} /\ frame' = frame /\ oncv' = oncv
        /\ pc' = [pc EXCEPT ![p] = IF pc[p] = "swtch" THEN "relock" ELSE "user"]
    BY Zenon, <1>3 DEF resume, Goto
  <2>2. \A r \in Procs : Sleeps(r, c)' => Sleeps(r, c)
    BY Zenon, <1>0, <2>1 DEF Sleeps
  <2>3. \A r \in Procs : W(r) => W(r)'
    BY Zenon, <1>0, <2>1
  <2> QED
    BY Zenon, <2>2, <2>3 DEF Waking
<1>4. CASE sleep_relock(p)
  <2>1. /\ pc[p] = "relock" /\ oncv' = oncv /\ Moves(p)
        /\ pc'[p] \in {"relock", frame[p].exc, frame[p].ret}
    BY Zenon, <1>0, <1>4 DEF sleep_relock, Goto, Moves
  <2>2. pc'[p] # "enqueue"
    <3>1. CASE pc'[p] = "relock"
      BY Zenon, <3>1
    <3>2. CASE pc'[p] # "relock"
      <4>1. killed[p] => p \in Killable
        BY Zenon DEF LInv
      <4>2. SleepFrame(p, "relock", frame[p])
        BY Zenon, <1>0, <2>1 DEF FrameOK, InSleep
      <4>3. pc'[p] = IF killed[p] THEN frame[p].exc ELSE frame[p].ret
        BY Zenon, <1>0, <1>4, <3>2 DEF sleep_relock, Goto
      <4> QED
        BY Zenon, <4>1, <4>2, <4>3 DEF SleepFrame
    <3> QED
      BY Zenon, <3>1, <3>2
  <2>3. \A r \in Procs : Sleeps(r, c)' => Sleeps(r, c)
    BY Zenon, <2>1, <2>2 DEF Sleeps, Moves
  <2>4. \A r \in Procs : W(r) => W(r)'
    BY Zenon, <2>1 DEF Moves
  <2> QED
    BY Zenon, <2>3, <2>4 DEF Waking
<1>5. CASE wake_all(p)
  <2>1. pc[p] = "wake" /\ pc' = [pc EXCEPT ![p] = "wake_loop"] /\ frame' = frame /\ oncv' = oncv
    BY Zenon, <1>5 DEF wake_all, Goto
  <2>2. \A r \in Procs : Sleeps(r, c)' => Sleeps(r, c)
    BY Zenon, <1>0, <2>1 DEF Sleeps
  <2>3. \A r \in Procs : W(r) => W(r)'
    BY Zenon, <1>0, <2>1
  <2> QED
    BY Zenon, <2>2, <2>3 DEF Waking
<1>6. CASE wake_one(p)
  <2>1. pc' = pc /\ frame' = frame /\ \A r \in Procs : oncv'[r] \in {oncv[r], None}
    BY Zenon, <1>0, <1>6 DEF wake_one
  <2>2. \A r \in Procs : Sleeps(r, c)' => Sleeps(r, c)
    BY Zenon, <2>1, Names DEF Sleeps
  <2> QED
    BY Zenon, <2>1, <2>2 DEF Waking
<1>7. CASE wake_return(p)
  <2>1. /\ pc[p] = "wake_loop" /\ waiters[frame[p].cv] = <<>> /\ oncv' = oncv /\ Moves(p)
        /\ pc'[p] = frame[p].ret
    BY Zenon, <1>0, <1>7 DEF wake_return, Goto, Moves
  <2>2. frame[p].cv \in Cvs /\ frame[p].ret \in {"exit_init", "exit_zombie", "kill_end", "io_done", "closed"}
    BY Zenon, <1>0, <2>1, WakeLocks DEF FrameOK, InWake
  <2>3. \A r \in Procs : Sleeps(r, c)' => Sleeps(r, c)
    BY Zenon, <2>1, <2>2 DEF Sleeps, Moves
  <2>4. CASE c # frame[p].cv
    <3>1. \A r \in Procs : W(r) => W(r)'
      BY Zenon, <2>1, <2>4 DEF Moves
    <3> QED
      BY Zenon, <2>3, <3>1 DEF Waking
  <2>5. CASE c = frame[p].cv
    <3>1. ASSUME NEW r \in Procs PROVE ~Sleeps(r, c)'
      BY Zenon, <1>7, <2>5, WokenAll
    <3> QED
      BY Zenon, <2>3, <3>1
  <2> QED
    BY Zenon, <2>4, <2>5
<1> QED
  BY ZenonT(60), <1>1, <1>2, <1>3, <1>4, <1>5, <1>6, <1>7 DEF CondvarStep

\* Every other step is one outside condvar.cc.
LEMMA ProcApart ==
  ASSUME LInv, NEW p \in Procs, ProcStep(p) \/ (pc[p] = "user" /\ wait_lock(p)) \/ exit_call(p)
  PROVE  Apart(p)
<1>0. DOMAIN pc = Procs /\ DOMAIN frame = Procs /\ FrameOK(p, pc[p], frame[p])
  BY Zenon, Here
<1> USE DEF Apart, Moves, InSleep, InWake, Goto, WakeAll, Sleep
<1>1. CASE pc[p] \in {"wait", "user"} /\ wait_lock(p)
  BY Zenon, <1>0, <1>1 DEF wait_lock
<1>2. CASE wait_scan(p)
  BY Zenon, <1>0, <1>2 DEF wait_scan
<1>3. CASE wait_sleep(p)
  BY Zenon, <1>0, <1>3 DEF wait_sleep
<1>4. CASE wait_again(p)
  BY Zenon, <1>0, <1>4 DEF wait_again
<1>5. CASE exit_pop(p)
  BY Zenon, <1>0, <1>5 DEF exit_pop
<1>6. CASE exit_adopt(p)
  BY Zenon, <1>0, <1>6 DEF exit_adopt
<1>7. CASE exit_read_parent(p)
  BY Zenon, <1>0, <1>7 DEF exit_read_parent
<1>8. CASE exit_lock_parent(p)
  BY Zenon, <1>0, <1>8 DEF exit_lock_parent
<1>9. CASE exit_lock_self(p)
  BY Zenon, <1>0, <1>9 DEF exit_lock_self
<1>10. CASE exit_wake_init(p)
  BY Zenon, <1>0, <1>10 DEF exit_wake_init
<1>11. CASE exit_zombie(p)
  BY Zenon, <1>0, <1>11 DEF exit_zombie
<1>12. CASE kill_end(p)
  BY Zenon, <1>0, <1>12 DEF kill_end
<1>13. CASE exit_call(p)
  BY Zenon, <1>0, <1>13 DEF exit_call
<1> QED
  BY ZenonT(60), <1>1, <1>2, <1>3, <1>4, <1>5, <1>6, <1>7, <1>8, <1>9, <1>10, <1>11, <1>12, <1>13 DEF ProcStep

\* The steps of read, write and close move one process.
LEMMA PipeApart ==
  ASSUME LInv, NEW p \in Procs, PipeStep(p)
  PROVE  Apart(p)
<1>0. DOMAIN pc = Procs /\ DOMAIN frame = Procs /\ FrameOK(p, pc[p], frame[p])
  BY Zenon, Here
<1> USE DEF Apart, Moves, InSleep, InWake, Goto, WakeAll, Sleep
<1>1. CASE write_lock(p)
  BY Zenon, <1>0, <1>1 DEF write_lock
<1>2. CASE write_loop(p)
  BY Zenon, <1>0, <1>2 DEF write_loop, Return
<1>3. CASE write_full(p)
  BY ZenonT(60), <1>0, <1>3 DEF write_full, Return
<1>4. CASE read_loop(p)
  BY Zenon, <1>0, <1>4 DEF read_loop, Return
<1>5. CASE read_empty(p)
  BY ZenonT(60), <1>0, <1>5 DEF read_empty, Return
<1>6. CASE io_woken(p)
  BY Zenon, <1>0, <1>6 DEF io_woken
<1>7. CASE io_return(p)
  BY Zenon, <1>0, <1>7 DEF io_return, Return
<1>8. CASE pipeclose(p)
  BY Zenon, <1>0, <1>8 DEF pipeclose
<1>9. CASE pipeclosed(p)
  <2>1. frame[p].exc \in {"user", "exit"}
    BY Zenon, <1>0, <1>9 DEF pipeclosed, FrameOK
  <2> QED
    BY Zenon, <1>0, <1>9, <2>1 DEF pipeclosed
<1> QED
  BY ZenonT(60), <1>1, <1>2, <1>3, <1>4, <1>5, <1>6, <1>7, <1>8, <1>9 DEF PipeStep

\* So do the system calls other than fork,
LEMMA CallApart ==
  ASSUME LInv, NEW p \in Procs, NEW n, NEW ends, NEW ret,
         \/ write_call(p, n) \/ read_call(p, n) \/ reader_onzero(p) \/ kill(p, n)
         \/ pc[p] \in {"user", "exit_files"} /\ ret \in {"user", "exit"} /\ close_fds(p, ends, ret)
  PROVE  Apart(p)
<1>0. DOMAIN pc = Procs /\ DOMAIN frame = Procs
  BY Zenon, Here
<1> USE DEF Apart, Moves, InSleep, InWake, Goto, WakeAll
<1>1. CASE write_call(p, n)
  BY Zenon, <1>0, <1>1 DEF write_call
<1>2. CASE read_call(p, n)
  BY Zenon, <1>0, <1>2 DEF read_call
<1>3. CASE reader_onzero(p)
  BY Zenon, <1>0, <1>3 DEF reader_onzero
<1>4. CASE kill(p, n)
  BY Zenon, <1>0, <1>4 DEF kill
<1>5. CASE pc[p] \in {"user", "exit_files"} /\ ret \in {"user", "exit"} /\ close_fds(p, ends, ret)
  BY Zenon, <1>0, <1>5 DEF close_fds
<1> QED
  BY Zenon, <1>1, <1>2, <1>3, <1>4, <1>5

\* and fork moves the new process only.
LEMMA CloneApart ==
  ASSUME LInv, NEW p \in Procs, NEW q \in Users, doclone(p, q)
  PROVE  Apart(q) /\ pc[q] = "user" /\ pc'[q] = "forkret" /\ UNCHANGED frame
<1>0. DOMAIN pc = Procs /\ DOMAIN frame = Procs /\ q \in Procs
  BY Zenon, Here DEF Users
<1>1. pc[q] = "user"
  BY Zenon, <1>0 DEF doclone, LInv, StateOK
<1> QED
  BY Zenon, <1>0, <1>1 DEF doclone, Apart, Moves, InSleep, InWake, Goto
=============================================================================
