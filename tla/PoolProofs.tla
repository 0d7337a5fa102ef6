----------------------------- MODULE PoolProofs -----------------------------
(***************************************************************************)
(* Proofs about Pages: the invariant IInv, and that the steps of the pool  *)
(* (pool.c) and of FreeMemoryMapStack preserve it.  PagesProofs goes on    *)
(* with the conversion of pages, the services and the theorems.            *)
(*                                                                         *)
(* Everything rests on one invariant, since the map lives in the pool and  *)
(* the pool in the map: a descriptor is overwritten unless the pool keeps  *)
(* track of its blocks, and the pool carves a page twice unless the map    *)
(* says truly which pages are free.                                        *)
(***************************************************************************)
EXTENDS Pages, SequenceTheorems, NaturalsInduction, WellFoundedInduction, TLAPS

-----------------------------------------------------------------------------
(* Numbers *)

\* A set of numbers has a least element.
LEMMA LeastNat ==
    ASSUME NEW S \in SUBSET Nat, S # {}
    PROVE  \E x \in S : \A y \in S : x <= y
  <1>1. PICK x \in S : \A y \in S : ~ (<<y, x>> \in OpToRel(<, Nat))
    BY NatLessThanWellFounded, WFMin
  <1>2. \A y \in S : <<y, x>> \in OpToRel(<, Nat) <=> y < x
    BY DEF OpToRel
  <1>3. \A y \in S : ~(y < x)
    BY <1>1, <1>2, Zenon
  <1>4. \A y \in S : x <= y
    BY <1>3
  <1> QED BY <1>4

\* Max picks the greatest element of a bounded set.
LEMMA MaxFacts ==
    ASSUME NEW S \in SUBSET Nat, S # {}, NEW n \in Nat, \A x \in S : x <= n
    PROVE  Max(S) \in S /\ \A y \in S : y <= Max(S)
  <1> DEFINE T == {m \in Nat : \A x \in S : x <= m}
  <1>1. T # {} /\ T \in SUBSET Nat
    OBVIOUS
  <1>2. PICK m \in T : \A y \in T : m <= y
    BY <1>1, LeastNat
  <1>3. m \in S
    <2> SUFFICES ASSUME m \notin S PROVE FALSE
      OBVIOUS
    <2>1. \A x \in S : x < m
      BY <1>2
    <2>2. m - 1 \in T
      <3>1. PICK x \in S : TRUE
        OBVIOUS
      <3> QED BY <2>1, <3>1
    <2> QED BY <1>2, <2>2
  <1>4. \A y \in S : y <= m
    BY <1>2
  <1> QED BY <1>3, <1>4 DEF Max

LEMMA DivFacts ==
    ASSUME NEW c \in Nat \ {0}, NEW m \in Nat
    PROVE  /\ m \div c \in Nat /\ m % c \in 0 .. c - 1
           /\ m = (m \div c) * c + (m % c)
  OBVIOUS

LEMMA TimesFacts ==
    ASSUME NEW c \in Nat \ {0}, NEW m \in Nat, NEW n \in Nat, m < n
    PROVE  m * c \in Nat /\ n * c \in Nat /\ m * c + c <= n * c
  OBVIOUS

LEMMA AlignFacts ==
    ASSUME NEW a \in {1, 2}, NEW n \in Nat
    PROVE  /\ AlignDown(n, a) \in Nat /\ AlignDown(n, a) <= n /\ AlignDown(n, a) % a = 0
           /\ AlignUp(n, a) \in Nat /\ AlignUp(n, a) >= n /\ AlignUp(n, a) % a = 0
           /\ n % a = 0 => AlignUp(n, a) = n
  <1>1. CASE a = 1
    BY <1>1 DEF AlignDown, AlignUp
  <1>2. CASE a = 2
    BY <1>2 DEF AlignDown, AlignUp
  <1> QED BY <1>1, <1>2

LEMMA AlignmentFacts ==
    ASSUME NEW t
    PROVE  AlignmentOf(t) \in {1, 2}
  BY PagesAssumption DEF AlignmentOf
-----------------------------------------------------------------------------
(* Blocks *)

Index == 0 .. MAX_POOL_LIST - 1

LEMMA FitFacts ==
    ASSUME NEW l \in 0 .. MAX_POOL_LIST
    PROVE  /\ Fitting(l) \in Nat \ {0} /\ Left(l) \in 0 .. l
           /\ l # MAX_POOL_LIST => Fitting(l) * (l + 1) = MAX_POOL_LIST - Left(l)
           /\ l = MAX_POOL_LIST => Fitting(l) = 1 /\ Left(l) = 0
  <1>1. CASE l = MAX_POOL_LIST
    BY <1>1, PagesAssumption DEF Fitting, Left
  <1>2. CASE l # MAX_POOL_LIST
    <2> DEFINE c == l + 1
               q == MAX_POOL_LIST \div c
               r == MAX_POOL_LIST % c
    <2>0. c \in Nat \ {0} /\ c <= MAX_POOL_LIST /\ MAX_POOL_LIST \in Nat
      BY <1>2, PagesAssumption
    <2>1. q \in Nat /\ r \in 0 .. c - 1 /\ MAX_POOL_LIST = q * c + r
      BY <2>0, DivFacts
    <2>2. q # 0
      <3> SUFFICES ASSUME q = 0 PROVE FALSE
        OBVIOUS
      <3>1. q * c = 0
        BY <2>0
      <3> QED BY <3>1, <2>0, <2>1
    <2>3. Fitting(l) = q /\ Left(l) = r
      BY <1>2 DEF Fitting, Left
    <2>4. q * c \in Nat
      BY <2>0, <2>1
    <2>5. Fitting(l) * (l + 1) = q * c
      BY <2>3
    <2> HIDE DEF q, r
    <2>6. q * c = MAX_POOL_LIST - r
      BY <2>0, <2>1, <2>4
    <2>7. Fitting(l) * (l + 1) = MAX_POOL_LIST - Left(l)
      BY <2>3, <2>5, <2>6
    <2>8. Fitting(l) \in Nat \ {0} /\ Left(l) \in 0 .. l
      BY <2>1, <2>2, <2>3
    <2> QED BY <1>2, <2>7, <2>8
  <1> QED BY <1>1, <1>2

\* The i-th block of the list asked for lies in the page.
LEMMA OffsetFacts ==
    ASSUME NEW l \in 0 .. MAX_POOL_LIST, NEW i \in 0 .. Fitting(l) - 1
    PROVE  i * (l + 1) \in Index /\ i * (l + 1) < MAX_POOL_LIST - Left(l)
  <1>0. /\ Fitting(l) \in Nat \ {0} /\ i \in Nat /\ i < Fitting(l) /\ l + 1 \in Nat \ {0}
        /\ MAX_POOL_LIST \in Nat \ {0} /\ Left(l) \in Nat
    <2>1. MAX_POOL_LIST \in Nat \ {0}
      BY PagesAssumption
    <2>2. Fitting(l) \in Nat \ {0} /\ Left(l) \in 0 .. l
      BY FitFacts
    <2>3. l \in Nat /\ l + 1 \in Nat \ {0}
      BY <2>1
    <2>4. Left(l) \in Nat
      BY <2>2, <2>3
    <2>5. i \in Nat /\ i < Fitting(l)
      BY <2>2
    <2> QED BY <2>1, <2>2, <2>3, <2>4, <2>5
  <1>1. CASE l = MAX_POOL_LIST
    <2>1. i = 0 /\ Left(l) = 0
      BY <1>0, <1>1, FitFacts
    <2>2. i * (l + 1) = 0
      BY <2>1, <1>0
    <2> QED BY <2>1, <2>2, <1>0 DEF Index
  <1>2. CASE l # MAX_POOL_LIST
    <2>1. i * (l + 1) \in Nat /\ i * (l + 1) + (l + 1) <= Fitting(l) * (l + 1)
      BY <1>0, TimesFacts
    <2>2. Fitting(l) * (l + 1) = MAX_POOL_LIST - Left(l)
      BY <1>2, FitFacts
    <2> HIDE DEF Fitting, Left
    <2> QED BY <1>0, <2>1, <2>2 DEF Index
  <1> QED BY <1>1, <1>2

LEMMA CarveFacts ==
    ASSUME NEW l \in 0 .. MAX_POOL_LIST, NEW b \in Carve(l)
    PROVE  b[1] \in Index
  <1>1. CASE \E i \in 0 .. Fitting(l) - 1 : b = <<i * (l + 1), l>>
    BY <1>1, OffsetFacts
  <1>2. CASE \E k \in {Left(l)} \ {0} : b = <<MAX_POOL_LIST - k, k - 1>>
    <2>1. Left(l) \in Nat \ {0} /\ Left(l) <= l /\ MAX_POOL_LIST \in Nat
      BY <1>2, FitFacts, PagesAssumption
    <2>2. b[1] = MAX_POOL_LIST - Left(l)
      BY <1>2
    <2> QED BY <2>1, <2>2 DEF Index
  <1> QED BY <1>1, <1>2 DEF Carve

BlocksFor(p, k) == {<<p, b[1]>> : b \in Carve(k)}

LEMMA BlocksForFacts ==
    ASSUME NEW p \in Page, NEW k \in 0 .. MAX_POOL_LIST
    PROVE  /\ BlocksFor(p, k) \subseteq PoolSlot
           /\ \A s \in BlocksFor(p, k) : s[1] = p
  BY CarveFacts DEF BlocksFor, PoolSlot, Index

\* New blocks are blocks of the page; no block is on two lists or twice on one.
LEMMA NewBlocksFacts ==
    ASSUME NEW p \in Page, NEW k \in 0 .. MAX_POOL_LIST
    PROVE  /\ \A l \in 0 .. MAX_POOL_LIST :
                 /\ NewBlocks(p, k, l) \in Seq(PoolSlot)
                 /\ \A i \in DOMAIN NewBlocks(p, k, l) : NewBlocks(p, k, l)[i] \in BlocksFor(p, k)
           /\ Len(NewBlocks(p, k, k)) > 0
           /\ \A l, m \in 0 .. MAX_POOL_LIST :
                 \A i \in DOMAIN NewBlocks(p, k, l), j \in DOMAIN NewBlocks(p, k, m) :
                    NewBlocks(p, k, l)[i] = NewBlocks(p, k, m)[j] => l = m /\ i = j
  <1> DEFINE n == Fitting(k)
             r == Left(k)
             big == [i \in 1 .. n |-> <<p, (n - i) * (k + 1)>>]
             last == <<<<p, MAX_POOL_LIST - r>>>>
  <1>0. n \in Nat \ {0} /\ r \in 0 .. k /\ k + 1 \in Nat \ {0} /\ MAX_POOL_LIST \in Nat
    BY FitFacts, PagesAssumption
  <1>1. \A i \in 1 .. n : /\ n - i \in 0 .. n - 1
                          /\ (n - i) * (k + 1) \in Index /\ (n - i) * (k + 1) < MAX_POOL_LIST - r
    <2> TAKE i \in 1 .. n
    <2>1. n - i \in 0 .. n - 1
      BY <1>0
    <2> QED BY <2>1, OffsetFacts
  <1>2. \A i, j \in 1 .. n : (n - i) * (k + 1) = (n - j) * (k + 1) => i = j
    <2> SUFFICES ASSUME NEW i \in 1 .. n, NEW j \in 1 .. n, i < j
                 PROVE  (n - i) * (k + 1) # (n - j) * (k + 1)
      BY <1>0
    <2>1. n - j \in Nat /\ n - i \in Nat /\ n - j < n - i
      BY <1>0
    <2>2. (n - j) * (k + 1) \in Nat /\ (n - i) * (k + 1) \in Nat
          /\ (n - j) * (k + 1) + (k + 1) <= (n - i) * (k + 1)
      BY <2>1, <1>0, TimesFacts
    <2> QED BY <2>2, <1>0
  <1>3. \A i \in 1 .. n : big[i] \in BlocksFor(p, k)
    <2> TAKE i \in 1 .. n
    <2>1. <<(n - i) * (k + 1), k>> \in Carve(k)
      BY <1>1 DEF Carve
    <2>2. big[i] = <<p, <<(n - i) * (k + 1), k>>[1]>>
      OBVIOUS
    <2> QED BY <2>1, <2>2 DEF BlocksFor
  <1>4. r # 0 => <<p, MAX_POOL_LIST - r>> \in BlocksFor(p, k)
    <2> SUFFICES ASSUME r # 0 PROVE <<p, MAX_POOL_LIST - r>> \in BlocksFor(p, k)
      OBVIOUS
    <2>1. <<MAX_POOL_LIST - r, r - 1>> \in Carve(k)
      BY DEF Carve
    <2>2. <<p, MAX_POOL_LIST - r>> = <<p, <<MAX_POOL_LIST - r, r - 1>>[1]>>
      OBVIOUS
    <2> QED BY <2>1, <2>2 DEF BlocksFor
  <1>5. NewBlocks(p, k, k) = big
    BY DEF NewBlocks
  <1>6. \A l \in 0 .. MAX_POOL_LIST : l # k /\ l + 1 = r => NewBlocks(p, k, l) = last
    BY DEF NewBlocks
  <1>7. \A l \in 0 .. MAX_POOL_LIST : l # k /\ l + 1 # r => NewBlocks(p, k, l) = <<>>
    BY DEF NewBlocks
  <1>8. big \in Seq(PoolSlot) /\ Len(big) = n /\ DOMAIN big = 1 .. n
    <2>1. \A i \in 1 .. n : big[i] \in PoolSlot
      BY <1>3, BlocksForFacts
    <2>2. big \in [1 .. n -> PoolSlot]
      BY <2>1
    <2>3. n \in Nat
      BY <1>0
    <2> HIDE DEF big, n
    <2> QED BY <2>2, <2>3, SeqDef
  <1>9. r # 0 => last \in Seq(PoolSlot) /\ DOMAIN last = {1} /\ last[1] = <<p, MAX_POOL_LIST - r>>
    BY <1>4, BlocksForFacts
  <1>10. \A i \in 1 .. n : big[i] # <<p, MAX_POOL_LIST - r>>
    BY <1>0, <1>1 DEF Index
  <1>11. \A i, j \in 1 .. n : big[i] = big[j] => i = j
    BY <1>2
  <1> HIDE DEF big, last, n, r
  <1>12. \A l \in 0 .. MAX_POOL_LIST : \/ l = k /\ NewBlocks(p, k, l) = big
                                       \/ l # k /\ l + 1 = r /\ r # 0 /\ NewBlocks(p, k, l) = last
                                       \/ NewBlocks(p, k, l) = <<>>
    BY <1>5, <1>6, <1>7, <1>0
  <1>13. ASSUME NEW l \in 0 .. MAX_POOL_LIST
         PROVE  /\ NewBlocks(p, k, l) \in Seq(PoolSlot)
                /\ \A i \in DOMAIN NewBlocks(p, k, l) : NewBlocks(p, k, l)[i] \in BlocksFor(p, k)
    <2>1. CASE NewBlocks(p, k, l) = big
      BY <2>1, <1>3, <1>8
    <2>2. CASE r # 0 /\ NewBlocks(p, k, l) = last
      BY <2>2, <1>4, <1>9
    <2>3. CASE NewBlocks(p, k, l) = <<>>
      BY <2>3
    <2> QED BY <2>1, <2>2, <2>3, <1>12
  <1>14. ASSUME NEW l \in 0 .. MAX_POOL_LIST, NEW m \in 0 .. MAX_POOL_LIST,
                NEW i \in DOMAIN NewBlocks(p, k, l), NEW j \in DOMAIN NewBlocks(p, k, m),
                NewBlocks(p, k, l)[i] = NewBlocks(p, k, m)[j]
         PROVE  l = m /\ i = j
    <2>1. NewBlocks(p, k, l) # <<>> /\ NewBlocks(p, k, m) # <<>>
      OBVIOUS
    <2>2. CASE l = k /\ m = k
      BY <2>2, <1>5, <1>8, <1>11, <1>14
    <2>3. CASE l # k /\ m = k
      BY <2>1, <2>3, <1>5, <1>12, <1>8, <1>9, <1>10, <1>14
    <2>4. CASE l = k /\ m # k
      BY <2>1, <2>4, <1>5, <1>12, <1>8, <1>9, <1>10, <1>14
    <2>5. CASE l # k /\ m # k
      <3>1. l + 1 = r /\ m + 1 = r /\ r # 0 /\ NewBlocks(p, k, l) = last /\ NewBlocks(p, k, m) = last
        BY <2>1, <2>5, <1>12
      <3> QED BY <3>1, <1>9, <1>0
    <2> QED BY <2>2, <2>3, <2>4, <2>5
  <1> QED BY <1>0, <1>5, <1>8, <1>13, <1>14

\* What Elsewhere keeps of a free list: blocks of other pages, each of them once.
LEMMA ElsewhereFacts ==
    ASSUME NEW S, NEW free \in Seq(S), NEW p
    PROVE  /\ Elsewhere(free, p) \in Seq(S)
           /\ \A i \in DOMAIN Elsewhere(free, p) :
                 Elsewhere(free, p)[i][1] # p /\ \E j \in DOMAIN free : Elsewhere(free, p)[i] = free[j]
           /\ (\A i, j \in DOMAIN free : free[i] = free[j] => i = j) =>
                 \A i, j \in DOMAIN Elsewhere(free, p) :
                    Elsewhere(free, p)[i] = Elsewhere(free, p)[j] => i = j
  <1> DEFINE Body(K, i) == IF i = 0 THEN <<>>
                           ELSE IF free[i][1] = p THEN K[i - 1]
                           ELSE Append(K[i - 1], free[i])
             Good(K, n) == K = [i \in 0 .. n |-> Body(K, i)]
             Bad == {n \in Nat : \A K : ~ Good(K, n)}
  <1>0. Len(free) \in Nat /\ DOMAIN free = 1 .. Len(free)
    OBVIOUS
  <1>1. Bad = {}
    <2> SUFFICES ASSUME Bad # {} PROVE FALSE
      OBVIOUS
    <2>1. PICK m \in Bad : \A y \in Bad : m <= y
      BY LeastNat
    <2>2. m # 0
      <3> SUFFICES ASSUME m = 0 PROVE FALSE
        OBVIOUS
      <3> DEFINE K == [i \in 0 .. 0 |-> <<>>]
      <3>1. \A i \in 0 .. 0 : Body(K, i) = <<>>
        OBVIOUS
      <3>2. Good(K, 0)
        BY <3>1
      <3> QED BY <3>2, <2>1
    <2>3. m - 1 \in Nat /\ m - 1 \notin Bad
      <3>1. Bad \in SUBSET Nat
        OBVIOUS
      <3> HIDE DEF Bad
      <3> QED BY <2>1, <2>2, <3>1
    <2>4. PICK J : Good(J, m - 1)
      BY <2>3
    <2> DEFINE K == [i \in 0 .. m |-> IF i = m THEN Body(J, m) ELSE J[i]]
    <2>5. \A i \in 0 .. m - 1 : J[i] = Body(J, i)
      BY <2>4, <2>3
    <2>6. \A i \in 0 .. m : K[i] = Body(K, i)
      <3> TAKE i \in 0 .. m
      <3>1. CASE i = m
        <4>1. K[m - 1] = J[m - 1]
          BY <2>3
        <4> QED BY <3>1, <4>1
      <3>2. CASE i # m /\ i # 0
        <4>0. i \in 0 .. m - 1 /\ i - 1 \in 0 .. m /\ i - 1 # m
          BY <3>2, <2>3
        <4>1. J[i] = Body(J, i)
          BY <4>0, <2>5
        <4>2. K[i - 1] = J[i - 1] /\ K[i] = J[i]
          BY <4>0, <3>2
        <4> QED BY <4>1, <4>2
      <3>3. CASE i = 0
        <4>1. K[i] = J[i] /\ J[i] = Body(J, i)
          BY <3>3, <2>2, <2>3, <2>5
        <4> QED BY <4>1, <3>3
      <3> QED BY <3>1, <3>2, <3>3
    <2>7. Good(K, m)
      <3> HIDE DEF Body
      <3>1. K = [i \in 0 .. m |-> K[i]]
        OBVIOUS
      <3> HIDE DEF K
      <3> QED BY <2>6, <3>1
    <2> QED BY <2>7, <2>1
  <1>2. \E K : Good(K, Len(free))
    <2> HIDE DEF Good
    <2> QED BY <1>0, <1>1
  <1> DEFINE kept == CHOOSE K : Good(K, Len(free))
  <1>3. Good(kept, Len(free))
    BY <1>2
  <1>4. Elsewhere(free, p) = kept[Len(free)]
    BY DEF Elsewhere
  <1>5. \A i \in 0 .. Len(free) : kept[i] = Body(kept, i)
    BY <1>3, Zenon
  <1> DEFINE Sound(q, n) ==
                /\ q \in Seq(S)
                /\ \A i \in DOMAIN q : q[i][1] # p /\ \E j \in 1 .. n : q[i] = free[j]
                /\ (\A i, j \in DOMAIN free : free[i] = free[j] => i = j) =>
                      \A i, j \in DOMAIN q : q[i] = q[j] => i = j
             Wrong == {n \in 0 .. Len(free) : ~ Sound(kept[n], n)}
  <1> HIDE DEF kept
  <1>6. Wrong = {}
    <2> SUFFICES ASSUME Wrong # {} PROVE FALSE
      OBVIOUS
    <2>0. Wrong \in SUBSET Nat
      OBVIOUS
    <2>1. PICK m \in Wrong : \A y \in Wrong : m <= y
      BY <2>0, LeastNat
    <2>2. m # 0
      <3> SUFFICES ASSUME m = 0 PROVE FALSE
        OBVIOUS
      <3>1. kept[0] = <<>>
        BY <1>0, <1>5
      <3>2. Sound(<<>>, 0)
        <4>1. <<>> \in Seq(S) /\ DOMAIN <<>> = {}
          OBVIOUS
        <4> QED BY <4>1, Zenon
      <3>3. Sound(kept[m], m)
        BY <3>1, <3>2
      <3> HIDE DEF Sound
      <3> QED BY <3>3, <2>1
    <2>3. m - 1 \in 0 .. Len(free) /\ m - 1 \notin Wrong /\ m \in 1 .. Len(free)
      BY <2>1, <2>2, <1>0
    <2>4. Sound(kept[m - 1], m - 1)
      BY <2>3
    <2>5. kept[m] = IF free[m][1] = p THEN kept[m - 1] ELSE Append(kept[m - 1], free[m])
      BY <1>5, <2>3, <2>2
    <2> DEFINE q == kept[m - 1]
    <2>6. CASE free[m][1] = p
      <3>1. kept[m] = q
        BY <2>5, <2>6
      <3>2. Sound(q, m)
        <4>1. \A j \in 1 .. m - 1 : j \in 1 .. m
          BY <2>3
        <4> HIDE DEF q
        <4> QED BY <2>4, <4>1 DEF q
      <3> QED BY <3>1, <3>2, <2>1
    <2>7. CASE free[m][1] # p
      <3> DEFINE a == Append(q, free[m])
      <3>0. q \in Seq(S) /\ free[m] \in S
        BY <2>4, <2>3, <1>0
      <3>1. /\ a \in Seq(S) /\ Len(a) = Len(q) + 1 /\ DOMAIN a = 1 .. Len(q) + 1
            /\ a[Len(q) + 1] = free[m] /\ \A i \in 1 .. Len(q) : a[i] = q[i]
        BY <3>0
      <3>2. \A i \in DOMAIN q : q[i][1] # p /\ \E j \in 1 .. m - 1 : q[i] = free[j]
        BY <2>4
      <3>3. DOMAIN q = 1 .. Len(q) /\ Len(q) \in Nat
        BY <3>0
      <3> HIDE DEF q
      <3>4. \A i \in DOMAIN a : a[i][1] # p /\ \E j \in 1 .. m : a[i] = free[j]
        <4> TAKE i \in DOMAIN a
        <4>1. CASE i \in 1 .. Len(q)
          <5>1. PICK j \in 1 .. m - 1 : q[i] = free[j]
            BY <4>1, <3>2, <3>3
          <5>2. j \in 1 .. m
            BY <2>3
          <5> QED BY <4>1, <5>1, <5>2, <3>1, <3>2, <3>3
        <4>2. CASE i = Len(q) + 1
          <5>1. a[i] = free[m] /\ m \in 1 .. m
            BY <4>2, <3>1, <2>3
          <5> QED BY <5>1, <2>7
        <4> QED BY <4>1, <4>2, <3>1, <3>3
      <3>5. ASSUME \A i, j \in DOMAIN free : free[i] = free[j] => i = j,
                   NEW i \in DOMAIN a, NEW j \in DOMAIN a, a[i] = a[j]
            PROVE  i = j
        <4>1. \A k \in DOMAIN q : q[k] # free[m]
          <5> TAKE k \in DOMAIN q
          <5>1. PICK n \in 1 .. m - 1 : q[k] = free[n]
            BY <3>2
          <5>2. n # m /\ n \in DOMAIN free /\ m \in DOMAIN free
            BY <2>3, <1>0
          <5> QED BY <5>1, <5>2, <3>5
        <4>2. \A k, n \in DOMAIN q : q[k] = q[n] => k = n
          BY <2>4, <3>5 DEF q
        <4> HIDE DEF a
        <4> QED BY <4>1, <4>2, <3>1, <3>3, <3>5
      <3>6. kept[m] = a
        BY <2>5, <2>7 DEF q
      <3> HIDE DEF a
      <3>7. Sound(a, m)
        BY <3>1, <3>4, <3>5
      <3> QED BY <3>6, <3>7, <2>1
    <2> QED BY <2>6, <2>7
  <1>7. Sound(kept[Len(free)], Len(free))
    BY <1>6, <1>0
  <1> QED BY <1>4, <1>7, <1>0

-----------------------------------------------------------------------------
(* The invariant: types *)

Op == {"AddRange", "FreeMemoryMapStack", "NextEntry", "MoveEntry", "ConvertPages",
       "AllocatePoolI", "NewPool", "TakeBlock", "CarvePages", "FreePoolI", "FreePool",
       "AllocatePages", "FreePages", "BSAllocatePool"}

Frame == [op : Op, start : Nat, end : Nat, type : MemType, attr : {0, 1},
          list : 0 .. MAX_POOL_LIST, slot : PoolSlot \cup {Null}]

\* A range that callers may get: its pages exist and have the alignment of t.
Aligned(a, b, t) ==
    /\ a <= b /\ b < NPages
    /\ a % AlignmentOf(t) = 0 /\ (b - a + 1) % AlignmentOf(t) = 0

FrameOK(f) ==
    /\ f.op = "AddRange" => f.start <= f.end /\ f.end < NPages
    /\ f.op = "ConvertPages" => f.start <= f.end + 1 /\ f.end < NPages
    /\ f.op = "AllocatePages" => f.type \in AllocType /\ Aligned(f.start, f.end, f.type)
    /\ f.op \in {"AllocatePoolI", "NewPool", "TakeBlock", "CarvePages", "FreePool"} =>
          f.type \in AllocType
    /\ f.op = "CarvePages" => f.slot \in PoolSlot /\ f.slot[1] + Align <= NPages
    /\ f.op = "FreePoolI" => f.slot \in PoolSlot

Types ==
    /\ desc \in [Slot -> Entry \cup {NoEntry}]
    /\ \A s \in Linked : desc[s].start <= desc[s].end
    /\ MapDepth \in Nat /\ FreeMapStack \in BOOLEAN
    /\ carved \in [Page -> [type : AllocType \cup {Absent}, list : 0 .. MAX_POOL_LIST]]
    /\ used \subseteq PoolSlot
    /\ FreeList \in [AllocType -> [0 .. MAX_POOL_LIST - 1 -> Seq(PoolSlot)]]
    /\ PoolHeadList \in [OsType -> PoolSlot \cup {Null}]
    /\ EfiAtRuntime \in BOOLEAN /\ failed \in BOOLEAN
    /\ ret \in PoolSlot \cup {Null}
    /\ reported \in 0 .. Len(Region)
    /\ allocs \subseteq [start : Page, end : Page, type : AllocType]
    /\ \A a \in allocs : Aligned(a.start, a.end, a.type)
    /\ held \subseteq PoolSlot
    /\ todo \in Seq(Frame)
    /\ \A i \in DOMAIN todo : FrameOK(todo[i])

-----------------------------------------------------------------------------
(* The call stack *)

PoolOp == {"AllocatePoolI", "NewPool", "TakeBlock", "CarvePages"}

\* Frame f is suspended in a call whose frame is g.
Under(f, g) ==
    \/ /\ f.op = "AllocatePages"
       /\ g.op = "ConvertPages" /\ g.type = f.type /\ f.start <= g.start /\ g.end = f.end
    \/ /\ f.op = "CarvePages"
       /\ g.op = "ConvertPages" /\ g.type = f.type /\ f.slot[1] <= g.start
       /\ g.end = f.slot[1] + Align - 1
    \/ f.op \in {"FreePool", "FreePages"} /\ g.op = "ConvertPages" /\ g.type = Conv
    \/ f.op = "ConvertPages" /\ g.op \in {"FreeMemoryMapStack", "NextEntry", "MoveEntry"}
    \/ f.op = "FreeMemoryMapStack" /\ g.op = "AddRange"
    \/ /\ f.op \in {"FreeMemoryMapStack", "NextEntry", "AddRange"}
       /\ g.op = "FreePoolI" \/ (g.op = "FreePool" /\ g.type \notin OsType)
    \/ f.op = "MoveEntry" /\ g.op \in PoolOp /\ g.type = RtData
    \/ f.op = "NewPool" /\ g.op \in PoolOp /\ g.type = BsData
    \/ f.op = "BSAllocatePool" /\ g.op \in PoolOp

\* The services that are called from outside.
Bottom == {"AllocatePages", "FreePages", "BSAllocatePool", "FreePoolI", "FreePool",
           "FreeMemoryMapStack", "NextEntry", "MoveEntry"}

Shape ==
    /\ todo # <<>> => todo[1].op \in Bottom /\ ~ EfiAtRuntime
    /\ \A i \in 1 .. Len(todo) - 1 : Under(todo[i], todo[i + 1])

\* The POOL of an OS type is missing exactly while it is being made.
Heads ==
    \A i \in DOMAIN todo :
        /\ todo[i].op = "NewPool" => todo[i].type \in OsType /\ PoolHeadList[todo[i].type] = Null
        /\ todo[i].op \in {"TakeBlock", "CarvePages", "FreePool"} /\ todo[i].type \in OsType =>
              PoolHeadList[todo[i].type] # Null

\* FreeMemoryMapStack is not entered twice, and its loop finds an entry.
Movers == {i \in DOMAIN todo : todo[i].op \in {"NextEntry", "MoveEntry"}}

Moving ==
    /\ Movers # {} => FreeMapStack
    /\ \A i, j \in Movers : i = j
    /\ \A i \in Movers : todo[i].op = "MoveEntry" => MapDepth > 0

\* What the last call returned is for the function that runs now.
Returned ==
    /\ ret # Null =>
          /\ todo # <<>> /\ Last(todo).op \in {"MoveEntry", "NewPool", "BSAllocatePool"}
          /\ Last(todo).op = "MoveEntry" => carved[ret[1]].type = RtData
    /\ failed => todo # <<>> /\ Last(todo).op = "AllocatePages"

\* New pages of the pool lie in one descriptor until they are converted.
Chosen ==
    \A i \in 1 .. Len(todo) - 1 : todo[i].op = "CarvePages" =>
        \/ todo[i + 1].start = todo[i + 1].end + 1
        \/ /\ i + 1 = Len(todo) /\ todo[i + 1].start = todo[i].slot[1]
           /\ \E s \in Linked : /\ desc[s].type = Conv
                                /\ desc[s].start <= todo[i + 1].start /\ todo[i + 1].end <= desc[s].end

Calls == Shape /\ Heads /\ Moving /\ Returned /\ Chosen

-----------------------------------------------------------------------------
(* The map *)

Map ==
    /\ \A s, t \in Linked : s # t => Disjoint(desc[s], desc[t]) /\ ~ Adjoins(desc[s], desc[t])
    /\ \A s \in Linked, i \in Adding : Disjoint(desc[s], todo[i])
    /\ \A i, j \in Adding : i # j => Disjoint(todo[i], todo[j])
    /\ \A s \in Linked : s \in StackSlot => s[2] < MapDepth

Reported == \A p \in Page :
    (\E i \in 1 .. reported : Covers(Region[i], p)) <=> PageAt(p).type # Absent

-----------------------------------------------------------------------------
(* The pool *)

Homes == Linked \cap PoolSlot
Got == {ret} \ {Null}

Owners ==
    /\ used = Homes \cup held \cup Pools \cup Got \cup Freeing
    /\ Homes \cap held = {} /\ Homes \cap Pools = {} /\ Homes \cap Got = {} /\ Homes \cap Freeing = {}
    /\ held \cap Pools = {} /\ held \cap Got = {} /\ held \cap Freeing = {}
    /\ Pools \cap Got = {} /\ Pools \cap Freeing = {} /\ Got \cap Freeing = {}
    /\ \A t, u \in OsType : PoolHeadList[t] = PoolHeadList[u] /\ PoolHeadList[t] # Null => t = u
    /\ \A s \in Homes : carved[s[1]].type = RtData
    /\ Len(todo) > 1 => \A s \in Freeing : carved[s[1]].type \notin OsType

\* Every block in use is one of a carved page, and every carved page has one.
Blocks ==
    /\ \A s \in used : s \in BlocksAt(s[1])
    /\ \A p \in Page : carved[p].type = Absent => carved[p] = NotCarved
    /\ \A p \in Page : carved[p] # NotCarved => BlocksAt(p) \cap used # {}
    /\ PoolKept

OnList(s, t, l) == \E i \in DOMAIN FreeList[t][l] : FreeList[t][l][i] = s

\* A free block is not in use, and it is on one list once.
Lists ==
    /\ \A t \in AllocType, l \in Index, s \in PoolSlot : OnList(s, t, l) =>
          s \notin used /\ s \in BlocksAt(s[1]) /\ carved[s[1]].type = t
    /\ \A t \in AllocType, k, l \in Index :
          \A i \in DOMAIN FreeList[t][k], j \in DOMAIN FreeList[t][l] :
             FreeList[t][k][i] = FreeList[t][l][j] => k = l /\ i = j

Pool == Owners /\ Blocks /\ Lists

-----------------------------------------------------------------------------
(* Who has which pages *)

\* The pages the call at i of the stack has to itself: those it has converted
\* for its caller, or has still to give back.
Claims(i, p) ==
    \/ /\ todo[i].op = "ConvertPages" /\ todo[i].type = Conv
       /\ Covers(todo[i], p)
    \/ /\ todo[i].op = "AllocatePages" /\ todo[i].start <= p
       /\ IF i = Len(todo) THEN ~ failed /\ p <= todo[i].end ELSE p < todo[i + 1].start
    \/ /\ todo[i].op = "CarvePages" /\ todo[i].slot[1] <= p
       /\ IF i = Len(todo) THEN p < todo[i].slot[1] + Align ELSE p < todo[i + 1].start

InRegion(p) == \E i \in DOMAIN Region : Region[i].type # Conv /\ Covers(Region[i], p)
InPool(q, p) == carved[q] # NotCarved /\ q <= p /\ p < q + Align
InAlloc(a, p) == a.start <= p /\ p <= a.end

\* No page has two owners.
OnePageOwner ==
    /\ \A p \in Page : carved[p] # NotCarved => p + Align <= NPages
    /\ \A a, b \in allocs, p \in Page : InAlloc(a, p) /\ InAlloc(b, p) => a = b
    /\ \A q, r, p \in Page : InPool(q, p) /\ InPool(r, p) => q = r
    /\ \A a \in allocs, q, p \in Page : ~ (InAlloc(a, p) /\ InPool(q, p))
    /\ \A p \in Page : InRegion(p) =>
          (\A a \in allocs : ~ InAlloc(a, p)) /\ (\A q \in Page : ~ InPool(q, p))
    /\ \A i \in DOMAIN todo, p \in Page : Claims(i, p) =>
          /\ ~ InRegion(p)
          /\ \A a \in allocs : ~ InAlloc(a, p)
          /\ \A q \in Page : ~ InPool(q, p)
    /\ \A i, j \in DOMAIN todo, p \in Page : Claims(i, p) /\ Claims(j, p) => i = j

\* A page has the type its owner asked for.
PageTypes ==
    /\ \A a \in allocs, p \in Page : InAlloc(a, p) => PageAt(p).type = a.type
    /\ \A q, p \in Page : InPool(q, p) => PageAt(p).type = carved[q].type
    /\ \A p \in Page : InRegion(p) => PageAt(p).type # Conv
    /\ \A i \in DOMAIN todo, p \in Page : Claims(i, p) =>
          /\ PageAt(p).type \notin {Conv, Absent}
          /\ todo[i].op # "ConvertPages" => PageAt(p).type = todo[i].type

\* A page that is being added with a type of its own has an owner that does not
\* give it back, further down the call stack.
AddedFor ==
    \A i \in Adding, p \in Page : Covers(todo[i], p) /\ todo[i].type # Conv =>
        InRegion(p) \/ \E j \in DOMAIN todo : j < i /\ todo[j].op # "ConvertPages" /\ Claims(j, p)

\* Pages of an AllocatePages that has failed.
Spoiled(p) ==
    /\ failed /\ todo # <<>>
    /\ Last(todo).start <= p /\ p <= Last(todo).end /\ PageAt(p).type = Last(todo).type

\* Memory that is not free is somebody's, or lost.
NoLeak ==
    \A p \in Page : PageAt(p).type \notin {Conv, Absent} =>
        \/ p \in Owned \cup lost
        \/ \E i \in DOMAIN todo : Claims(i, p)
        \/ Spoiled(p)

Pages4 == OnePageOwner /\ PageTypes /\ AddedFor /\ NoLeak

Keys == (snap # NoMap => reported = Len(Region) /\ snap = MemoryMap) /\ (EfiAtRuntime => snap # NoMap)

IInv == Types /\ Calls /\ Map /\ Reported /\ Pool /\ Pages4 /\ Keys

-----------------------------------------------------------------------------
(* The call stack *)

LEMMA CallFacts ==
    ASSUME NEW o \in Op
    PROVE  /\ Call(o) \in Frame
           /\ Call(o).op = o /\ Call(o).start = 0 /\ Call(o).end = 0 /\ Call(o).type = Conv
           /\ Call(o).attr = 0 /\ Call(o).list = 0 /\ Call(o).slot = Null
  <1>1. 0 \in 0 .. MAX_POOL_LIST /\ Conv \in MemType /\ 0 \in Nat /\ 0 \in {0, 1} /\ Null \in PoolSlot \cup {Null}
    BY PagesAssumption DEF MemType
  <1> QED BY <1>1, Zenon DEF Call, Frame

LEMMA FrameFacts ==
    ASSUME NEW f \in Frame
    PROVE  /\ f.op \in Op /\ f.start \in Nat /\ f.end \in Nat /\ f.type \in MemType
           /\ f.attr \in {0, 1} /\ f.list \in 0 .. MAX_POOL_LIST /\ f.slot \in PoolSlot \cup {Null}
  BY DEF Frame

LEMMA DoConvertFacts ==
    ASSUME NEW a \in Nat, NEW b \in Nat, NEW t \in MemType
    PROVE  /\ DoConvert(a, b, t) \in Frame
           /\ DoConvert(a, b, t).op = "ConvertPages" /\ DoConvert(a, b, t).start = a
           /\ DoConvert(a, b, t).end = b /\ DoConvert(a, b, t).type = t
  <1> DEFINE f == Call("ConvertPages")
             g == DoConvert(a, b, t)
  <1>1. "ConvertPages" \in Op
    BY DEF Op
  <1>2. f \in Frame /\ f.op = "ConvertPages"
    BY <1>1, CallFacts, Zenon
  <1>3. g = [f EXCEPT !.start = a, !.end = b, !.type = t]
    BY DEF DoConvert
  <1> HIDE DEF f
  <1> QED BY <1>2, <1>3, Zenon DEF Frame

LEMMA DoAddFacts ==
    ASSUME NEW a \in Nat, NEW b \in Nat, NEW t \in MemType, NEW at \in {0, 1}
    PROVE  /\ DoAdd(a, b, t, at) \in Frame
           /\ DoAdd(a, b, t, at).op = "AddRange" /\ DoAdd(a, b, t, at).start = a
           /\ DoAdd(a, b, t, at).end = b /\ DoAdd(a, b, t, at).type = t /\ DoAdd(a, b, t, at).attr = at
  <1> DEFINE f == Call("AddRange")
             g == DoAdd(a, b, t, at)
  <1>1. "AddRange" \in Op
    BY DEF Op
  <1>2. f \in Frame /\ f.op = "AddRange"
    BY <1>1, CallFacts, Zenon
  <1>3. g = [f EXCEPT !.start = a, !.end = b, !.type = t, !.attr = at]
    BY DEF DoAdd
  <1> HIDE DEF f
  <1> QED BY <1>2, <1>3, Zenon DEF Frame

LEMMA DoAllocFacts ==
    ASSUME NEW t \in MemType, NEW l \in 0 .. MAX_POOL_LIST
    PROVE  /\ DoAlloc(t, l) \in Frame
           /\ DoAlloc(t, l).op = "AllocatePoolI" /\ DoAlloc(t, l).type = t /\ DoAlloc(t, l).list = l
  <1> DEFINE f == Call("AllocatePoolI")
             g == DoAlloc(t, l)
  <1>1. "AllocatePoolI" \in Op
    BY DEF Op
  <1>2. f \in Frame /\ f.op = "AllocatePoolI"
    BY <1>1, CallFacts, Zenon
  <1>3. g = [f EXCEPT !.type = t, !.list = l]
    BY DEF DoAlloc
  <1> HIDE DEF f
  <1> QED BY <1>2, <1>3, Zenon DEF Frame

LEMMA DoFreeFacts ==
    ASSUME NEW s \in PoolSlot \cup {Null}
    PROVE  DoFree(s) \in Frame /\ DoFree(s).op = "FreePoolI" /\ DoFree(s).slot = s
  <1> DEFINE f == Call("FreePoolI")
             g == DoFree(s)
  <1>1. "FreePoolI" \in Op
    BY DEF Op
  <1>2. f \in Frame /\ f.op = "FreePoolI"
    BY <1>1, CallFacts, Zenon
  <1>3. g = [f EXCEPT !.slot = s]
    BY DEF DoFree
  <1> HIDE DEF f
  <1> QED BY <1>2, <1>3, Zenon DEF Frame

\* A frame with another operation.
LEMMA AsFacts ==
    ASSUME NEW f \in Frame, NEW o \in Op, NEW g, g = [f EXCEPT !.op = o]
    PROVE  /\ g \in Frame
           /\ g.op = o /\ g.start = f.start /\ g.end = f.end /\ g.type = f.type
           /\ g.list = f.list /\ g.slot = f.slot
  BY Zenon DEF Frame

CarveFrame(f, s) == [f EXCEPT !.op = "CarvePages", !.slot = s]

LEMMA CarveFrameFacts ==
    ASSUME NEW f \in Frame, NEW s \in PoolSlot \cup {Null}
    PROVE  /\ CarveFrame(f, s) \in Frame /\ CarveFrame(f, s).op = "CarvePages"
           /\ CarveFrame(f, s).slot = s /\ CarveFrame(f, s).type = f.type /\ CarveFrame(f, s).list = f.list
  <1>1. "CarvePages" \in Op
    BY DEF Op
  <1>g. PICK g : g = [f EXCEPT !.op = "CarvePages", !.slot = s]
    OBVIOUS
  <1>2. g \in Frame /\ g.op = "CarvePages" /\ g.slot = s /\ g.type = f.type /\ g.list = f.list
    BY <1>1, <1>g, Zenon DEF Frame
  <1> QED BY <1>2, <1>g DEF CarveFrame

LEMMA StartFacts ==
    ASSUME NEW f \in Frame, NEW n \in Nat, NEW g, g = [f EXCEPT !.start = n]
    PROVE  /\ g \in Frame
           /\ g.op = f.op /\ g.start = n /\ g.end = f.end /\ g.type = f.type
  BY Zenon DEF Frame

LEMMA FreePoolFacts ==
    ASSUME NEW t \in MemType, NEW g, g = [Call("FreePool") EXCEPT !.type = t]
    PROVE  g \in Frame /\ g.op = "FreePool" /\ g.type = t
  <1> DEFINE f == Call("FreePool")
  <1>1. "FreePool" \in Op
    BY DEF Op
  <1>2. f \in Frame /\ f.op = "FreePool"
    BY <1>1, CallFacts, Zenon
  <1> HIDE DEF f
  <1> QED BY <1>2, Zenon DEF Frame, f

LEMMA Seq1 ==
    ASSUME NEW S, NEW x \in S
    PROVE  <<x>> \in Seq(S) /\ Len(<<x>>) = 1 /\ <<x>>[1] = x
  OBVIOUS

LEMMA Seq2 ==
    ASSUME NEW S, NEW x \in S, NEW y \in S
    PROVE  <<x, y>> \in Seq(S) /\ Len(<<x, y>>) = 2 /\ <<x, y>>[1] = x /\ <<x, y>>[2] = y
  OBVIOUS

LEMMA Seq3 ==
    ASSUME NEW S, NEW x \in S, NEW y \in S, NEW z \in S
    PROVE  /\ <<x, y, z>> \in Seq(S) /\ Len(<<x, y, z>>) = 3
           /\ <<x, y, z>>[1] = x /\ <<x, y, z>>[2] = y /\ <<x, y, z>>[3] = z
  OBVIOUS

\* The last element of q is replaced by the elements of c.
After(g, q, c) ==
    /\ q # <<>> /\ g \in Seq(Frame) /\ q \in Seq(Frame) /\ c \in Seq(Frame)
    /\ Len(q) \in Nat \ {0} /\ Len(c) \in Nat /\ Len(g) = Len(q) - 1 + Len(c)
    /\ DOMAIN q = 1 .. Len(q) /\ DOMAIN c = 1 .. Len(c) /\ DOMAIN g = 1 .. Len(g)
    /\ \A i \in 1 .. Len(q) - 1 : g[i] = q[i]
    /\ \A i \in 1 .. Len(c) : g[Len(q) - 1 + i] = c[i]
    /\ \A i \in DOMAIN g : \/ i \in 1 .. Len(q) - 1
                           \/ \E k \in 1 .. Len(c) : i = Len(q) - 1 + k
    /\ Last(q) = q[Len(q)]

LEMMA GotoFacts ==
    ASSUME NEW c \in Seq(Frame), NEW q \in Seq(Frame), q # <<>>, NEW g, g = Front(q) \o c
    PROVE  After(g, q, c)
  <1> DEFINE n == Len(q)
             m == Len(c)
             f == Front(q)
  <1>1. n \in Nat \ {0} /\ m \in Nat /\ DOMAIN q = 1 .. n /\ DOMAIN c = 1 .. m
    BY EmptySeq, LenProperties
  <1>3. f \in Seq(Frame) /\ Len(f) = n - 1 /\ \A i \in 1 .. n - 1 : f[i] = q[i]
    <2>1. f = SubSeq(q, 1, n - 1)
      BY DEF Front
    <2>2. 1 \in Nat /\ n - 1 \in Nat /\ n - 1 <= Len(q)
      BY <1>1
    <2> QED BY <2>1, <2>2, <1>1, SubSeqProperties
  <1>9. g = f \o c
    OBVIOUS
  <1> HIDE DEF f
  <1>4. /\ g \in Seq(Frame) /\ Len(g) = n - 1 + m
        /\ \A i \in 1 .. n - 1 + m : g[i] = IF i <= n - 1 THEN f[i] ELSE c[i - (n - 1)]
    <2>1. /\ f \o c \in Seq(Frame) /\ Len(f \o c) = Len(f) + Len(c)
          /\ \A i \in 1 .. Len(f) + Len(c) : (f \o c)[i] = IF i <= Len(f) THEN f[i] ELSE c[i - Len(f)]
      BY <1>3, ConcatProperties, Zenon
    <2>2. Len(f) = n - 1 /\ Len(c) = m
      BY <1>3
    <2> QED BY <2>1, <2>2, <1>9, Zenon
  <1> HIDE DEF n, m
  <1>5. \A i \in 1 .. n - 1 : g[i] = q[i]
    BY <1>1, <1>3, <1>4
  <1>6. \A i \in 1 .. m : g[n - 1 + i] = c[i]
    <2> TAKE i \in 1 .. m
    <2>2. \A j \in 1 .. n - 1 + m : ~ (j <= n - 1) => g[j] = c[j - (n - 1)]
      BY <1>4, Zenon
    <2> DEFINE j == n - 1 + i
    <2>3. j \in 1 .. n - 1 + m /\ ~ (j <= n - 1) /\ j - (n - 1) = i
      BY <1>1
    <2> HIDE DEF j
    <2>4. g[j] = c[i]
      BY <2>2, <2>3, Zenon
    <2> QED BY <2>4 DEF j
  <1>7. Last(q) = q[n]
    BY DEF Last, n
  <1>8. DOMAIN g = 1 .. Len(g) /\ Len(g) = n - 1 + m
    BY <1>4, LenProperties
  <1>10. \A i \in 1 .. n - 1 + m : i \in 1 .. n - 1 \/ \E k \in 1 .. m : i = n - 1 + k
    <2> TAKE i \in 1 .. n - 1 + m
    <2>1. CASE i > n - 1
      <3>1. i - (n - 1) \in 1 .. m /\ i = n - 1 + (i - (n - 1))
        BY <2>1, <1>1
      <3> QED BY <3>1
    <2>2. CASE ~ (i > n - 1)
      BY <2>2, <1>1
    <2> QED BY <2>1, <2>2
  <1>11. \A i \in DOMAIN g : i \in 1 .. n - 1 \/ \E k \in 1 .. m : i = n - 1 + k
    BY <1>8, <1>10, Zenon
  <1> QED BY <1>1, <1>4, <1>5, <1>6, <1>7, <1>8, <1>11, Zenon DEF After, n, m

-----------------------------------------------------------------------------
(* The map *)

Known(p) ==
    /\ \A s \in Linked : Covers(desc[s], p) =>
          PageAt(p) = [type |-> desc[s].type, attr |-> desc[s].attr]
    /\ \A i \in Adding : Covers(todo[i], p) =>
          PageAt(p) = [type |-> todo[i].type, attr |-> todo[i].attr]
    /\ (\A s \in Linked : ~ Covers(desc[s], p)) /\ (\A i \in Adding : ~ Covers(todo[i], p)) =>
          PageAt(p) = [type |-> Absent, attr |-> 0]

AllKnown == \A p \in Page : Known(p)

Typing == desc \in [Slot -> Entry \cup {NoEntry}] /\ todo \in Seq(Frame)

LEMMA EntryFacts ==
    ASSUME desc \in [Slot -> Entry \cup {NoEntry}], NEW s \in Linked
    PROVE  /\ s \in Slot /\ desc[s] \in Entry /\ desc[s].type \in MemType /\ desc[s].attr \in {0, 1}
           /\ desc[s].start \in Nat /\ desc[s].end \in Nat
           /\ desc[s].start < NPages /\ desc[s].end < NPages
  <1>1. desc[s] # NoEntry
    BY DEF Linked, NoEntry
  <1>2. s \in Slot /\ desc[s] \in Entry
    BY <1>1 DEF Linked
  <1> QED BY <1>2, PagesAssumption DEF Entry, Page

\* One descriptor or one pending range covers a page, and says what it is.
LEMMA PageAtFacts ==
    Typing /\ Map => AllKnown
  <1> SUFFICES ASSUME Typing, Map, NEW p \in Page
               PROVE  Known(p)
    BY DEF AllKnown
  <1>0. p \in Nat
    BY PagesAssumption DEF Page
  <1>1. \A s \in Linked : desc[s].start \in Nat /\ desc[s].end \in Nat
    BY EntryFacts DEF Typing
  <1>2. \A i \in Adding : todo[i].start \in Nat /\ todo[i].end \in Nat
    BY FrameFacts DEF Typing, Adding
  <1>3. \A s, t \in Linked : Covers(desc[s], p) /\ Covers(desc[t], p) => s = t
    BY <1>0, <1>1 DEF Map, Disjoint, Covers
  <1>4. \A s \in Linked, i \in Adding : ~ (Covers(desc[s], p) /\ Covers(todo[i], p))
    BY <1>0, <1>1, <1>2 DEF Map, Disjoint, Covers
  <1>5. \A i, j \in Adding : Covers(todo[i], p) /\ Covers(todo[j], p) => i = j
    BY <1>0, <1>2 DEF Map, Disjoint, Covers
  <1>6. ASSUME NEW s \in Linked, Covers(desc[s], p)
        PROVE  PageAt(p) = [type |-> desc[s].type, attr |-> desc[s].attr]
    <2>1. (CHOOSE t \in Linked : Covers(desc[t], p)) = s
      BY <1>3, <1>6
    <2> QED BY <1>6, <2>1 DEF PageAt
  <1>7. ASSUME NEW i \in Adding, Covers(todo[i], p)
        PROVE  PageAt(p) = [type |-> todo[i].type, attr |-> todo[i].attr]
    <2>1. (CHOOSE j \in Adding : Covers(todo[j], p)) = i
      BY <1>5, <1>7
    <2>2. ~ \E s \in Linked : Covers(desc[s], p)
      BY <1>4, <1>7
    <2> QED BY <1>7, <2>1, <2>2 DEF PageAt
  <1>8. ASSUME \A s \in Linked : ~ Covers(desc[s], p), \A i \in Adding : ~ Covers(todo[i], p)
        PROVE  PageAt(p) = [type |-> Absent, attr |-> 0]
    BY <1>8 DEF PageAt
  <1> QED BY <1>6, <1>7, <1>8 DEF Known

LEMMA PageAtFactsPrime ==
    Typing' /\ Map' => AllKnown'
  BY PageAtFacts, PTL

\* A step that neither touches a descriptor nor a pending range.
LEMMA MapKept ==
    ASSUME Typing, Typing', Map, Reported,
           desc' = desc, reported' = reported,
           \A s \in Linked : s \in StackSlot => s[2] < MapDepth',
           Adding' = Adding, \A i \in Adding : todo'[i] = todo[i]
    PROVE  /\ Map' /\ Reported' /\ Linked' = Linked
           /\ \A p \in Page : PageAt(p)' = PageAt(p)
           /\ MemoryMap' = MemoryMap
  <1>1. Linked' = Linked
    BY DEF Linked
  <1>2. Map'
    BY <1>1 DEF Map, Disjoint, Adjoins
  <1>3. AllKnown /\ AllKnown'
    BY <1>2, PageAtFacts, PageAtFactsPrime
  <1>4. ASSUME NEW p \in Page
        PROVE  PageAt(p)' = PageAt(p)
    <2>1. Known(p) /\ Known(p)'
      BY <1>3 DEF AllKnown
    <2>2. CASE \E s \in Linked : Covers(desc[s], p)
      BY <2>1, <2>2, <1>1 DEF Known, Covers
    <2>3. CASE \E i \in Adding : Covers(todo[i], p)
      BY <2>1, <2>3 DEF Known, Covers
    <2>4. CASE (\A s \in Linked : ~ Covers(desc[s], p)) /\ (\A i \in Adding : ~ Covers(todo[i], p))
      BY <2>1, <2>4, <1>1 DEF Known, Covers
    <2> QED BY <2>2, <2>3, <2>4
  <1>5. Reported'
    BY <1>4 DEF Reported
  <1>6. MemoryMap' = MemoryMap
    BY <1>4 DEF MemoryMap
  <1> QED BY <1>1, <1>2, <1>4, <1>5, <1>6

-----------------------------------------------------------------------------
(* The call stack over a step *)

FreeingOf == Freeing = IF todo # <<>> /\ Last(todo).op = "FreePoolI" THEN {Last(todo).slot} ELSE {}

\* FreePoolI calls nobody, so that only the running function can be one.
LEMMA FreeingFacts == Typing /\ Shape => FreeingOf
  <1> SUFFICES ASSUME Typing, Shape PROVE FreeingOf
    OBVIOUS
  <1>0. Len(todo) \in Nat /\ DOMAIN todo = 1 .. Len(todo)
    BY DEF Typing
  <1>1. \A i \in 1 .. Len(todo) - 1 : todo[i].op # "FreePoolI"
    BY DEF Shape, Under
  <1>2. CASE todo = <<>>
    BY <1>2 DEF FreeingOf, Freeing
  <1>3. CASE todo # <<>>
    <2>1. Len(todo) > 0 /\ Last(todo) = todo[Len(todo)]
      BY <1>3, <1>0, EmptySeq DEF Last, Typing
    <2>2. \A i \in DOMAIN todo : todo[i].op = "FreePoolI" => i = Len(todo)
      BY <1>0, <1>1
    <2> QED BY <2>1, <2>2, <1>0, <1>3 DEF FreeingOf, Freeing
  <1> QED BY <1>2, <1>3

LEMMA FreeingFactsPrime == Typing' /\ Shape' => FreeingOf'
  BY FreeingFacts, PTL

LEMMA TopFacts ==
    ASSUME Types, NEW o, Running(o), NEW n, n = Len(todo)
    PROVE  /\ todo \in Seq(Frame) /\ todo # <<>> /\ n \in Nat \ {0} /\ DOMAIN todo = 1 .. n
           /\ Last(todo) = todo[n] /\ todo[n].op = o /\ todo[n] \in Frame /\ FrameOK(todo[n])
  <1>1. todo \in Seq(Frame) /\ todo # <<>> /\ \A i \in DOMAIN todo : FrameOK(todo[i])
    BY DEF Types, Running
  <1>2. n \in Nat \ {0} /\ DOMAIN todo = 1 .. n
    BY <1>1, EmptySeq, LenProperties
  <1>3. Last(todo) = todo[n]
    BY DEF Last
  <1> QED BY <1>1, <1>2, <1>3 DEF Running

\* The running function is replaced by the calls c.
Replaced(c) == After(todo', todo, c)

LEMMA ReplacedFacts ==
    ASSUME Types, todo # <<>>, NEW c \in Seq(Frame), Goto(c)
    PROVE  Replaced(c)
  <1>1. todo \in Seq(Frame) /\ todo' = Front(todo) \o c
    BY DEF Types, Goto
  <1> QED BY <1>1, GotoFacts DEF Replaced

LEMMA StackTypes ==
    ASSUME Types, NEW c, Replaced(c), \A k \in 1 .. Len(c) : FrameOK(c[k])
    PROVE  todo' \in Seq(Frame) /\ \A i \in DOMAIN todo' : FrameOK(todo'[i])
  <1>0. (\A i \in DOMAIN todo : FrameOK(todo[i])) /\ DOMAIN todo = 1 .. Len(todo) /\ Len(todo) \in Nat
    BY DEF Types, Replaced, After
  <1>1. \A i \in 1 .. Len(todo) - 1 : FrameOK(todo[i])
    BY <1>0
  <1> QED BY <1>1 DEF Replaced, After

LEMMA ShapeKept ==
    ASSUME Shape, NEW c, Replaced(c), EfiAtRuntime' = EfiAtRuntime,
           Len(c) > 0 /\ Len(todo) = 1 => c[1].op \in Bottom,
           Len(c) > 0 /\ Len(todo) > 1 => Under(todo[Len(todo) - 1], c[1]),
           \A k \in 1 .. Len(c) - 1 : Under(c[k], c[k + 1])
    PROVE  Shape'
  <1> DEFINE n == Len(todo)
             m == Len(c)
  <1>0. /\ n \in Nat \ {0} /\ m \in Nat /\ Len(todo') = n - 1 + m
        /\ \A i \in 1 .. n - 1 : todo'[i] = todo[i]
        /\ \A i \in 1 .. m : todo'[n - 1 + i] = c[i]
        /\ todo # <<>> /\ todo' \in Seq(Frame)
    BY DEF Replaced, After
  <1>a. /\ m > 0 /\ n = 1 => c[1].op \in Bottom
        /\ m > 0 /\ n > 1 => Under(todo[n - 1], c[1])
        /\ \A k \in 1 .. m - 1 : Under(c[k], c[k + 1])
        /\ todo[1].op \in Bottom /\ ~ EfiAtRuntime
        /\ \A i \in 1 .. n - 1 : Under(todo[i], todo[i + 1])
    BY <1>0 DEF Shape
  <1> HIDE DEF n, m
  <1>1. ASSUME todo' # <<>> PROVE todo'[1].op \in Bottom /\ ~ EfiAtRuntime'
    <2>1. Len(todo') > 0
      BY <1>0, <1>1, EmptySeq, LenProperties
    <2>2. CASE n > 1
      <3>1. 1 \in 1 .. n - 1
        BY <2>2, <1>0
      <3> QED BY <3>1, <1>0, <1>a
    <2>3. CASE n = 1
      <3>1. m > 0 /\ 1 \in 1 .. m /\ n - 1 + 1 = 1
        BY <2>1, <2>3, <1>0
      <3>2. todo'[1] = c[1]
        <4>1. todo'[n - 1 + 1] = c[1]
          BY <3>1, <1>0
        <4> QED BY <4>1, <3>1
      <3> QED BY <3>1, <3>2, <2>3, <1>a
    <2> QED BY <2>2, <2>3, <1>0
  <1>2. ASSUME NEW i \in 1 .. Len(todo') - 1 PROVE Under(todo'[i], todo'[i + 1])
    <2>1. CASE i + 1 <= n - 1
      <3>1. i \in 1 .. n - 1 /\ i + 1 \in 1 .. n - 1
        BY <2>1, <1>0
      <3> QED BY <3>1, <1>0, <1>a
    <2>2. CASE i = n - 1
      <3>1. i \in 1 .. n - 1 /\ n > 1 /\ m > 0 /\ 1 \in 1 .. m /\ i + 1 = n - 1 + 1
        BY <2>2, <1>0
      <3>2. todo'[i] = todo[n - 1] /\ todo'[i + 1] = c[1]
        BY <3>1, <2>2, <1>0
      <3> QED BY <3>1, <3>2, <1>a
    <2>3. CASE i >= n
      <3> DEFINE k == i - (n - 1)
      <3>1. k \in 1 .. m - 1 /\ k \in 1 .. m /\ k + 1 \in 1 .. m /\ i = n - 1 + k /\ i + 1 = n - 1 + (k + 1)
        BY <2>3, <1>0
      <3>2. todo'[i] = c[k] /\ todo'[i + 1] = c[k + 1]
        BY <3>1, <1>0
      <3> QED BY <3>1, <3>2, <1>a
    <2> QED BY <2>1, <2>2, <2>3, <1>0
  <1> QED BY <1>1, <1>2 DEF Shape

LEMMA HeadsKept ==
    ASSUME Heads, NEW c, Replaced(c), PoolHeadList' = PoolHeadList,
           \A k \in 1 .. Len(c) :
              /\ c[k].op = "NewPool" => c[k].type \in OsType /\ PoolHeadList[c[k].type] = Null
              /\ c[k].op \in {"TakeBlock", "CarvePages", "FreePool"} /\ c[k].type \in OsType =>
                    PoolHeadList[c[k].type] # Null
    PROVE  Heads'
  <1> SUFFICES ASSUME NEW i \in DOMAIN todo'
               PROVE  /\ todo'[i].op = "NewPool" => todo'[i].type \in OsType /\ PoolHeadList[todo'[i].type] = Null
                      /\ todo'[i].op \in {"TakeBlock", "CarvePages", "FreePool"} /\ todo'[i].type \in OsType =>
                            PoolHeadList[todo'[i].type] # Null
    BY DEF Heads
  <1>1. CASE i \in 1 .. Len(todo) - 1
    <2>1. todo'[i] = todo[i]
      BY <1>1 DEF Replaced, After
    <2>2. DOMAIN todo = 1 .. Len(todo) /\ Len(todo) \in Nat
      BY DEF Replaced, After
    <2>3. i \in DOMAIN todo
      BY <1>1, <2>2
    <2> QED BY <2>1, <2>3 DEF Heads
  <1>2. CASE \E k \in 1 .. Len(c) : i = Len(todo) - 1 + k
    <2>1. PICK k \in 1 .. Len(c) : todo'[i] = c[k]
      BY <1>2 DEF Replaced, After
    <2> QED BY <2>1
  <1> QED BY <1>1, <1>2 DEF Replaced, After

MoveOp == {"NextEntry", "MoveEntry"}

LEMMA MovingKept ==
    ASSUME Moving, NEW c, Replaced(c), MapDepth \in Nat, MapDepth' \in Nat, MapDepth <= MapDepth',
           FreeMapStack' = FreeMapStack, \A k \in 1 .. Len(c) : c[k].op \notin MoveOp
    PROVE  Moving'
  <1>1. \A i \in Movers' : i \in Movers /\ todo'[i] = todo[i]
    <2> TAKE i \in Movers'
    <2>1. i \in DOMAIN todo' /\ todo'[i].op \in MoveOp
      BY DEF Movers, MoveOp
    <2>2. i \in 1 .. Len(todo) - 1
      BY <2>1 DEF Replaced, After
    <2> QED BY <2>1, <2>2 DEF Replaced, After, Movers, MoveOp
  <1>2. Movers' # {} => FreeMapStack'
    BY <1>1 DEF Moving
  <1>3. \A i, j \in Movers' : i = j
    BY <1>1 DEF Moving
  <1>4. \A i \in Movers' : todo'[i].op = "MoveEntry" => MapDepth' > 0
    BY <1>1 DEF Moving
  <1> QED BY <1>2, <1>3, <1>4 DEF Moving

\* The one mover goes on.
LEMMA MovingOn ==
    ASSUME NEW c, Replaced(c), FreeMapStack', \A i \in 1 .. Len(todo) - 1 : todo[i].op \notin MoveOp,
           Len(c) > 0, c[1].op \in MoveOp, c[1].op = "MoveEntry" => MapDepth' > 0,
           \A k \in 2 .. Len(c) : c[k].op \notin MoveOp
    PROVE  Moving'
  <1>1. \A i \in Movers' : i = Len(todo) /\ todo'[i] = c[1]
    <2> TAKE i \in Movers'
    <2>1. i \in DOMAIN todo' /\ todo'[i].op \in MoveOp
      BY DEF Movers, MoveOp
    <2>2. i \notin 1 .. Len(todo) - 1
      BY <2>1 DEF Replaced, After
    <2>3. PICK k \in 1 .. Len(c) : i = Len(todo) - 1 + k /\ todo'[i] = c[k]
      BY <2>1, <2>2 DEF Replaced, After
    <2>4. Len(c) \in Nat /\ Len(todo) \in Nat
      BY DEF Replaced, After
    <2>5. k = 1
      <3> SUFFICES ASSUME k # 1 PROVE FALSE
        OBVIOUS
      <3>1. k \in 2 .. Len(c)
        BY <2>4
      <3> QED BY <3>1, <2>1, <2>3
    <2> QED BY <2>3, <2>4, <2>5
  <1>2. \A i, j \in Movers' : i = j
    BY <1>1
  <1>3. \A i \in Movers' : todo'[i].op = "MoveEntry" => MapDepth' > 0
    BY <1>1
  <1> QED BY <1>2, <1>3 DEF Moving

\* Only the call of ConvertPages is made from CarvePages.
LEMMA ChosenKept ==
    ASSUME Shape, Chosen, NEW c, Replaced(c),
           Last(todo).op # "ConvertPages", \A k \in 1 .. Len(c) : c[k].op # "CarvePages"
    PROVE  Chosen'
  <1> DEFINE n == Len(todo)
  <1>0. n \in Nat \ {0} /\ Last(todo) = todo[n] /\ Len(c) \in Nat /\ Len(todo') = n - 1 + Len(c)
    BY DEF Replaced, After, Last
  <1> SUFFICES ASSUME NEW i \in 1 .. Len(todo') - 1, todo'[i].op = "CarvePages"
               PROVE  todo'[i + 1].start = todo'[i + 1].end + 1
    BY DEF Chosen
  <1>1. i \in DOMAIN todo'
    BY <1>0 DEF Replaced, After
  <1>2. i \in 1 .. n - 1 /\ todo'[i] = todo[i]
    BY <1>1 DEF Replaced, After
  <1>3. CASE i = n - 1
    <2>1. Under(todo[i], todo[n])
      BY <1>2, <1>3, <1>0 DEF Shape
    <2> QED BY <2>1, <1>0, <1>2 DEF Under
  <1>4. CASE i # n - 1
    <2>1. i + 1 \in 1 .. n - 1 /\ i + 1 # n
      BY <1>2, <1>4, <1>0
    <2>2. todo'[i + 1] = todo[i + 1]
      BY <2>1 DEF Replaced, After
    <2> QED BY <2>1, <2>2, <1>2, <1>0 DEF Chosen
  <1> QED BY <1>3, <1>4

LEMMA AddingKept ==
    ASSUME NEW c, Replaced(c), Last(todo).op # "AddRange", \A k \in 1 .. Len(c) : c[k].op # "AddRange"
    PROVE  Adding' = Adding /\ \A i \in Adding : todo'[i] = todo[i]
  <1> DEFINE n == Len(todo)
  <1>0. n \in Nat \ {0} /\ Last(todo) = todo[n]
    BY DEF Replaced, After, Last
  <1>1. \A i \in Adding : i \in 1 .. n - 1
    BY <1>0 DEF Replaced, After, Adding
  <1>2. \A i \in Adding' : i \in 1 .. n - 1
    BY <1>0 DEF Replaced, After, Adding
  <1>3. \A i \in 1 .. n - 1 : todo'[i] = todo[i] /\ i \in DOMAIN todo /\ i \in DOMAIN todo'
    BY <1>0 DEF Replaced, After
  <1>4. \A i \in 1 .. n - 1 : i \in Adding <=> i \in Adding'
    BY <1>3 DEF Adding
  <1> QED BY <1>1, <1>2, <1>3, <1>4

-----------------------------------------------------------------------------
(* The pages over a step *)

ClaimOp == {"ConvertPages", "AllocatePages", "CarvePages"}

SameClaims ==
    /\ \A i \in DOMAIN todo', p \in Page : Claims(i, p)' =>
          i \in DOMAIN todo /\ Claims(i, p) /\ todo'[i].op = todo[i].op /\ todo'[i].type = todo[i].type
    /\ \A i \in DOMAIN todo, p \in Page : Claims(i, p) =>
          i \in DOMAIN todo' /\ Claims(i, p)' /\ todo'[i].op = todo[i].op

\* The new calls have no pages yet.
NoNewClaims == \A i \in DOMAIN todo', p \in Page : i \notin 1 .. Len(todo) - 1 => ~ Claims(i, p)'

LEMMA ClaimsNone ==
    ASSUME Shape, NEW c, Replaced(c), Last(todo).op \notin ClaimOp,
           NoNewClaims
    PROVE  SameClaims
  <1> DEFINE n == Len(todo)
  <1>0. /\ n \in Nat \ {0} /\ Last(todo) = todo[n] /\ DOMAIN todo = 1 .. n
        /\ Len(c) \in Nat /\ Len(todo') = n - 1 + Len(c) /\ DOMAIN todo' = 1 .. Len(todo')
        /\ \A i \in 1 .. n - 1 : todo'[i] = todo[i]
        /\ \A i \in 1 .. Len(c) : todo'[n - 1 + i] = c[i]
        /\ \A i \in DOMAIN todo' : \/ i \in 1 .. n - 1
                                   \/ \E k \in 1 .. Len(c) : i = n - 1 + k
    BY DEF Replaced, After
  <1>a. \A i \in 1 .. n - 1 : Under(todo[i], todo[i + 1])
    BY DEF Shape
  <1> HIDE DEF n
  <1>1. \A i \in DOMAIN todo', p \in Page : Claims(i, p)' => i \in 1 .. n - 1
    BY DEF NoNewClaims, n
  <1>2. \A i \in DOMAIN todo, p \in Page : Claims(i, p) => i \in 1 .. n - 1
    <2> SUFFICES ASSUME NEW p \in Page, Claims(n, p)
                 PROVE  FALSE
      BY <1>0
    <2> QED BY <1>0 DEF Claims, ClaimOp
  <1>3. ASSUME NEW i \in 1 .. n - 1, NEW p \in Page
        PROVE  Claims(i, p)' <=> Claims(i, p)
    <2>1. todo'[i] = todo[i]
      BY <1>0
    <2>2. CASE i = n - 1
      <3>1. Under(todo[i], todo[n])
        BY <2>2, <1>0, <1>a
      <3>2. todo[i].op \notin {"AllocatePages", "CarvePages"}
        BY <3>1, <1>0 DEF Under, ClaimOp
      <3> QED BY <2>1, <3>2 DEF Claims, Covers
    <2>3. CASE i # n - 1
      <3>0. n \in Nat \ {0} /\ Len(c) \in Nat /\ Len(todo') = n - 1 + Len(c)
        BY <1>0
      <3>1. i + 1 \in 1 .. n - 1 /\ i # n /\ i # Len(todo')
        BY <2>3, <3>0
      <3>2. todo'[i + 1] = todo[i + 1]
        BY <3>1, <1>0
      <3> QED BY <2>1, <3>1, <3>2 DEF Claims, Covers, n
    <2> QED BY <2>2, <2>3
  <1>4. \A i \in 1 .. n - 1 : i \in DOMAIN todo /\ i \in DOMAIN todo' /\ todo'[i] = todo[i]
    BY <1>0
  <1> QED BY <1>1, <1>2, <1>3, <1>4 DEF SameClaims

\* Calls other than those that have pages come and go.
LEMMA ClaimsKept ==
    ASSUME Shape, NEW c, Replaced(c), Last(todo).op \notin ClaimOp,
           \A k \in 1 .. Len(c) : c[k].op \notin ClaimOp
    PROVE  SameClaims
  <1>1. ASSUME NEW i \in DOMAIN todo', i \notin 1 .. Len(todo) - 1, NEW p \in Page, Claims(i, p)'
        PROVE  FALSE
    <2>1. PICK k \in 1 .. Len(c) : todo'[i] = c[k]
      BY <1>1 DEF Replaced, After
    <2> QED BY <2>1, <1>1 DEF Claims, ClaimOp
  <1> QED BY <1>1, ClaimsNone DEF NoNewClaims

\* A range may be added, too: the pages are what they were.
LEMMA PagesAdded ==
    ASSUME Pages4, SameClaims, allocs' = allocs, carved' = carved, lost' = lost, ~ failed,
           \A p \in Page : PageAt(p)' = PageAt(p),
           \A i \in Adding' : i \in Adding /\ todo'[i] = todo[i]
    PROVE  Pages4'
  <1>0. /\ \A a, p : InAlloc(a, p)' <=> InAlloc(a, p)
        /\ \A q, p : InPool(q, p)' <=> InPool(q, p)
        /\ \A p : InRegion(p)' <=> InRegion(p)
    BY DEF InAlloc, InPool, InRegion
  <1>1. OnePageOwner'
    BY <1>0 DEF Pages4, OnePageOwner, SameClaims, InAlloc, InPool, InRegion
  <1>2. PageTypes'
    BY DEF Pages4, PageTypes, SameClaims, InAlloc, InPool, InRegion
  <1>3. AddedFor'
    BY DEF Pages4, AddedFor, SameClaims, InRegion, Covers
  <1>4. NoLeak'
    <2>1. Owned' = Owned
      BY DEF Owned
    <2> QED BY <2>1 DEF Pages4, NoLeak, SameClaims, Spoiled
  <1> QED BY <1>1, <1>2, <1>3, <1>4 DEF Pages4

LEMMA PagesKept ==
    ASSUME Pages4, SameClaims, allocs' = allocs, carved' = carved, lost' = lost, ~ failed,
           \A p \in Page : PageAt(p)' = PageAt(p),
           Adding' = Adding, \A i \in Adding : todo'[i] = todo[i]
    PROVE  Pages4'
  BY PagesAdded

-----------------------------------------------------------------------------
(* The pool over a step *)

LEMMA BlocksKept ==
    ASSUME Blocks, carved' = carved, used' = used, PoolHeadList' = PoolHeadList
    PROVE  Blocks'
  BY DEF Blocks, BlocksAt, PoolKept

LEMMA ListsKept ==
    ASSUME Lists, carved' = carved, used' = used, FreeList' = FreeList
    PROVE  Lists'
  BY DEF Lists, OnList, BlocksAt

LEMMA OwnersKept ==
    ASSUME Owners, carved' = carved, used' = used, PoolHeadList' = PoolHeadList, held' = held,
           ret' = ret, Linked' = Linked, Freeing = {}, Freeing' = {}
    PROVE  Owners'
  <1>1. Homes' = Homes /\ Got' = Got /\ Pools' = Pools
    BY DEF Homes, Got, Pools
  <1> QED BY <1>1 DEF Owners

LEMMA KeysKept ==
    ASSUME Keys, snap' = snap, reported' = reported, EfiAtRuntime' = EfiAtRuntime, MemoryMap' = MemoryMap
    PROVE  Keys'
  BY DEF Keys

-----------------------------------------------------------------------------
(* Steps that change no page *)

IInvParts == /\ Types /\ Shape /\ Heads /\ Moving /\ Returned /\ Chosen /\ Map /\ Reported
             /\ Owners /\ Blocks /\ Lists /\ Pages4 /\ Keys

LEMMA Parts == IInv <=> IInvParts
  BY DEF IInv, IInvParts, Calls, Pool

LEMMA PartsPrime == IInv' <=> IInvParts'
  BY Parts, PTL

LEMMA TypesGiveTyping == Types => Typing
  BY DEF Types, Typing

LEMMA TypesGiveTypingPrime == Types' => Typing'
  BY DEF Types, Typing

\* The calls c can take the place of the running function.
Fits(c) ==
    /\ \A k \in 1 .. Len(c) : FrameOK(c[k])
    /\ Len(c) > 0 /\ Len(todo) = 1 => c[1].op \in Bottom
    /\ Len(c) > 0 /\ Len(todo) > 1 => Under(todo[Len(todo) - 1], c[1])
    /\ \A k \in 1 .. Len(c) - 1 : Under(c[k], c[k + 1])

\* They have no pages and no descriptors.
Pageless(c) == \A k \in 1 .. Len(c) : c[k].op \notin ClaimOp \cup {"AddRange"}

HeadsOK(c) ==
    \A k \in 1 .. Len(c) :
        /\ c[k].op = "NewPool" => c[k].type \in OsType /\ PoolHeadList[c[k].type] = Null
        /\ c[k].op \in {"TakeBlock", "CarvePages", "FreePool"} /\ c[k].type \in OsType =>
              PoolHeadList[c[k].type] # Null

\* What the map, the pages and the caller of GetMemoryMap see.
memory == <<desc, carved, EfiAtRuntime, reported, allocs, lost, snap>>

Still(c) ==
    /\ Replaced(c) /\ todo' \in Seq(Frame) /\ \A i \in DOMAIN todo' : FrameOK(todo'[i])
    /\ Shape' /\ Chosen' /\ Map' /\ Reported' /\ Pages4' /\ Keys'
    /\ Linked' = Linked /\ MemoryMap' = MemoryMap /\ ~ failed

LEMMA StillStep ==
    ASSUME IInv, NEW c \in Seq(Frame), todo # <<>>, Goto(c), Fits(c), Pageless(c),
           UNCHANGED memory, \A s \in Linked : s \in StackSlot => s[2] < MapDepth',
           Last(todo).op \notin ClaimOp \cup {"AddRange"}
    PROVE  Still(c)
  <1>0. IInvParts
    BY Parts
  <1>a. /\ desc' = desc /\ carved' = carved /\ EfiAtRuntime' = EfiAtRuntime
        /\ reported' = reported /\ allocs' = allocs /\ lost' = lost /\ snap' = snap
    BY DEF memory
  <1>1. Replaced(c)
    BY <1>0, ReplacedFacts DEF IInvParts
  <1>2. Linked' = Linked
    BY <1>a DEF Linked
  <1>3. todo' \in Seq(Frame) /\ \A i \in DOMAIN todo' : FrameOK(todo'[i])
    BY <1>0, <1>1, StackTypes DEF IInvParts, Fits
  <1>4. Shape'
    BY <1>0, <1>1, <1>a, ShapeKept DEF IInvParts, Fits
  <1>6. ~ failed
    BY <1>0 DEF IInvParts, Returned, ClaimOp
  <1>8. Chosen'
    BY <1>0, <1>1, ChosenKept DEF IInvParts, ClaimOp, Pageless
  <1>9. Adding' = Adding /\ \A i \in Adding : todo'[i] = todo[i]
    BY <1>1, AddingKept DEF Pageless
  <1>b. Typing /\ Typing'
    <2>1. Typing
      BY <1>0, TypesGiveTyping DEF IInvParts
    <2> QED BY <2>1, <1>3, <1>a DEF Typing
  <1>10. /\ Map' /\ Reported'
         /\ \A p \in Page : PageAt(p)' = PageAt(p)
         /\ MemoryMap' = MemoryMap
    BY <1>0, <1>b, <1>9, <1>a, MapKept DEF IInvParts
  <1>11. SameClaims
    BY <1>0, <1>1, ClaimsKept DEF IInvParts, Pageless
  <1>12. Pages4'
    BY <1>0, <1>6, <1>9, <1>10, <1>11, <1>a, PagesKept DEF IInvParts
  <1>16. Keys'
    BY <1>0, <1>10, <1>a, KeysKept DEF IInvParts
  <1> QED BY <1>1, <1>2, <1>3, <1>4, <1>6, <1>8, <1>10, <1>12, <1>16 DEF Still

\* No block is freed by the calls c.
LEMMA NothingFreed ==
    ASSUME NEW c, Replaced(c), Typing, Shape, \A k \in 1 .. Len(c) : c[k].op # "FreePoolI"
    PROVE  Freeing' = {}
  <1>0. DOMAIN todo = 1 .. Len(todo) /\ Len(todo) \in Nat \ {0}
    BY DEF Replaced, After
  <1>1. \A i \in 1 .. Len(todo) - 1 : todo[i].op # "FreePoolI"
    BY DEF Shape, Under
  <1>2. ASSUME NEW i \in DOMAIN todo' PROVE todo'[i].op # "FreePoolI"
    <2>1. CASE i \in 1 .. Len(todo) - 1
      BY <1>1, <2>1 DEF Replaced, After
    <2>2. CASE i \notin 1 .. Len(todo) - 1
      <3>1. PICK k \in 1 .. Len(c) : todo'[i] = c[k]
        BY <2>2 DEF Replaced, After
      <3> QED BY <3>1
    <2> QED BY <2>1, <2>2
  <1> QED BY <1>2 DEF Freeing

state == <<memory, MapDepth, carved, used, FreeList, PoolHeadList, held, ret, failed>>

LEMMA QuietStep ==
    ASSUME IInv, NEW c \in Seq(Frame), todo # <<>>, Goto(c), Fits(c), Pageless(c), HeadsOK(c),
           UNCHANGED state, FreeMapStack' \in BOOLEAN, Moving',
           \A k \in 1 .. Len(c) : c[k].op # "FreePoolI",
           Last(todo).op \notin ClaimOp \cup {"AddRange"}, Last(todo).op # "FreePoolI", ret = Null
    PROVE  IInv' /\ MemoryMap' = MemoryMap
  <1>0. IInvParts
    BY Parts
  <1>a. /\ desc' = desc /\ MapDepth' = MapDepth /\ carved' = carved /\ used' = used
        /\ FreeList' = FreeList /\ PoolHeadList' = PoolHeadList /\ EfiAtRuntime' = EfiAtRuntime
        /\ reported' = reported /\ allocs' = allocs /\ held' = held /\ ret' = ret /\ failed' = failed
        /\ UNCHANGED memory
    BY DEF state, memory
  <1>1. Still(c)
    BY <1>0, <1>a, StillStep DEF IInvParts, Map
  <1>2. Typing
    BY <1>0, TypesGiveTyping DEF IInvParts
  <1>3. Types'
    BY <1>0, <1>1, <1>a DEF IInvParts, Types, Still
  <1>5. Heads'
    BY <1>0, <1>1, <1>a, HeadsKept DEF IInvParts, HeadsOK, Still
  <1>7. Returned'
    BY <1>1, <1>a DEF Returned, Still
  <1>13. Freeing = {}
    BY <1>0, <1>2, FreeingFacts DEF IInvParts, FreeingOf
  <1>14. Freeing' = {}
    BY <1>0, <1>1, <1>2, NothingFreed DEF IInvParts, Still
  <1>15. Owners'
    BY <1>0, <1>1, <1>13, <1>14, <1>a, OwnersKept DEF IInvParts, Still
  <1>16. Blocks' /\ Lists'
    BY <1>0, <1>a, BlocksKept, ListsKept DEF IInvParts
  <1> QED BY <1>1, <1>3, <1>5, <1>7, <1>15, <1>16, PartsPrime DEF IInvParts, Still

\* Where the function below the running one is.
Runs(o, n) ==
    /\ n \in Nat \ {0} /\ todo \in Seq(Frame) /\ todo # <<>> /\ DOMAIN todo = 1 .. n /\ n = Len(todo)
    /\ Last(todo) = todo[n] /\ todo[n].op = o /\ todo[n] \in Frame /\ FrameOK(todo[n])
    /\ n = 1 => o \in Bottom
    /\ n > 1 => n - 1 \in DOMAIN todo /\ n - 1 \in 1 .. n - 1 /\ Under(todo[n - 1], todo[n])
    /\ ~ EfiAtRuntime

LEMMA BelowFacts ==
    ASSUME IInv, NEW o, Running(o), NEW n, n = Len(todo)
    PROVE  Runs(o, n)
  <1>1. Types /\ Shape
    BY Parts DEF IInvParts
  <1>2. /\ todo \in Seq(Frame) /\ todo # <<>> /\ n \in Nat \ {0} /\ DOMAIN todo = 1 .. n
        /\ Last(todo) = todo[n] /\ todo[n].op = o /\ todo[n] \in Frame /\ FrameOK(todo[n])
    BY <1>1, TopFacts
  <1>3. n > 1 => n - 1 \in 1 .. n - 1 /\ n - 1 + 1 = n /\ n - 1 \in 1 .. n
    BY <1>2
  <1>4. n > 1 => Under(todo[n - 1], todo[n])
    BY <1>1, <1>3 DEF Shape
  <1>5. (n = 1 => o \in Bottom) /\ ~ EfiAtRuntime
    BY <1>1, <1>2 DEF Shape
  <1> QED BY <1>1, <1>2, <1>3, <1>4, <1>5 DEF Runs

\* Nothing takes the place of the running function.
LEMMA Ends ==
    ASSUME NEW c, c = <<>>
    PROVE  /\ c \in Seq(Frame) /\ Len(c) = 0 /\ Fits(c) /\ Pageless(c) /\ HeadsOK(c)
           /\ \A k \in 1 .. Len(c) : c[k].op # "FreePoolI" /\ c[k].op \notin MoveOp
  <1>1. Len(c) = 0 /\ c \in Seq(Frame)
    OBVIOUS
  <1> QED BY <1>1 DEF Fits, Pageless, HeadsOK

LEMMA FreeMemoryMapStackStep ==
    ASSUME IInv, FreeMemoryMapStack
    PROVE  IInv' /\ MemoryMap' = MemoryMap
  <1> DEFINE n == Len(todo)
  <1>0. Running("FreeMemoryMapStack")
    BY DEF FreeMemoryMapStack
  <1>1. Runs("FreeMemoryMapStack", n)
    BY <1>0, BelowFacts
  <1> HIDE DEF n
  <1>2. UNCHANGED state
    BY DEF FreeMemoryMapStack, state, memory, pool, callers
  <1>3. Types /\ Moving /\ ret = Null
    BY <1>1, Parts DEF IInvParts, Returned, Runs
  <1>4. /\ Last(todo).op \notin ClaimOp \cup {"AddRange"}
        /\ Last(todo).op # "FreePoolI" /\ todo # <<>>
    BY <1>1 DEF ClaimOp, Runs
  <1>5. CASE FreeMapStack
    <2>0. PICK c : c = <<>>
      OBVIOUS
    <2>1. Goto(c) /\ FreeMapStack' = FreeMapStack
      BY <1>5, <2>0 DEF FreeMemoryMapStack
    <2>2. /\ c \in Seq(Frame) /\ Len(c) = 0 /\ Fits(c) /\ Pageless(c) /\ HeadsOK(c)
          /\ \A k \in 1 .. Len(c) : c[k].op # "FreePoolI" /\ c[k].op \notin MoveOp
      BY <2>0, Ends
    <2>3. Replaced(c)
      BY <1>4, <1>3, <2>1, <2>2, ReplacedFacts
    <2>4. Moving'
      <3>1. MapDepth \in Nat /\ MapDepth' = MapDepth
        BY <1>2, <1>3 DEF Types, state, memory
      <3> QED BY <1>3, <2>1, <2>2, <2>3, <3>1, MovingKept
    <2>5. FreeMapStack' \in BOOLEAN
      BY <1>3, <2>1 DEF Types
    <2> QED BY <1>2, <1>3, <1>4, <2>1, <2>2, <2>4, <2>5, QuietStep
  <1>6. CASE ~ FreeMapStack
    <2> DEFINE g == Call("NextEntry")
    <2>1. Goto(<<g>>) /\ FreeMapStack' = TRUE
      BY <1>6 DEF FreeMemoryMapStack
    <2>2. g \in Frame /\ g.op = "NextEntry"
      <3>1. "NextEntry" \in Op
        BY DEF Op
      <3> QED BY <3>1, CallFacts
    <2> HIDE DEF g
    <2>0. PICK c : c = <<g>>
      OBVIOUS
    <2>3. c \in Seq(Frame) /\ Len(c) = 1 /\ c[1] = g
      BY <2>0, <2>2, Seq1
    <2>4. Goto(c)
      BY <2>0, <2>1
    <2>5. Replaced(c)
      BY <1>4, <1>3, <2>3, <2>4, ReplacedFacts
    <2>6. Moving'
      <3>1. \A i \in 1 .. n - 1 : todo[i].op \notin MoveOp
        <4>1. Movers = {}
          BY <1>3, <1>6 DEF Moving
        <4> QED BY <4>1, <1>1 DEF Movers, MoveOp, Runs
      <3> QED BY <3>1, <2>1, <2>2, <2>3, <2>5, MovingOn DEF MoveOp, n
    <2>7. /\ FrameOK(g) /\ g.op \notin ClaimOp \cup {"AddRange"} /\ g.op # "FreePoolI"
          /\ g.op \notin {"NewPool", "TakeBlock", "CarvePages", "FreePool"} /\ g.op \in Bottom
      BY <2>2 DEF FrameOK, ClaimOp, Bottom
    <2>8. n > 1 => Under(todo[n - 1], g)
      BY <1>1, <2>2 DEF Under, Runs, PoolOp
    <2>9. Fits(c) /\ Pageless(c) /\ HeadsOK(c) /\ \A k \in 1 .. Len(c) : c[k].op # "FreePoolI"
      BY <2>3, <2>7, <2>8 DEF Fits, Pageless, HeadsOK, n
    <2> QED BY <1>2, <1>3, <1>4, <2>1, <2>3, <2>4, <2>6, <2>9, QuietStep
  <1> QED BY <1>5, <1>6

-----------------------------------------------------------------------------
(* The pool's own steps *)

LEMMA PoolStep ==
    ASSUME IInv, NEW c, Still(c), UNCHANGED memory, MapDepth' \in Nat, FreeMapStack' \in BOOLEAN,
           failed' = failed, used' \subseteq PoolSlot, held' \subseteq PoolSlot,
           FreeList' \in [AllocType -> [0 .. MAX_POOL_LIST - 1 -> Seq(PoolSlot)]],
           PoolHeadList' \in [OsType -> PoolSlot \cup {Null}], ret' \in PoolSlot \cup {Null},
           Heads', Moving', Returned', Owners', Blocks', Lists'
    PROVE  IInv' /\ MemoryMap' = MemoryMap
  <1>0. IInvParts
    BY Parts
  <1>a. /\ desc' = desc /\ carved' = carved /\ EfiAtRuntime' = EfiAtRuntime
        /\ reported' = reported /\ allocs' = allocs
    BY DEF memory
  <1>3. Types'
    BY <1>0, <1>a DEF IInvParts, Types, Still
  <1> QED BY <1>3, PartsPrime DEF IInvParts, Still

\* The calls c do not change what is left of the entries to move.
LEMMA MovingEnds ==
    ASSUME NEW c, Replaced(c), \A i \in 1 .. Len(todo) - 1 : todo[i].op \notin MoveOp,
           \A k \in 1 .. Len(c) : c[k].op \notin MoveOp
    PROVE  Moving'
  <1>1. Movers' = {}
    <2> SUFFICES ASSUME NEW i \in DOMAIN todo', todo'[i].op \in MoveOp
                 PROVE  FALSE
      BY DEF Movers, MoveOp
    <2> QED BY DEF Replaced, After
  <1> QED BY <1>1 DEF Moving

LEMMA OnlyMover ==
    ASSUME IInv, NEW o \in MoveOp, NEW n, Runs(o, n)
    PROVE  FreeMapStack /\ \A i \in 1 .. n - 1 : todo[i].op \notin MoveOp
  <1>1. Moving
    BY Parts DEF IInvParts
  <1>2. n \in Movers
    BY DEF Movers, MoveOp, Runs
  <1>3. n \in Nat /\ DOMAIN todo = 1 .. n
    BY DEF Runs
  <1>4. \A i \in 1 .. n - 1 : i \in DOMAIN todo /\ i # n
    BY <1>3
  <1> QED BY <1>1, <1>2, <1>4 DEF Moving, Movers, MoveOp

LEMMA NextEntryStep ==
    ASSUME IInv, NextEntry
    PROVE  IInv' /\ MemoryMap' = MemoryMap
  <1> DEFINE n == Len(todo)
  <1>0. Running("NextEntry")
    BY DEF NextEntry
  <1>1. Runs("NextEntry", n)
    BY <1>0, BelowFacts
  <1> HIDE DEF n
  <1>2. UNCHANGED state
    BY DEF NextEntry, state, memory, pool, callers
  <1>3. Types /\ ret = Null
    BY <1>1, Parts DEF IInvParts, Returned, Runs
  <1>4. /\ Last(todo).op \notin ClaimOp \cup {"AddRange"}
        /\ Last(todo).op # "FreePoolI" /\ todo # <<>>
    BY <1>1 DEF ClaimOp, Runs
  <1>5. FreeMapStack /\ \A i \in 1 .. Len(todo) - 1 : todo[i].op \notin MoveOp
    BY <1>1, OnlyMover DEF MoveOp, n
  <1>6. CASE ~ (MapDepth > 0)
    <2>0. PICK c : c = <<>>
      OBVIOUS
    <2>1. Goto(c) /\ FreeMapStack' = FALSE
      BY <1>6, <2>0 DEF NextEntry, StopFreeing
    <2>2. /\ c \in Seq(Frame) /\ Len(c) = 0 /\ Fits(c) /\ Pageless(c) /\ HeadsOK(c)
          /\ \A k \in 1 .. Len(c) : c[k].op # "FreePoolI" /\ c[k].op \notin MoveOp
      BY <2>0, Ends
    <2>3. Replaced(c)
      BY <1>4, <1>3, <2>1, <2>2, ReplacedFacts
    <2>4. Moving'
      BY <1>5, <2>2, <2>3, MovingEnds
    <2> QED BY <1>2, <1>3, <1>4, <2>1, <2>2, <2>4, QuietStep
  <1>7. CASE MapDepth > 0
    <2> DEFINE g == Call("MoveEntry")
               h == DoAlloc(RtData, 0)
    <2>1. Goto(<<g, h>>) /\ FreeMapStack' = FreeMapStack
      BY <1>7 DEF NextEntry
    <2>2. g \in Frame /\ g.op = "MoveEntry"
      <3>1. "MoveEntry" \in Op
        BY DEF Op
      <3> QED BY <3>1, CallFacts
    <2>a. h \in Frame /\ h.op = "AllocatePoolI" /\ h.type = RtData
      <3>1. RtData \in MemType /\ 0 \in 0 .. MAX_POOL_LIST
        BY PagesAssumption DEF MemType, AllocType
      <3> QED BY <3>1, DoAllocFacts
    <2> HIDE DEF g, h
    <2>0. PICK c : c = <<g, h>>
      OBVIOUS
    <2>3. c \in Seq(Frame) /\ Len(c) = 2 /\ c[1] = g /\ c[2] = h
      BY <2>0, <2>2, <2>a, Seq2
    <2>4. Goto(c)
      BY <2>0, <2>1
    <2>5. Replaced(c)
      BY <1>4, <1>3, <2>3, <2>4, ReplacedFacts
    <2>6. Moving'
      <3>1. MapDepth' > 0
        BY <1>7, <1>2 DEF state
      <3>2. \A k \in 2 .. Len(c) : c[k].op \notin MoveOp
        BY <2>3, <2>a DEF MoveOp
      <3>3. Len(c) > 0 /\ c[1].op \in MoveOp /\ FreeMapStack'
        BY <2>1, <2>2, <2>3, <1>5 DEF MoveOp
      <3> QED BY <3>1, <3>2, <3>3, <1>5, <2>5, MovingOn
    <2>7. /\ FrameOK(g) /\ g.op \notin ClaimOp \cup {"AddRange"} /\ g.op # "FreePoolI"
          /\ g.op \notin {"NewPool", "TakeBlock", "CarvePages", "FreePool"} /\ g.op \in Bottom
          /\ FrameOK(h) /\ h.op \notin ClaimOp \cup {"AddRange"} /\ h.op # "FreePoolI"
          /\ h.op \notin {"NewPool", "TakeBlock", "CarvePages", "FreePool"}
          /\ Under(g, h)
      BY <2>2, <2>a DEF FrameOK, ClaimOp, Bottom, Under, PoolOp, AllocType
    <2>8. n > 1 => Under(todo[n - 1], g)
      BY <1>1, <2>2 DEF Under, Runs, PoolOp
    <2>9. Fits(c) /\ Pageless(c) /\ HeadsOK(c) /\ \A k \in 1 .. Len(c) : c[k].op # "FreePoolI"
      BY <2>3, <2>7, <2>8 DEF Fits, Pageless, HeadsOK, n
    <2>10. FreeMapStack' \in BOOLEAN
      BY <1>3, <2>1 DEF Types
    <2> QED BY <1>2, <1>3, <1>4, <2>10, <2>3, <2>4, <2>6, <2>9, QuietStep
  <1> QED BY <1>6, <1>7

\* One call, or two.
LEMMA Fits1 ==
    ASSUME NEW g \in Frame, NEW c, c = <<g>>, FrameOK(g),
           Len(todo) = 1 => g.op \in Bottom, Len(todo) > 1 => Under(todo[Len(todo) - 1], g)
    PROVE  /\ c \in Seq(Frame) /\ Len(c) = 1 /\ c[1] = g /\ Fits(c)
           /\ \A k \in 1 .. Len(c) : c[k] = g
           /\ g.op \notin ClaimOp \cup {"AddRange"} => Pageless(c)
  <1>1. c \in Seq(Frame) /\ Len(c) = 1 /\ c[1] = g
    BY Seq1
  <1>2. (\A k \in 1 .. Len(c) : c[k] = g) /\ ~ \E k : k \in 1 .. Len(c) - 1
    BY <1>1
  <1> QED BY <1>1, <1>2 DEF Fits, Pageless

LEMMA Fits2 ==
    ASSUME NEW g \in Frame, NEW h \in Frame, NEW c, c = <<g, h>>, FrameOK(g), FrameOK(h), Under(g, h),
           Len(todo) = 1 => g.op \in Bottom, Len(todo) > 1 => Under(todo[Len(todo) - 1], g)
    PROVE  /\ c \in Seq(Frame) /\ Len(c) = 2 /\ c[1] = g /\ c[2] = h /\ Fits(c)
           /\ \A k \in 1 .. Len(c) : c[k] = g \/ c[k] = h
           /\ g.op \notin ClaimOp \cup {"AddRange"} /\ h.op \notin ClaimOp \cup {"AddRange"} => Pageless(c)
  <1>1. c \in Seq(Frame) /\ Len(c) = 2 /\ c[1] = g /\ c[2] = h
    BY Seq2
  <1>2. (\A k \in 1 .. Len(c) : c[k] = g \/ c[k] = h) /\ \A k \in 1 .. Len(c) - 1 : k = 1 /\ k + 1 = 2
    BY <1>1
  <1> QED BY <1>1, <1>2 DEF Fits, Pageless

\* A pool function goes on as another one.
LEMMA PoolGoesOn ==
    ASSUME NEW o \in PoolOp, NEW n, Runs(o, n), NEW g, g.op \in PoolOp, g.type = todo[n].type
    PROVE  Len(todo) # 1 /\ (Len(todo) > 1 => Under(todo[Len(todo) - 1], g))
  <1>1. n # 1 /\ n = Len(todo)
    BY DEF Runs, Bottom, PoolOp
  <1> QED BY <1>1 DEF Runs, Under, PoolOp

LEMMA AllocatePoolIStep ==
    ASSUME IInv, AllocatePoolI
    PROVE  IInv' /\ MemoryMap' = MemoryMap
  <1> DEFINE n == Len(todo)
  <1>r. PICK r : r = Last(todo)
    OBVIOUS
  <1>0. Running("AllocatePoolI")
    BY DEF AllocatePoolI
  <1>1. Runs("AllocatePoolI", n)
    BY <1>0, BelowFacts
  <1> HIDE DEF n
  <1>2. UNCHANGED state /\ FreeMapStack' = FreeMapStack
    BY DEF AllocatePoolI, state, memory, map, pool, callers
  <1>3. Types /\ Moving /\ ret = Null
    BY <1>1, Parts DEF IInvParts, Returned, Runs
  <1>4. /\ Last(todo).op \notin ClaimOp \cup {"AddRange"}
        /\ Last(todo).op # "FreePoolI" /\ todo # <<>>
    BY <1>1 DEF ClaimOp, Runs
  <1>5. r \in Frame /\ r.type \in AllocType /\ r = todo[n] /\ FreeMapStack' \in BOOLEAN
    BY <1>r, <1>1, <1>2, <1>3 DEF Runs, FrameOK, Types
  <1>a. MapDepth \in Nat /\ MapDepth' = MapDepth
    BY <1>2, <1>3 DEF Types, state
  <1>6. CASE r.type \in OsType /\ PoolHeadList[r.type] = Null
    <2>1. PICK g, h : g = [r EXCEPT !.op = "NewPool"] /\ h = DoAlloc(BsData, PoolList)
      OBVIOUS
    <2>2. g \in Frame /\ g.op = "NewPool" /\ g.type = r.type
      <3>1. "NewPool" \in Op
        BY DEF Op
      <3> QED BY <3>1, <1>5, <2>1, AsFacts
    <2>3. h \in Frame /\ h.op = "AllocatePoolI" /\ h.type = BsData
      <3>1. BsData \in MemType /\ PoolList \in 0 .. MAX_POOL_LIST
        BY PagesAssumption DEF MemType, AllocType
      <3> QED BY <3>1, <2>1, DoAllocFacts
    <2>0. PICK c : c = <<g, h>>
      OBVIOUS
    <2>5. Goto(c)
      BY <2>0, <2>1, <1>r, <1>6 DEF AllocatePoolI
    <2>6. /\ FrameOK(g) /\ g.op \notin ClaimOp \cup {"AddRange"} /\ g.op # "FreePoolI"
          /\ FrameOK(h) /\ h.op \notin ClaimOp \cup {"AddRange"} /\ h.op # "FreePoolI"
          /\ g.op \notin MoveOp /\ h.op \notin MoveOp /\ Under(g, h)
      BY <2>2, <2>3, <1>5 DEF FrameOK, ClaimOp, Under, PoolOp, AllocType, MoveOp
    <2>7. Len(todo) # 1 /\ (Len(todo) > 1 => Under(todo[Len(todo) - 1], g))
      BY <1>1, <1>5, <2>2, PoolGoesOn DEF PoolOp
    <2>4. c \in Seq(Frame) /\ Fits(c) /\ Pageless(c) /\ \A k \in 1 .. Len(c) : c[k] = g \/ c[k] = h
      BY <2>0, <2>2, <2>3, <2>6, <2>7, Fits2
    <2>8. HeadsOK(c) /\ \A k \in 1 .. Len(c) : c[k].op # "FreePoolI" /\ c[k].op \notin MoveOp
      BY <2>2, <2>3, <2>4, <2>6, <1>6 DEF HeadsOK
    <2>9. Moving'
      <3>1. Replaced(c)
        BY <1>4, <1>3, <2>4, <2>5, ReplacedFacts
      <3> QED BY <1>2, <1>3, <1>a, <2>8, <3>1, MovingKept
    <2> QED BY <1>2, <1>3, <1>4, <1>5, <2>4, <2>5, <2>8, <2>9, QuietStep
  <1>7. CASE ~ (r.type \in OsType /\ PoolHeadList[r.type] = Null)
    <2>1. PICK g : g = [r EXCEPT !.op = "TakeBlock"]
      OBVIOUS
    <2>2. g \in Frame /\ g.op = "TakeBlock" /\ g.type = r.type
      <3>1. "TakeBlock" \in Op
        BY DEF Op
      <3> QED BY <3>1, <1>5, <2>1, AsFacts
    <2>0. PICK c : c = <<g>>
      OBVIOUS
    <2>5. Goto(c)
      BY <2>0, <2>1, <1>r, <1>7 DEF AllocatePoolI
    <2>6. FrameOK(g) /\ g.op \notin ClaimOp \cup {"AddRange"} /\ g.op # "FreePoolI" /\ g.op \notin MoveOp
      BY <2>2, <1>5 DEF FrameOK, ClaimOp, MoveOp
    <2>7. Len(todo) # 1 /\ (Len(todo) > 1 => Under(todo[Len(todo) - 1], g))
      BY <1>1, <1>5, <2>2, PoolGoesOn DEF PoolOp
    <2>4. c \in Seq(Frame) /\ Fits(c) /\ Pageless(c) /\ \A k \in 1 .. Len(c) : c[k] = g
      BY <2>0, <2>2, <2>6, <2>7, Fits1
    <2>8. HeadsOK(c) /\ \A k \in 1 .. Len(c) : c[k].op # "FreePoolI" /\ c[k].op \notin MoveOp
      BY <2>2, <2>4, <2>6, <1>7 DEF HeadsOK
    <2>9. Moving'
      <3>1. Replaced(c)
        BY <1>4, <1>3, <2>4, <2>5, ReplacedFacts
      <3> QED BY <1>2, <1>3, <1>a, <2>8, <3>1, MovingKept
    <2> QED BY <1>2, <1>3, <1>4, <1>5, <2>4, <2>5, <2>8, <2>9, QuietStep
  <1> QED BY <1>6, <1>7

\* Every carved page of type t has a block in use.
LEMMA UsedByFacts ==
    ASSUME Types, Blocks, NEW t, UsedBy(t) = {}, NEW p \in Page, t # Absent
    PROVE  carved[p].type # t
  <1> SUFFICES ASSUME carved[p].type = t PROVE FALSE
    OBVIOUS
  <1>1. carved[p] # NotCarved
    BY DEF NotCarved
  <1>2. PICK s \in used : s \in BlocksAt(p)
    BY <1>1 DEF Blocks
  <1>3. s[1] = p
    BY <1>1, <1>2 DEF BlocksAt
  <1> QED BY <1>2, <1>3 DEF UsedBy

\* The first function on the stack is the only one.
LEMMA AloneFacts ==
    ASSUME IInv, NEW o \in {"BSAllocatePool", "FreePages", "AllocatePages"}, NEW n, Runs(o, n)
    PROVE  n = 1
  <1>1. n > 1 => FALSE
    BY DEF Runs, Under, PoolOp
  <1> QED BY <1>1 DEF Runs

LEMMA FreePoolStep ==
    ASSUME IInv, FreePool
    PROVE  IInv' /\ MemoryMap' = MemoryMap
  <1> DEFINE n == Len(todo)
  <1>r. PICK t : t = Last(todo).type
    OBVIOUS
  <1>0. Running("FreePool")
    BY DEF FreePool
  <1>1. Runs("FreePool", n)
    BY <1>0, BelowFacts
  <1> HIDE DEF n
  <1>2. IInvParts
    BY Parts
  <1>3. Types /\ Moving /\ Typing /\ Shape /\ ret = Null
    BY <1>1, <1>2, TypesGiveTyping DEF IInvParts, Returned, Runs
  <1>4. /\ Last(todo).op \notin ClaimOp \cup {"AddRange"}
        /\ Last(todo).op # "FreePoolI" /\ todo # <<>>
    BY <1>1 DEF ClaimOp, Runs
  <1>5. t \in AllocType
    BY <1>r, <1>1 DEF Runs, FrameOK
  <1>6. /\ UNCHANGED memory /\ MapDepth' = MapDepth /\ FreeMapStack' = FreeMapStack /\ used' = used
        /\ FreeList' = FreeList /\ held' = held /\ ret' = ret /\ failed' = failed
        /\ carved' = carved
    BY DEF FreePool, memory, map, callers
  <1>a. MapDepth \in Nat /\ MapDepth' \in Nat /\ FreeMapStack' \in BOOLEAN
    BY <1>3, <1>6 DEF Types
  <1>7. CASE t \in OsType /\ UsedBy(t) = {}
    <2>1. PICK s : s = PoolHeadList[t]
      OBVIOUS
    <2>2. PICK g, c : g = DoFree(s) /\ c = <<g>>
      OBVIOUS
    <2>3. Goto(c) /\ PoolHeadList' = [PoolHeadList EXCEPT ![t] = Null]
      BY <1>7, <1>r, <2>1, <2>2 DEF FreePool
    <2>4. s \in PoolSlot /\ s # Null
      <3>1. s # Null
        BY <1>r, <1>1, <1>2, <1>7, <2>1 DEF IInvParts, Heads, Runs
      <3> QED BY <1>3, <1>7, <2>1, <3>1 DEF Types
    <2>5. g \in Frame /\ g.op = "FreePoolI" /\ g.slot = s
      BY <2>2, <2>4, DoFreeFacts
    <2>6. Len(todo) = 1
      <3>1. n > 1 => FALSE
        BY <1>r, <1>1, <1>7 DEF Runs, Under, PoolOp
      <3> QED BY <3>1, <1>1 DEF Runs, n
    <2>7. FrameOK(g) /\ g.op \notin ClaimOp \cup {"AddRange"} /\ g.op \notin MoveOp /\ g.op \in Bottom
      BY <2>5, <2>4 DEF FrameOK, ClaimOp, MoveOp, Bottom
    <2>8. c \in Seq(Frame) /\ Len(c) = 1 /\ Fits(c) /\ Pageless(c) /\ \A k \in 1 .. Len(c) : c[k] = g
      BY <2>2, <2>5, <2>6, <2>7, Fits1
    <2>9. Still(c)
      <3>1. \A x \in Linked : x \in StackSlot => x[2] < MapDepth'
        BY <1>2, <1>6 DEF IInvParts, Map
      <3> QED BY <3>1, <1>4, <1>6, <2>3, <2>8, StillStep
    <2>10. Replaced(c) /\ Shape' /\ Typing' /\ Linked' = Linked
      BY <2>9, <1>3, <1>6 DEF Still, Typing, memory
    <2>11. Moving'
      BY <1>3, <1>6, <1>a, <2>7, <2>8, <2>10, MovingKept
    <2>12. Len(todo') = 1 /\ todo' # <<>> /\ Last(todo') = g /\ todo'[1] = g /\ DOMAIN todo' = {1}
      <3>1. Len(todo') = 1 /\ todo' \in Seq(Frame) /\ DOMAIN todo' = 1 .. Len(todo')
        BY <2>6, <2>8, <2>10 DEF Replaced, After
      <3>2. \E k \in 1 .. Len(c) : todo'[1] = c[k]
        BY <3>1, <2>6, <2>10 DEF Replaced, After
      <3>3. todo'[1] = g
        BY <3>2, <2>8
      <3> QED BY <3>1, <3>3 DEF Last
    <2>13. Heads'
      BY <2>12, <2>5 DEF Heads
    <2>14. Returned'
      BY <1>3, <1>6, <2>9 DEF Returned, Still
    <2>15. Freeing = {} /\ Freeing' = {s}
      <3>1. Freeing = {}
        BY <1>3, <1>4, FreeingFacts DEF FreeingOf
      <3> QED BY <3>1, <2>12, <2>5 DEF Freeing
    <2>16. Owners'
      <3>1. Homes' = Homes /\ Got' = Got
        BY <1>6, <2>10 DEF Homes, Got
      <3>2. PoolHeadList \in [OsType -> PoolSlot \cup {Null}]
        BY <1>3 DEF Types
      <3>3. \A u, v \in OsType : PoolHeadList[u] = PoolHeadList[v] /\ PoolHeadList[u] # Null => u = v
        BY <1>2 DEF IInvParts, Owners
      <3>4. \A u \in OsType : PoolHeadList'[u] = IF u = t THEN Null ELSE PoolHeadList[u]
        BY <3>2, <2>3, <1>7
      <3>5. Pools' = Pools \ {s} /\ s \in Pools
        BY <3>3, <3>4, <2>1, <2>4, <1>7 DEF Pools
      <3>6. Pools = Pools' \cup Freeing' /\ Pools' \cap Freeing' = {} /\ Freeing' \subseteq Pools /\ Pools' \subseteq Pools
        BY <3>5, <2>15
      <3>7. used' = Homes' \cup held' \cup Pools' \cup Got' \cup Freeing'
        BY <3>1, <3>6, <1>2, <1>6, <2>15 DEF IInvParts, Owners
      <3>8. /\ Homes' \cap held' = {} /\ Homes' \cap Pools' = {} /\ Homes' \cap Got' = {} /\ Homes' \cap Freeing' = {}
            /\ held' \cap Pools' = {} /\ held' \cap Got' = {} /\ held' \cap Freeing' = {}
            /\ Pools' \cap Got' = {} /\ Pools' \cap Freeing' = {} /\ Got' \cap Freeing' = {}
        BY <3>1, <3>6, <1>2, <1>6 DEF IInvParts, Owners
      <3>9. \A u, v \in OsType : PoolHeadList'[u] = PoolHeadList'[v] /\ PoolHeadList'[u] # Null => u = v
        BY <3>3, <3>4
      <3>10. \A x \in Homes' : carved'[x[1]].type = RtData
        BY <3>1, <1>2, <1>6 DEF IInvParts, Owners
      <3> QED BY <3>7, <3>8, <3>9, <3>10, <2>12 DEF Owners
    <2>17. Blocks'
      <3>1. \A p \in Page : carved[p].type # t
        BY <1>2, <1>3, <1>5, <1>7, UsedByFacts, PagesAssumption DEF IInvParts, MemType
      <3>2. PoolKept'
        BY <3>1, <1>2, <1>3, <1>6, <1>7, <2>3 DEF IInvParts, Blocks, PoolKept, Types
      <3> QED BY <3>2, <1>2, <1>6 DEF IInvParts, Blocks, BlocksAt
    <2>18. Lists'
      BY <1>2, <1>6, ListsKept DEF IInvParts
    <2>19. /\ used' \subseteq PoolSlot /\ held' \subseteq PoolSlot /\ ret' \in PoolSlot \cup {Null}
           /\ FreeList' \in [AllocType -> [0 .. MAX_POOL_LIST - 1 -> Seq(PoolSlot)]]
           /\ PoolHeadList' \in [OsType -> PoolSlot \cup {Null}]
      BY <1>3, <1>6, <2>3 DEF Types
    <2> QED BY <1>6, <1>a, <2>9, <2>11, <2>13, <2>14, <2>16, <2>17, <2>18, <2>19, PoolStep
  <1>8. CASE ~ (t \in OsType /\ UsedBy(t) = {})
    <2>0. PICK c : c = <<>>
      OBVIOUS
    <2>1. Goto(c) /\ PoolHeadList' = PoolHeadList
      BY <1>8, <1>r, <2>0 DEF FreePool
    <2>2. /\ c \in Seq(Frame) /\ Len(c) = 0 /\ Fits(c) /\ Pageless(c) /\ HeadsOK(c)
          /\ \A k \in 1 .. Len(c) : c[k].op # "FreePoolI" /\ c[k].op \notin MoveOp
      BY <2>0, Ends
    <2>3. Replaced(c)
      BY <1>4, <1>3, <2>1, <2>2, ReplacedFacts
    <2>4. Moving'
      BY <1>3, <1>6, <1>a, <2>2, <2>3, MovingKept
    <2>5. UNCHANGED state
      BY <1>6, <2>1 DEF state
    <2> QED BY <1>3, <1>4, <1>a, <2>1, <2>2, <2>4, <2>5, QuietStep
  <1> QED BY <1>7, <1>8

LEMMA NewPoolStep ==
    ASSUME IInv, NewPool
    PROVE  IInv' /\ MemoryMap' = MemoryMap
  <1> DEFINE n == Len(todo)
  <1>r. PICK r, t : r = Last(todo) /\ t = r.type
    OBVIOUS
  <1>0. Running("NewPool")
    BY DEF NewPool
  <1>1. Runs("NewPool", n)
    BY <1>0, BelowFacts
  <1> HIDE DEF n
  <1>2. IInvParts
    BY Parts
  <1>3. Types /\ Moving /\ Typing /\ Shape
    BY <1>1, <1>2, TypesGiveTyping DEF IInvParts
  <1>4. /\ Last(todo).op \notin ClaimOp \cup {"AddRange"}
        /\ Last(todo).op # "FreePoolI" /\ todo # <<>>
    BY <1>1 DEF ClaimOp, Runs
  <1>5. t \in AllocType /\ t \in OsType /\ PoolHeadList[t] = Null /\ r \in Frame /\ r = todo[n]
    BY <1>r, <1>1, <1>2 DEF Runs, FrameOK, Heads, IInvParts
  <1>6. /\ UNCHANGED memory /\ MapDepth' = MapDepth /\ FreeMapStack' = FreeMapStack /\ used' = used
        /\ FreeList' = FreeList /\ held' = held /\ failed' = failed
        /\ carved' = carved
    BY DEF NewPool, memory, map, callers
  <1>a. MapDepth \in Nat /\ MapDepth' \in Nat /\ FreeMapStack' \in BOOLEAN
    BY <1>3, <1>6 DEF Types
  <1>7. CASE ret # Null
    <2>2. PICK g, c : g = [r EXCEPT !.op = "TakeBlock"] /\ c = <<g>>
      OBVIOUS
    <2>3. Goto(c) /\ PoolHeadList' = [PoolHeadList EXCEPT ![t] = ret] /\ ret' = Null
      BY <1>7, <1>r, <2>2 DEF NewPool, LinkPool
    <2>4. ret \in PoolSlot
      BY <1>3, <1>7 DEF Types
    <2>5. g \in Frame /\ g.op = "TakeBlock" /\ g.type = t
      <3>1. "TakeBlock" \in Op
        BY DEF Op
      <3> QED BY <3>1, <1>r, <1>5, <2>2, AsFacts
    <2>6. Len(todo) # 1 /\ (Len(todo) > 1 => Under(todo[Len(todo) - 1], g))
      <3>1. g.op \in PoolOp /\ g.type = todo[n].type /\ "NewPool" \in PoolOp
        BY <1>5, <1>r, <2>5 DEF PoolOp
      <3> QED BY <3>1, <1>1, PoolGoesOn
    <2>7. FrameOK(g) /\ g.op \notin ClaimOp \cup {"AddRange"} /\ g.op \notin MoveOp
      BY <1>5, <2>5 DEF FrameOK, ClaimOp, MoveOp
    <2>8. c \in Seq(Frame) /\ Len(c) = 1 /\ Fits(c) /\ Pageless(c) /\ \A k \in 1 .. Len(c) : c[k] = g
      <3>1. c = <<g>> /\ g \in Frame
        BY <2>2, <2>5
      <3> QED BY <3>1, <2>6, <2>7, Fits1
    <2>9. Still(c)
      <3>1. \A x \in Linked : x \in StackSlot => x[2] < MapDepth'
        BY <1>2, <1>6 DEF IInvParts, Map
      <3> QED BY <3>1, <1>4, <1>6, <2>3, <2>8, StillStep
    <2>10. Replaced(c) /\ Shape' /\ Typing' /\ Linked' = Linked
      BY <2>9, <1>3, <1>6 DEF Still, Typing, memory
    <2>11. Moving'
      BY <1>3, <1>6, <1>a, <2>7, <2>8, <2>10, MovingKept
    <2>12. n = 2 /\ todo[1].op = "BSAllocatePool"
      <3>1. n > 1 /\ todo[n - 1].op = "BSAllocatePool"
        BY <1>1, <1>5, <1>r, PagesAssumption DEF Runs, Under, PoolOp, Bottom
      <3>2. \A i \in 1 .. n - 1 : Under(todo[i], todo[i + 1])
        BY <1>3 DEF Shape, n
      <3>3. n \in Nat
        BY <1>1 DEF Runs
      <3>4. n > 2 => n - 2 \in 1 .. n - 1 /\ n - 2 + 1 = n - 1
        BY <3>3
      <3>5. ~ (n > 2)
        BY <3>1, <3>2, <3>4 DEF Under, PoolOp
      <3>6. n = 2
        BY <3>1, <3>3, <3>5
      <3> QED BY <3>1, <3>6
    <2>13. Heads'
      <3> SUFFICES ASSUME NEW i \in DOMAIN todo'
                   PROVE  todo'[i].op # "NewPool" /\ (todo'[i].op \in {"TakeBlock", "CarvePages", "FreePool"} /\ todo'[i].type \in OsType => PoolHeadList'[todo'[i].type] # Null)
        BY DEF Heads
      <3>1. CASE i \in 1 .. n - 1
        <4>1. i = 1
          BY <2>12, <3>1
        <4>2. todo'[i] = todo[i]
          BY <3>1, <2>10 DEF Replaced, After, n
        <4> QED BY <2>12, <4>1, <4>2
      <3>2. CASE i \notin 1 .. n - 1
        <4>1. todo'[i] = g
          BY <3>2, <2>8, <2>10 DEF Replaced, After, n
        <4>2. PoolHeadList'[t] = ret
          BY <2>3, <1>3, <1>5 DEF Types
        <4> QED BY <4>1, <4>2, <2>5, <1>7
      <3> QED BY <3>1, <3>2
    <2>14. Returned'
      BY <2>3, <1>6, <2>9 DEF Returned, Still
    <2>15. Freeing = {} /\ Freeing' = {}
      <3>1. Freeing = {}
        BY <1>3, <1>4, FreeingFacts DEF FreeingOf
      <3>2. \A k \in 1 .. Len(c) : c[k].op # "FreePoolI"
        BY <2>8, <2>5
      <3> QED BY <3>1, <3>2, <1>3, <2>10, NothingFreed
    <2>16. Owners'
      <3>1. Homes' = Homes /\ Got' = {} /\ Got = {ret}
        BY <1>6, <1>7, <2>3, <2>10 DEF Homes, Got
      <3>2. PoolHeadList \in [OsType -> PoolSlot \cup {Null}]
        BY <1>3 DEF Types
      <3>3. \A u, v \in OsType : PoolHeadList[u] = PoolHeadList[v] /\ PoolHeadList[u] # Null => u = v
        BY <1>2 DEF IInvParts, Owners
      <3>4. \A u \in OsType : PoolHeadList'[u] = IF u = t THEN ret ELSE PoolHeadList[u]
        BY <3>2, <2>3
      <3>5. Pools' = Pools \cup {ret}
        BY <3>4, <1>5, <1>7 DEF Pools
      <3>a. Pools \cap Got = {} /\ ret \notin Pools
        BY <3>1, <1>2 DEF IInvParts, Owners
      <3>7. used' = Homes' \cup held' \cup Pools' \cup Got' \cup Freeing'
        BY <3>1, <3>5, <1>2, <1>6, <2>15 DEF IInvParts, Owners
      <3>8. /\ Homes' \cap held' = {} /\ Homes' \cap Pools' = {} /\ Homes' \cap Got' = {} /\ Homes' \cap Freeing' = {}
            /\ held' \cap Pools' = {} /\ held' \cap Got' = {} /\ held' \cap Freeing' = {}
            /\ Pools' \cap Got' = {} /\ Pools' \cap Freeing' = {} /\ Got' \cap Freeing' = {}
        BY <3>1, <3>5, <1>2, <1>6, <2>15 DEF IInvParts, Owners
      <3>9. \A u, v \in OsType : PoolHeadList'[u] = PoolHeadList'[v] /\ PoolHeadList'[u] # Null => u = v
        BY <3>3, <3>4, <3>a, <1>7 DEF Pools
      <3>10. \A x \in Homes' : carved'[x[1]].type = RtData
        BY <3>1, <1>2, <1>6 DEF IInvParts, Owners
      <3> QED BY <3>7, <3>8, <3>9, <3>10, <2>15 DEF Owners
    <2>17. Blocks'
      <3>2. PoolKept'
        BY <1>2, <1>3, <1>6, <1>7, <2>3 DEF IInvParts, Blocks, PoolKept, Types
      <3> QED BY <3>2, <1>2, <1>6 DEF IInvParts, Blocks, BlocksAt
    <2>18. Lists'
      BY <1>2, <1>6, ListsKept DEF IInvParts
    <2>19. /\ used' \subseteq PoolSlot /\ held' \subseteq PoolSlot /\ ret' \in PoolSlot \cup {Null}
           /\ FreeList' \in [AllocType -> [0 .. MAX_POOL_LIST - 1 -> Seq(PoolSlot)]]
           /\ PoolHeadList' \in [OsType -> PoolSlot \cup {Null}]
      BY <1>3, <1>6, <2>3, <2>4 DEF Types
    <2> QED BY <1>6, <1>a, <2>9, <2>11, <2>13, <2>14, <2>16, <2>17, <2>18, <2>19, PoolStep
  <1>8. CASE ret = Null
    <2>0. PICK c : c = <<>>
      OBVIOUS
    <2>1. Goto(c) /\ PoolHeadList' = PoolHeadList /\ ret' = ret
      BY <1>8, <2>0 DEF NewPool
    <2>2. /\ c \in Seq(Frame) /\ Len(c) = 0 /\ Fits(c) /\ Pageless(c) /\ HeadsOK(c)
          /\ \A k \in 1 .. Len(c) : c[k].op # "FreePoolI" /\ c[k].op \notin MoveOp
      BY <2>0, Ends
    <2>3. Replaced(c)
      BY <1>4, <1>3, <2>1, <2>2, ReplacedFacts
    <2>4. Moving'
      BY <1>3, <1>6, <1>a, <2>2, <2>3, MovingKept
    <2>5. UNCHANGED state
      BY <1>6, <2>1 DEF state
    <2> QED BY <1>4, <1>8, <1>a, <2>1, <2>2, <2>4, <2>5, QuietStep
  <1> QED BY <1>7, <1>8

LEMMA BSAllocatePoolReturnsStep ==
    ASSUME IInv, BSAllocatePoolReturns
    PROVE  IInv' /\ MemoryMap' = MemoryMap
  <1> DEFINE n == Len(todo)
  <1>0. Running("BSAllocatePool")
    BY DEF BSAllocatePoolReturns
  <1>1. Runs("BSAllocatePool", n) /\ n = 1
    BY <1>0, BelowFacts, AloneFacts
  <1> HIDE DEF n
  <1>2. IInvParts
    BY Parts
  <1>3. Types /\ Moving /\ Typing /\ Shape
    BY <1>1, <1>2, TypesGiveTyping DEF IInvParts
  <1>4. /\ Last(todo).op \notin ClaimOp \cup {"AddRange"}
        /\ Last(todo).op # "FreePoolI" /\ todo # <<>>
    BY <1>1 DEF ClaimOp, Runs
  <1>6. /\ UNCHANGED memory /\ MapDepth' = MapDepth /\ FreeMapStack' = FreeMapStack /\ used' = used
        /\ FreeList' = FreeList /\ failed' = failed /\ PoolHeadList' = PoolHeadList
        /\ carved' = carved /\ ret' = Null /\ held' = held \cup Got
    BY DEF BSAllocatePoolReturns, memory, map, pool, Got
  <1>a. MapDepth \in Nat /\ MapDepth' \in Nat /\ FreeMapStack' \in BOOLEAN
    BY <1>3, <1>6 DEF Types
  <1>b0. PICK c : c = <<>>
    OBVIOUS
  <1>b1. Goto(c)
    BY <1>b0 DEF BSAllocatePoolReturns
  <1>b2. /\ c \in Seq(Frame) /\ Len(c) = 0 /\ Fits(c) /\ Pageless(c) /\ HeadsOK(c)
        /\ \A k \in 1 .. Len(c) : c[k].op # "FreePoolI" /\ c[k].op \notin MoveOp
    BY <1>b0, Ends
  <1>b9. Still(c)
    <2>1. \A x \in Linked : x \in StackSlot => x[2] < MapDepth'
      BY <1>2, <1>6 DEF IInvParts, Map
    <2> QED BY <2>1, <1>4, <1>6, <1>b1, <1>b2, StillStep
  <1>b10. Replaced(c) /\ Linked' = Linked
    BY <1>b9 DEF Still
  <1>b11. Moving'
    BY <1>3, <1>6, <1>a, <1>b2, <1>b10, MovingKept
  <1>b13. Heads'
    BY <1>2, <1>6, <1>b2, <1>b10, HeadsKept DEF IInvParts, HeadsOK
  <1>b14. Returned'
    BY <1>6, <1>b9 DEF Returned, Still
  <1>b15. Freeing = {} /\ Freeing' = {}
    BY <1>3, <1>4, <1>b2, <1>b10, FreeingFacts, NothingFreed DEF FreeingOf
  <1>b16. Owners'
    <2>1. Homes' = Homes /\ Got' = {} /\ Pools' = Pools /\ held' = held \cup Got
      BY <1>6, <1>b10 DEF Homes, Got, Pools
    <2>7. used' = Homes' \cup held' \cup Pools' \cup Got' \cup Freeing'
      BY <2>1, <1>2, <1>6, <1>b15 DEF IInvParts, Owners
    <2>8. /\ Homes' \cap held' = {} /\ Homes' \cap Pools' = {} /\ Homes' \cap Got' = {} /\ Homes' \cap Freeing' = {}
          /\ held' \cap Pools' = {} /\ held' \cap Got' = {} /\ held' \cap Freeing' = {}
          /\ Pools' \cap Got' = {} /\ Pools' \cap Freeing' = {} /\ Got' \cap Freeing' = {}
      BY <2>1, <1>2, <1>b15 DEF IInvParts, Owners
    <2> QED BY <2>1, <2>7, <2>8, <1>2, <1>6, <1>b15 DEF Owners, IInvParts
  <1>b17. Blocks' /\ Lists'
    BY <1>2, <1>6, ListsKept, BlocksKept DEF IInvParts
  <1>b19. /\ used' \subseteq PoolSlot /\ held' \subseteq PoolSlot /\ ret' \in PoolSlot \cup {Null}
         /\ FreeList' \in [AllocType -> [0 .. MAX_POOL_LIST - 1 -> Seq(PoolSlot)]]
         /\ PoolHeadList' \in [OsType -> PoolSlot \cup {Null}]
    BY <1>3, <1>6 DEF Types, Got
  <1> QED BY <1>6, <1>a, <1>b9, <1>b11, <1>b13, <1>b14, <1>b16, <1>b17, <1>b19, PoolStep

-----------------------------------------------------------------------------
(* The free lists over a step *)

FreeLists == [AllocType -> [0 .. MAX_POOL_LIST - 1 -> Seq(PoolSlot)]]

\* The first block of a list is taken.
LEMMA ListsTaken ==
    ASSUME FreeList \in FreeLists, Lists, NEW t \in AllocType, NEW l \in Index,
           FreeList[t][l] # <<>>, NEW s, s = Head(FreeList[t][l]),
           used' = used \cup {s}, carved' = carved, FreeList' = [FreeList EXCEPT ![t][l] = Tail(@)]
    PROVE  /\ Lists' /\ s \notin used /\ s \in PoolSlot /\ s \in BlocksAt(s[1]) /\ carved[s[1]].type = t
           /\ FreeList' \in FreeLists
  <1>f. PICK f : f = FreeList[t][l]
    OBVIOUS
  <1>0. f \in Seq(PoolSlot) /\ f # <<>> /\ s = Head(f)
    BY <1>f DEF FreeLists, Index
  <1>1. /\ Len(f) \in Nat \ {0} /\ DOMAIN f = 1 .. Len(f) /\ s = f[1] /\ s \in PoolSlot
        /\ Tail(f) \in Seq(PoolSlot) /\ Len(Tail(f)) = Len(f) - 1 /\ DOMAIN Tail(f) = 1 .. Len(f) - 1
        /\ \A i \in 1 .. Len(f) - 1 : Tail(f)[i] = f[i + 1]
    BY <1>0, EmptySeq, HeadTailProperties, LenProperties
  <1>2. \A u \in AllocType, k \in Index : FreeList'[u][k] = IF u = t /\ k = l THEN Tail(f) ELSE FreeList[u][k]
    BY <1>f DEF FreeLists, Index
  <1>3. FreeList' \in FreeLists
    BY <1>f, <1>1 DEF FreeLists, Index
  <1>4. OnList(s, t, l)
    <2>1. 1 \in DOMAIN f
      BY <1>1
    <2> QED BY <2>1, <1>1, <1>f DEF OnList
  <1>5. s \notin used /\ s \in BlocksAt(s[1]) /\ carved[s[1]].type = t
    BY <1>1, <1>4 DEF Lists
  <1>6. \A u \in AllocType, k \in Index : \A i \in DOMAIN FreeList'[u][k] :
           \E j \in DOMAIN FreeList[u][k] : /\ FreeList'[u][k][i] = FreeList[u][k][j]
                                            /\ j = IF u = t /\ k = l THEN i + 1 ELSE i
    <2> SUFFICES ASSUME NEW u \in AllocType, NEW k \in Index, NEW i \in DOMAIN FreeList'[u][k]
                 PROVE  \E j \in DOMAIN FreeList[u][k] : /\ FreeList'[u][k][i] = FreeList[u][k][j]
                                                         /\ j = IF u = t /\ k = l THEN i + 1 ELSE i
      OBVIOUS
    <2>1. CASE u = t /\ k = l
      <3>1. FreeList'[u][k] = Tail(f) /\ FreeList[u][k] = f
        BY <2>1, <1>2, <1>f
      <3>2. i \in 1 .. Len(f) - 1 /\ i + 1 \in 1 .. Len(f)
        BY <3>1, <1>1
      <3> QED BY <2>1, <3>1, <3>2, <1>1
    <2>2. CASE ~ (u = t /\ k = l)
      BY <2>2, <1>2
    <2> QED BY <2>1, <2>2
  <1>7. ASSUME NEW u \in AllocType, NEW k \in Index, NEW x \in PoolSlot, OnList(x, u, k)'
        PROVE  x \notin used' /\ x \in BlocksAt(x[1])' /\ carved'[x[1]].type = u
    <2>1. PICK i \in DOMAIN FreeList'[u][k] : FreeList'[u][k][i] = x
      BY <1>7 DEF OnList
    <2>2. PICK j \in DOMAIN FreeList[u][k] : x = FreeList[u][k][j] /\ j = IF u = t /\ k = l THEN i + 1 ELSE i
      BY <2>1, <1>6
    <2>3. x \notin used /\ x \in BlocksAt(x[1]) /\ carved[x[1]].type = u
      BY <2>2 DEF Lists, OnList
    <2>4. x # s
      <3> SUFFICES ASSUME x = s PROVE FALSE
        OBVIOUS
      <3>1. u = t
        BY <2>3, <1>5
      <3>2. 1 \in DOMAIN FreeList[t][l] /\ FreeList[t][l][1] = FreeList[t][k][j]
        BY <1>f, <1>1, <2>2, <3>1
      <3>3. k = l /\ j = 1
        BY <3>1, <3>2, <2>2 DEF Lists
      <3>4. i + 1 = 1 /\ i \in 1 .. Len(f) - 1
        BY <3>1, <3>3, <2>1, <2>2, <1>1, <1>2
      <3> QED BY <3>4, <1>1
    <2> QED BY <2>3, <2>4 DEF BlocksAt
  <1>8. ASSUME NEW u \in AllocType, NEW j \in Index, NEW k \in Index,
               NEW a \in DOMAIN FreeList'[u][j], NEW b \in DOMAIN FreeList'[u][k],
               FreeList'[u][j][a] = FreeList'[u][k][b]
        PROVE  j = k /\ a = b
    <2>1. PICK c \in DOMAIN FreeList[u][j] : FreeList'[u][j][a] = FreeList[u][j][c] /\ c = IF u = t /\ j = l THEN a + 1 ELSE a
      BY <1>6
    <2>2. PICK d \in DOMAIN FreeList[u][k] : FreeList'[u][k][b] = FreeList[u][k][d] /\ d = IF u = t /\ k = l THEN b + 1 ELSE b
      BY <1>6
    <2>3. j = k /\ c = d
      BY <2>1, <2>2, <1>8 DEF Lists
    <2>4. CASE u = t /\ k = l
      <3>1. a \in 1 .. Len(f) - 1 /\ b \in 1 .. Len(f) - 1
        BY <2>3, <2>4, <1>1, <1>2
      <3> QED BY <3>1, <2>1, <2>2, <2>3, <2>4, <1>1
    <2>5. CASE ~ (u = t /\ k = l)
      BY <2>1, <2>2, <2>3, <2>5
    <2> QED BY <2>3, <2>4, <2>5
  <1>9. Lists'
    BY <1>7, <1>8 DEF Lists
  <1> QED BY <1>1, <1>3, <1>5, <1>9

\* A block in use is put in front of a list.
LEMMA ListsFreed ==
    ASSUME FreeList \in FreeLists, Lists, NEW t \in AllocType, NEW l \in Index,
           NEW s \in PoolSlot, s \in used, s \in BlocksAt(s[1]), carved[s[1]].type = t,
           used' = used \ {s}, carved' = carved, FreeList' = [FreeList EXCEPT ![t][l] = <<s>> \o @]
    PROVE  Lists' /\ FreeList' \in FreeLists
  <1> DEFINE Old(u, k, i, j) == /\ FreeList'[u][k][i] = FreeList[u][k][j]
                                /\ i = IF u = t /\ k = l THEN j + 1 ELSE j
             Fresh(u, k, i) == u = t /\ k = l /\ i = 1 /\ FreeList'[u][k][i] = s
  <1>f. PICK f, g : f = FreeList[t][l] /\ g = <<s>> \o f
    OBVIOUS
  <1>0. f \in Seq(PoolSlot)
    BY <1>f DEF FreeLists, Index
  <1>1. /\ Len(f) \in Nat /\ DOMAIN f = 1 .. Len(f) /\ g \in Seq(PoolSlot) /\ g[1] = s
        /\ Len(g) = Len(f) + 1 /\ DOMAIN g = 1 .. Len(f) + 1 /\ \A i \in 1 .. Len(f) : g[i + 1] = f[i]
    BY <1>0, <1>f
  <1>2. \A u \in AllocType, k \in Index : FreeList'[u][k] = IF u = t /\ k = l THEN g ELSE FreeList[u][k]
    BY <1>f DEF FreeLists, Index
  <1>3. FreeList' \in FreeLists
    BY <1>f, <1>1 DEF FreeLists, Index
  <1>4. \A u \in AllocType, k \in Index : ~ OnList(s, u, k)
    BY DEF Lists
  <1>6. \A u \in AllocType, k \in Index : \A i \in DOMAIN FreeList'[u][k] :
           Fresh(u, k, i) \/ \E j \in DOMAIN FreeList[u][k] : Old(u, k, i, j)
    <2> SUFFICES ASSUME NEW u \in AllocType, NEW k \in Index, NEW i \in DOMAIN FreeList'[u][k],
                        ~ (u = t /\ k = l /\ i = 1)
                 PROVE  \E j \in DOMAIN FreeList[u][k] : /\ FreeList'[u][k][i] = FreeList[u][k][j]
                                                         /\ i = IF u = t /\ k = l THEN j + 1 ELSE j
      BY <1>1, <1>2
    <2>1. CASE u = t /\ k = l
      <3>1. FreeList'[u][k] = g /\ FreeList[u][k] = f
        BY <2>1, <1>2, <1>f
      <3>2. i - 1 \in 1 .. Len(f) /\ i = (i - 1) + 1
        BY <3>1, <2>1, <1>1
      <3> QED BY <2>1, <3>1, <3>2, <1>1
    <2>2. CASE ~ (u = t /\ k = l)
      BY <2>2, <1>2
    <2> QED BY <2>1, <2>2
  <1>7. ASSUME NEW u \in AllocType, NEW k \in Index, NEW x \in PoolSlot, OnList(x, u, k)'
        PROVE  x \notin used' /\ x \in BlocksAt(x[1])' /\ carved'[x[1]].type = u
    <2>1. PICK i \in DOMAIN FreeList'[u][k] : FreeList'[u][k][i] = x
      BY <1>7 DEF OnList
    <2>2. CASE u = t /\ x = s
      BY <2>2 DEF BlocksAt
    <2>3. CASE \E j \in DOMAIN FreeList[u][k] : x = FreeList[u][k][j]
      BY <2>3 DEF Lists, OnList, BlocksAt
    <2> QED BY <2>1, <2>2, <2>3, <1>6
  <1>8. ASSUME NEW u \in AllocType, NEW j \in Index, NEW k \in Index,
               NEW a \in DOMAIN FreeList'[u][j], NEW b \in DOMAIN FreeList'[u][k],
               FreeList'[u][j][a] = FreeList'[u][k][b]
        PROVE  j = k /\ a = b
    <2>a. ASSUME NEW m \in Index, NEW e \in DOMAIN FreeList'[u][m]
          PROVE  Fresh(u, m, e) \/ (FreeList'[u][m][e] # s /\ \E d \in DOMAIN FreeList[u][m] : Old(u, m, e, d))
      <3>1. \A d \in DOMAIN FreeList[u][m] : FreeList[u][m][d] # s
        BY <1>4 DEF OnList
      <3>2. \A d : Old(u, m, e, d) => FreeList'[u][m][e] = FreeList[u][m][d]
        OBVIOUS
      <3> HIDE DEF Old, Fresh
      <3> QED BY <3>1, <3>2, <1>6
    <2>1. CASE FreeList'[u][j][a] = s
      <3>1. FreeList'[u][k][b] = s
        BY <2>1, <1>8
      <3>2. Fresh(u, j, a) /\ Fresh(u, k, b)
        <4> HIDE DEF Old, Fresh
        <4> QED BY <2>a, <2>1, <3>1
      <3> QED BY <3>2
    <2>2. CASE FreeList'[u][j][a] # s
      <3>1. PICK c \in DOMAIN FreeList[u][j] : FreeList'[u][j][a] = FreeList[u][j][c] /\ a = IF u = t /\ j = l THEN c + 1 ELSE c
        BY <2>a, <2>2
      <3>2. PICK d \in DOMAIN FreeList[u][k] : FreeList'[u][k][b] = FreeList[u][k][d] /\ b = IF u = t /\ k = l THEN d + 1 ELSE d
        BY <2>a, <2>2, <1>8
      <3>3. j = k /\ c = d
        BY <3>1, <3>2, <1>8 DEF Lists
      <3> QED BY <3>1, <3>2, <3>3
    <2> QED BY <2>1, <2>2
  <1>9. Lists'
    BY <1>7, <1>8 DEF Lists
  <1> QED BY <1>3, <1>9

\* TakeBlock takes a block from the list, or finds neither block nor pages.
LEMMA TakeBlockStep ==
    ASSUME IInv, TakeBlock, used' # used \/ ret' # ret \/ Goto(<<>>)
    PROVE  IInv' /\ MemoryMap' = MemoryMap
  <1> DEFINE n == Len(todo)
  <1>r. PICK r, t, l : r = Last(todo) /\ t = r.type /\ l = r.list
    OBVIOUS
  <1>0. Running("TakeBlock")
    BY DEF TakeBlock
  <1>1. Runs("TakeBlock", n)
    BY <1>0, BelowFacts
  <1> HIDE DEF n
  <1>2. IInvParts
    BY Parts
  <1>3. Types /\ Moving /\ Typing /\ Shape /\ ret = Null
    BY <1>1, <1>2, TypesGiveTyping DEF IInvParts, Returned, Runs
  <1>4. /\ Last(todo).op \notin ClaimOp \cup {"AddRange"}
        /\ Last(todo).op # "FreePoolI" /\ todo # <<>>
    BY <1>1 DEF ClaimOp, Runs
  <1>5. t \in AllocType /\ l \in 0 .. MAX_POOL_LIST /\ r \in Frame /\ r = todo[n]
    BY <1>r, <1>1, FrameFacts DEF Runs, FrameOK
  <1>6. /\ UNCHANGED memory /\ MapDepth' = MapDepth /\ FreeMapStack' = FreeMapStack
        /\ PoolHeadList' = PoolHeadList /\ held' = held /\ failed' = failed
        /\ carved' = carved
    BY DEF TakeBlock, memory, map, callers
  <1>a. MapDepth \in Nat /\ MapDepth' \in Nat /\ FreeMapStack' \in BOOLEAN
    BY <1>3, <1>6 DEF Types
  <1>b. PICK c : c = <<>>
    OBVIOUS
  <1>c. /\ c \in Seq(Frame) /\ Len(c) = 0 /\ Fits(c) /\ Pageless(c) /\ HeadsOK(c)
        /\ \A k \in 1 .. Len(c) : c[k].op # "FreePoolI" /\ c[k].op \notin MoveOp
    BY <1>b, Ends
  <1>7. CASE used' # used \/ ret' # ret
    <2>1. PICK s : s = Head(FreeList[t][l])
      OBVIOUS
    <2>2. /\ l # MAX_POOL_LIST /\ FreeList[t][l] # <<>> /\ ret' = s /\ used' = used \cup {s}
          /\ FreeList' = [FreeList EXCEPT ![t][l] = Tail(@)] /\ Goto(c)
      BY <1>r, <1>7, <1>b, <1>3, <2>1 DEF TakeBlock
    <2>3. l \in Index
      BY <1>5, <2>2, PagesAssumption DEF Index
    <2>4. /\ Lists' /\ s \notin used /\ s \in PoolSlot /\ s \in BlocksAt(s[1]) /\ carved[s[1]].type = t
          /\ FreeList' \in FreeLists
      <3>1. FreeList \in FreeLists /\ Lists
        BY <1>2, <1>3 DEF Types, FreeLists, IInvParts
      <3> QED BY <3>1, <1>5, <1>6, <2>1, <2>2, <2>3, ListsTaken
    <2>9. Still(c)
      <3>1. \A x \in Linked : x \in StackSlot => x[2] < MapDepth'
        BY <1>2, <1>6 DEF IInvParts, Map
      <3> QED BY <3>1, <1>4, <1>6, <1>c, <2>2, StillStep
    <2>10. Replaced(c) /\ Linked' = Linked
      BY <2>9 DEF Still
    <2>11. Moving'
      BY <1>3, <1>6, <1>a, <1>c, <2>10, MovingKept
    <2>13. Heads'
      BY <1>2, <1>6, <1>c, <2>10, HeadsKept DEF IInvParts, HeadsOK
    <2>14. Returned'
      <3>1. n > 1 /\ n \in Nat /\ Under(todo[n - 1], todo[n]) /\ todo[n].type = t
        BY <1>1, <1>r, <1>5 DEF Runs, Bottom
      <3>2. todo[n - 1].op \in {"MoveEntry", "NewPool", "BSAllocatePool"} /\ (todo[n - 1].op = "MoveEntry" => t = RtData)
        BY <3>1, <1>1 DEF Under, PoolOp, Runs
      <3>3. Len(todo') = n - 1 /\ n - 1 \in 1 .. n - 1
        BY <3>1, <1>c, <2>10 DEF Replaced, After, n
      <3>4. todo'[n - 1] = todo[n - 1] /\ todo' # <<>> /\ Last(todo') = todo'[n - 1]
        BY <3>3, <2>10 DEF Replaced, After, n, Last
      <3> QED BY <3>2, <3>4, <2>2, <2>4, <2>9, <1>6 DEF Returned, Still
    <2>15. Freeing = {} /\ Freeing' = {}
      BY <1>3, <1>4, <1>c, <2>10, FreeingFacts, NothingFreed DEF FreeingOf
    <2>16. Owners'
      <3>0. s # Null
        BY <2>4, PagesAssumption DEF PoolSlot, Page, Null
      <3>1. Homes' = Homes /\ Got = {} /\ Got' = {s} /\ Pools' = Pools /\ held' = held
        BY <3>0, <1>3, <1>6, <2>2, <2>10 DEF Homes, Got, Pools
      <3>7. used' = Homes' \cup held' \cup Pools' \cup Got' \cup Freeing'
        BY <3>1, <1>2, <2>2, <2>15 DEF IInvParts, Owners
      <3>8. /\ Homes' \cap held' = {} /\ Homes' \cap Pools' = {} /\ Homes' \cap Got' = {} /\ Homes' \cap Freeing' = {}
            /\ held' \cap Pools' = {} /\ held' \cap Got' = {} /\ held' \cap Freeing' = {}
            /\ Pools' \cap Got' = {} /\ Pools' \cap Freeing' = {} /\ Got' \cap Freeing' = {}
        BY <3>1, <1>2, <2>4, <2>15 DEF IInvParts, Owners
      <3> QED BY <3>1, <3>7, <3>8, <1>2, <1>6, <2>15 DEF Owners, IInvParts
    <2>17. Blocks'
      <3>1. \A x \in used' : x \in BlocksAt(x[1])
        BY <1>2, <2>2, <2>4 DEF IInvParts, Blocks
      <3> QED BY <3>1, <1>2, <1>6, <2>2 DEF IInvParts, Blocks, BlocksAt, PoolKept
    <2>19. /\ used' \subseteq PoolSlot /\ held' \subseteq PoolSlot /\ ret' \in PoolSlot \cup {Null}
           /\ PoolHeadList' \in [OsType -> PoolSlot \cup {Null}]
           /\ FreeList' \in [AllocType -> [0 .. MAX_POOL_LIST - 1 -> Seq(PoolSlot)]]
      BY <1>3, <1>6, <2>2, <2>4 DEF Types, FreeLists
    <2> QED BY <1>6, <1>a, <2>4, <2>9, <2>11, <2>13, <2>14, <2>16, <2>17, <2>19, PoolStep
  <1>8. CASE used' = used /\ ret' = ret /\ Goto(<<>>)
    <2>1. Goto(c)
      BY <1>8, <1>b
    <2>3. Replaced(c)
      BY <1>4, <1>3, <1>c, <2>1, ReplacedFacts
    <2>2. FreeList' = FreeList
      <3> SUFFICES ASSUME FreeList' # FreeList PROVE FALSE
        OBVIOUS
      <3>1. PICK s : s = Head(FreeList[t][l])
        OBVIOUS
      <3>2. ret' = s /\ l # MAX_POOL_LIST /\ FreeList[t][l] # <<>>
        BY <1>r, <3>1 DEF TakeBlock
      <3>3. FreeList[t][l] \in Seq(PoolSlot)
        BY <3>2, <1>3, <1>5, PagesAssumption DEF Types
      <3>4. s \in PoolSlot
        BY <3>1, <3>2, <3>3, HeadTailProperties
      <3> QED BY <3>2, <3>4, <1>3, <1>8, PagesAssumption DEF PoolSlot, Page, Null
    <2>4. Moving'
      BY <1>3, <1>6, <1>a, <1>c, <2>3, MovingKept
    <2>5. UNCHANGED state
      BY <1>6, <1>8, <2>2 DEF state
    <2> QED BY <1>3, <1>4, <1>a, <1>c, <2>1, <2>4, <2>5, QuietStep
  <1> QED BY <1>7, <1>8

\* The entry on top of MapStack is not in use: the block for it is freed again.
LEMMA MoveNoEntryStep ==
    ASSUME IInv, MoveEntry, MapStack(MapDepth - 1) \notin Linked
    PROVE  IInv' /\ MemoryMap' = MemoryMap
  <1> DEFINE n == Len(todo)
  <1>0. Running("MoveEntry") /\ ret # Null
    BY DEF MoveEntry
  <1>1. Runs("MoveEntry", n)
    BY <1>0, BelowFacts
  <1> HIDE DEF n
  <1>2. IInvParts
    BY Parts
  <1>3. Types /\ Moving /\ Typing /\ Shape
    BY <1>1, <1>2, TypesGiveTyping DEF IInvParts
  <1>4. /\ Last(todo).op \notin ClaimOp \cup {"AddRange"}
        /\ Last(todo).op # "FreePoolI" /\ todo # <<>>
    BY <1>1 DEF ClaimOp, Runs
  <1>g. PICK g, h, c : g = Call("NextEntry") /\ h = DoFree(ret) /\ c = <<g, h>>
    OBVIOUS
  <1>6. /\ UNCHANGED memory /\ MapDepth' = MapDepth - 1 /\ FreeMapStack' = FreeMapStack /\ used' = used
        /\ FreeList' = FreeList /\ PoolHeadList' = PoolHeadList /\ held' = held /\ failed' = failed
        /\ carved' = carved /\ ret' = Null /\ Goto(c)
    BY <1>g DEF MoveEntry, memory, pool, callers
  <1>5. MapDepth \in Nat \ {0} /\ FreeMapStack /\ \A i \in 1 .. Len(todo) - 1 : todo[i].op \notin MoveOp
    <2>1. MapDepth > 0
      BY <1>1, <1>3 DEF Moving, Movers, Runs
    <2> QED BY <2>1, <1>1, <1>3, OnlyMover DEF MoveOp, n, Types
  <1>a. MapDepth' \in Nat /\ FreeMapStack' \in BOOLEAN
    BY <1>3, <1>5, <1>6 DEF Types
  <1>7. ret \in PoolSlot /\ carved[ret[1]].type = RtData
    BY <1>0, <1>1, <1>2, <1>3 DEF Types, IInvParts, Returned, Runs
  <1>8. g \in Frame /\ g.op = "NextEntry"
    <2>1. "NextEntry" \in Op
      BY DEF Op
    <2> QED BY <2>1, <1>g, CallFacts
  <1>9. h \in Frame /\ h.op = "FreePoolI" /\ h.slot = ret
    BY <1>g, <1>7, DoFreeFacts
  <1>10. /\ FrameOK(g) /\ FrameOK(h) /\ Under(g, h) /\ g.op \in Bottom /\ g.op \in MoveOp /\ h.op \notin MoveOp
         /\ g.op \notin ClaimOp \cup {"AddRange"} /\ h.op \notin ClaimOp \cup {"AddRange"}
    BY <1>7, <1>8, <1>9 DEF FrameOK, Under, Bottom, MoveOp, ClaimOp
  <1>11. Len(todo) > 1 => Under(todo[Len(todo) - 1], g)
    BY <1>1, <1>8 DEF Under, Runs, PoolOp
  <1>12. /\ c \in Seq(Frame) /\ Len(c) = 2 /\ c[1] = g /\ c[2] = h /\ Fits(c) /\ Pageless(c)
         /\ \A k \in 1 .. Len(c) : c[k] = g \/ c[k] = h
    BY <1>g, <1>8, <1>9, <1>10, <1>11, Fits2
  <1>13. Still(c)
    <2>1. \A x \in Linked : x \in StackSlot => x[2] < MapDepth'
      <3> SUFFICES ASSUME NEW x \in Linked, x \in StackSlot PROVE x[2] < MapDepth'
        OBVIOUS
      <3>1. x[2] < MapDepth
        BY <1>2 DEF IInvParts, Map
      <3>2. x = <<NPages, x[2]>> /\ x[2] \in Nat
        BY PagesAssumption DEF StackSlot
      <3>3. x[2] # MapDepth - 1
        BY <3>2 DEF MapStack
      <3> QED BY <3>1, <3>2, <3>3, <1>5, <1>6
    <2> QED BY <2>1, <1>4, <1>6, <1>12, StillStep
  <1>14. Replaced(c) /\ Linked' = Linked /\ Shape' /\ Typing'
    BY <1>13, <1>3, <1>6 DEF Still, Typing, memory
  <1>15. Moving'
    <2>1. \A k \in 2 .. Len(c) : c[k].op \notin MoveOp
      BY <1>10, <1>12
    <2>2. FreeMapStack' /\ Len(c) > 0 /\ c[1].op \in MoveOp /\ c[1].op # "MoveEntry"
      BY <1>5, <1>6, <1>8, <1>10, <1>12
    <2> QED BY <2>1, <2>2, <1>5, <1>14, MovingOn
  <1>16. Heads'
    <2>1. \A k \in 1 .. Len(c) : c[k].op \notin {"NewPool", "TakeBlock", "CarvePages", "FreePool"}
      BY <1>8, <1>9, <1>12
    <2> QED BY <2>1, <1>2, <1>6, <1>14, HeadsKept DEF IInvParts
  <1>17. Returned'
    BY <1>6, <1>13 DEF Returned, Still
  <1>18. Freeing = {} /\ Freeing' = {ret}
    <2>1. Freeing = {}
      BY <1>3, <1>4, FreeingFacts DEF FreeingOf
    <2>2. todo' # <<>> /\ Last(todo') = h
      <3>1. n \in Nat \ {0} /\ Len(todo') = n + 1 /\ todo'[n - 1 + 2] = c[2] /\ n - 1 + 2 = n + 1
        BY <1>1, <1>12, <1>14 DEF Replaced, After, Runs, n
      <3> QED BY <3>1, <1>12 DEF Last
    <2>3. FreeingOf'
      BY <1>14, FreeingFactsPrime
    <2> QED BY <2>1, <2>2, <2>3, <1>9 DEF FreeingOf
  <1>19. Owners'
    <3>1. Homes' = Homes /\ Got = {ret} /\ Got' = {} /\ Pools' = Pools /\ held' = held
      BY <1>0, <1>6, <1>14 DEF Homes, Got, Pools
    <3>7. used' = Homes' \cup held' \cup Pools' \cup Got' \cup Freeing'
      BY <3>1, <1>2, <1>6, <1>18 DEF IInvParts, Owners
    <3>8. /\ Homes' \cap held' = {} /\ Homes' \cap Pools' = {} /\ Homes' \cap Got' = {} /\ Homes' \cap Freeing' = {}
          /\ held' \cap Pools' = {} /\ held' \cap Got' = {} /\ held' \cap Freeing' = {}
          /\ Pools' \cap Got' = {} /\ Pools' \cap Freeing' = {} /\ Got' \cap Freeing' = {}
      BY <3>1, <1>2, <1>18 DEF IInvParts, Owners
    <3>9. \A s \in Freeing' : carved'[s[1]].type \notin OsType
      BY <1>6, <1>7, <1>18, PagesAssumption
    <3>10. /\ \A t, u \in OsType : PoolHeadList'[t] = PoolHeadList'[u] /\ PoolHeadList'[t] # Null => t = u
           /\ \A s \in Homes' : carved'[s[1]].type = RtData
      BY <3>1, <1>2, <1>6 DEF IInvParts, Owners
    <3> QED BY <3>7, <3>8, <3>9, <3>10 DEF Owners
  <1>20. Blocks' /\ Lists'
    BY <1>2, <1>6, ListsKept, BlocksKept DEF IInvParts
  <1>21. /\ used' \subseteq PoolSlot /\ held' \subseteq PoolSlot /\ ret' \in PoolSlot \cup {Null}
         /\ FreeList' \in [AllocType -> [0 .. MAX_POOL_LIST - 1 -> Seq(PoolSlot)]]
         /\ PoolHeadList' \in [OsType -> PoolSlot \cup {Null}]
    BY <1>3, <1>6 DEF Types
  <1> QED BY <1>6, <1>a, <1>13, <1>15, <1>16, <1>17, <1>19, <1>20, <1>21, PoolStep

LEMMA ListOfFacts ==
    ASSUME Types, NEW p \in Page, NEW s \in BlocksAt(p)
    PROVE  /\ ListOf(p, s[2]) \in 0 .. MAX_POOL_LIST
           /\ BlocksAt(p) # {s} => ListOf(p, s[2]) \in Index
  <1>k. PICK k : k = carved[p].list
    OBVIOUS
  <1>0. k \in 0 .. MAX_POOL_LIST /\ carved[p] # NotCarved
    BY <1>k DEF Types, BlocksAt
  <1>1. PICK b \in Carve(k) : s = <<p, b[1]>>
    BY <1>0, <1>k DEF BlocksAt
  <1>2. ASSUME NEW d \in Carve(k)
        PROVE  d = <<d[1], d[2]>> /\ d[2] \in 0 .. k
    <2>1. k \in Nat /\ Left(k) \in 0 .. k
      BY <1>0, FitFacts, PagesAssumption
    <2>2. CASE \E i \in 0 .. Fitting(k) - 1 : d = <<i * (k + 1), k>>
      BY <2>1, <2>2
    <2>3. CASE \E m \in {Left(k)} \ {0} : d = <<MAX_POOL_LIST - m, m - 1>>
      BY <2>1, <2>3
    <2> QED BY <2>2, <2>3 DEF Carve
  <1>3. b[2] \in 0 .. MAX_POOL_LIST /\ <<b[1], b[2]>> \in Carve(k) /\ s[2] = b[1]
    <2>1. b = <<b[1], b[2]>> /\ b[2] \in 0 .. k
      BY <1>2
    <2>2. b[2] \in 0 .. MAX_POOL_LIST
      BY <2>1, <1>0, PagesAssumption
    <2>3. s[2] = b[1]
      BY <1>1
    <2> QED BY <2>1, <2>2, <2>3
  <1>l. PICK l : l = ListOf(p, s[2])
    OBVIOUS
  <1>4. l \in 0 .. MAX_POOL_LIST /\ <<s[2], l>> \in Carve(k)
    BY <1>l, <1>k, <1>3 DEF ListOf
  <1>5. l <= k
    <2>1. <<s[2], l>>[2] \in 0 .. k
      BY <1>2, <1>4
    <2> QED BY <2>1, <1>0
  <1>6. k = MAX_POOL_LIST => BlocksAt(p) = {s}
    <2> SUFFICES ASSUME k = MAX_POOL_LIST PROVE BlocksAt(p) = {s}
      OBVIOUS
    <2>1. Fitting(k) = 1 /\ Left(k) = 0
      BY <1>0, FitFacts
    <2>2. \A d \in Carve(k) : d = <<0, k>>
      BY <2>1, <1>0, PagesAssumption DEF Carve
    <2>3. \A d \in Carve(k) : d = b
      BY <2>2
    <2> QED BY <2>3, <1>0, <1>1, <1>k DEF BlocksAt
  <1> QED BY <1>0, <1>4, <1>5, <1>6, <1>l, PagesAssumption DEF Index

\* What FreePoolI knows of the block.
LEMMA FreePoolIFacts ==
    ASSUME IInv, NEW n, Runs("FreePoolI", n), NEW s, s = todo[n].slot, NEW p, p = s[1],
           NEW t, t = carved[p].type
    PROVE  /\ s \in PoolSlot /\ s \in used /\ p \in Page /\ s \in BlocksAt(p) /\ Freeing = {s}
           /\ carved[p] # NotCarved /\ t \in AllocType /\ t \in MemType
           /\ n > 1 => t \notin OsType
           /\ t \in OsType => PoolHeadList[t] # Null
  <1>1. IInvParts /\ Typing
    BY Parts, TypesGiveTyping DEF IInvParts
  <1>2. s \in PoolSlot /\ p \in Page
    BY DEF Runs, FrameOK, PoolSlot
  <1>3. Freeing = {s}
    BY <1>1, FreeingFacts DEF FreeingOf, IInvParts, Runs
  <1>4. s \in used /\ s \in BlocksAt(p)
    BY <1>1, <1>3 DEF IInvParts, Owners, Blocks
  <1>5. carved[p] # NotCarved
    BY <1>4 DEF BlocksAt
  <1>6. t \in AllocType
    <2>1. carved[p].type # Absent
      BY <1>1, <1>2, <1>5 DEF IInvParts, Blocks
    <2> QED BY <2>1, <1>1, <1>2 DEF IInvParts, Types
  <1>7. n > 1 => t \notin OsType
    BY <1>1, <1>3 DEF IInvParts, Owners, Runs
  <1>8. t \in OsType => PoolHeadList[t] # Null
    BY <1>1, <1>2 DEF IInvParts, Blocks, PoolKept
  <1> QED BY <1>2, <1>3, <1>4, <1>5, <1>6, <1>7, <1>8 DEF MemType

\* Some other block of the page is in use.
LEMMA FreeBlockStep ==
    ASSUME IInv, FreePoolI, carved' = carved
    PROVE  IInv' /\ MemoryMap' = MemoryMap
  <1> DEFINE n == Len(todo)
  <1>r. PICK s, p, t, l : s = Last(todo).slot /\ p = s[1] /\ t = carved[p].type /\ l = ListOf(p, s[2])
    OBVIOUS
  <1>0. Running("FreePoolI")
    BY DEF FreePoolI
  <1>1. Runs("FreePoolI", n)
    BY <1>0, BelowFacts
  <1> HIDE DEF n
  <1>2. IInvParts
    BY Parts
  <1>3. Types /\ Moving /\ Typing /\ Shape /\ ret = Null
    BY <1>1, <1>2, TypesGiveTyping DEF IInvParts, Returned, Runs
  <1>4. /\ Last(todo).op \notin ClaimOp \cup {"AddRange"} /\ todo # <<>> /\ s = todo[n].slot
    BY <1>1, <1>r DEF ClaimOp, Runs
  <1>5. /\ s \in PoolSlot /\ s \in used /\ p \in Page /\ s \in BlocksAt(p) /\ Freeing = {s}
        /\ carved[p] # NotCarved /\ t \in AllocType /\ t \in MemType
        /\ n > 1 => t \notin OsType
        /\ t \in OsType => PoolHeadList[t] # Null
    BY <1>1, <1>4, <1>r, FreePoolIFacts
  <1>g. PICK g, c : g = [Call("FreePool") EXCEPT !.type = t] /\ c = <<g>>
    OBVIOUS
  <1>6. /\ UNCHANGED memory /\ MapDepth' = MapDepth /\ FreeMapStack' = FreeMapStack
        /\ PoolHeadList' = PoolHeadList /\ held' = held /\ failed' = failed /\ ret' = ret
        /\ used' = used \ {s}
    BY <1>r DEF FreePoolI, memory, map, callers
  <1>7. BlocksAt(p) \cap used' # {} /\ FreeList' = [FreeList EXCEPT ![t][l] = <<s>> \o @] /\ Goto(c)
    <2>1. [carved EXCEPT ![p] = NotCarved] # carved
      <3>1. [carved EXCEPT ![p] = NotCarved][p] = NotCarved
        BY <1>3, <1>5 DEF Types
      <3> QED BY <3>1, <1>5
    <2>2. ~ BlocksAt(p) \cap used' = {}
      BY <2>1, <1>r, <1>6 DEF FreePoolI
    <2> QED BY <2>2, <1>r, <1>6, <1>g DEF FreePoolI
  <1>8. l \in Index
    <2>1. BlocksAt(p) # {s}
      BY <1>6, <1>7
    <2> QED BY <2>1, <1>r, <1>3, <1>5, ListOfFacts
  <1>a. MapDepth \in Nat /\ MapDepth' \in Nat /\ FreeMapStack' \in BOOLEAN
    BY <1>3, <1>6 DEF Types
  <1>9. g \in Frame /\ g.op = "FreePool" /\ g.type = t
    BY <1>g, <1>5, FreePoolFacts
  <1>10. FrameOK(g) /\ g.op \notin ClaimOp \cup {"AddRange"} /\ g.op \notin MoveOp /\ g.op \in Bottom
    BY <1>5, <1>9 DEF FrameOK, ClaimOp, MoveOp, Bottom
  <1>11. Len(todo) > 1 => Under(todo[Len(todo) - 1], g)
    <2>1. n > 1 => Under(todo[n - 1], g)
      BY <1>1, <1>5, <1>9 DEF Under, Runs, PoolOp
    <2> QED BY <2>1 DEF n
  <1>12. c \in Seq(Frame) /\ Len(c) = 1 /\ Fits(c) /\ Pageless(c) /\ \A k \in 1 .. Len(c) : c[k] = g
    <2>1. c = <<g>> /\ g \in Frame /\ (Len(todo) = 1 => g.op \in Bottom)
      BY <1>g, <1>9, <1>10
    <2> QED BY <2>1, <1>10, <1>11, Fits1
  <1>13. Still(c)
    <2>1. \A x \in Linked : x \in StackSlot => x[2] < MapDepth'
      BY <1>2, <1>6 DEF IInvParts, Map
    <2> QED BY <2>1, <1>4, <1>6, <1>7, <1>12, StillStep
  <1>14. Replaced(c) /\ Linked' = Linked /\ Shape' /\ Typing'
    BY <1>13, <1>3, <1>6 DEF Still, Typing, memory
  <1>15. Moving'
    BY <1>3, <1>6, <1>a, <1>10, <1>12, <1>14, MovingKept
  <1>16. Heads'
    BY <1>2, <1>5, <1>6, <1>9, <1>12, <1>14, HeadsKept DEF IInvParts
  <1>17. Returned'
    BY <1>3, <1>6, <1>13 DEF Returned, Still
  <1>18. Freeing' = {}
    <2>1. \A k \in 1 .. Len(c) : c[k].op # "FreePoolI"
      BY <1>9, <1>12
    <2> QED BY <2>1, <1>3, <1>14, NothingFreed
  <1>19. Owners'
    <2>1. Homes' = Homes /\ Got' = Got /\ Pools' = Pools /\ held' = held
      BY <1>6, <1>14 DEF Homes, Got, Pools
    <2>7. used' = Homes' \cup held' \cup Pools' \cup Got' \cup Freeing'
      BY <2>1, <1>2, <1>5, <1>6, <1>18 DEF IInvParts, Owners
    <2>8. /\ Homes' \cap held' = {} /\ Homes' \cap Pools' = {} /\ Homes' \cap Got' = {} /\ Homes' \cap Freeing' = {}
          /\ held' \cap Pools' = {} /\ held' \cap Got' = {} /\ held' \cap Freeing' = {}
          /\ Pools' \cap Got' = {} /\ Pools' \cap Freeing' = {} /\ Got' \cap Freeing' = {}
      BY <2>1, <1>2, <1>18 DEF IInvParts, Owners
    <2>10. /\ \A u, v \in OsType : PoolHeadList'[u] = PoolHeadList'[v] /\ PoolHeadList'[u] # Null => u = v
           /\ \A x \in Homes' : carved'[x[1]].type = RtData
      BY <2>1, <1>2, <1>6 DEF IInvParts, Owners
    <2> QED BY <2>7, <2>8, <2>10, <1>18 DEF Owners
  <1>20. Blocks'
    <2>0. \A q : BlocksAt(q)' = BlocksAt(q)
      BY DEF BlocksAt
    <2>1. \A x \in used' : x \in BlocksAt(x[1])'
      BY <2>0, <1>2, <1>6 DEF IInvParts, Blocks
    <2>2. \A q \in Page : carved'[q] # NotCarved => BlocksAt(q)' \cap used' # {}
      <3> SUFFICES ASSUME NEW q \in Page, carved[q] # NotCarved PROVE BlocksAt(q) \cap used' # {}
        BY <2>0
      <3>1. CASE q = p
        BY <3>1, <1>7
      <3>2. CASE q # p
        <4>1. PICK x \in used : x \in BlocksAt(q)
          BY <1>2 DEF IInvParts, Blocks
        <4>2. x[1] = q
          BY <4>1 DEF BlocksAt
        <4> QED BY <4>1, <4>2, <3>2, <1>6, <1>r
      <3> QED BY <3>1, <3>2
    <2>3. PoolKept'
      BY <1>2, <1>6 DEF IInvParts, Blocks, PoolKept
    <2> QED BY <2>1, <2>2, <2>3, <1>2 DEF Blocks, IInvParts
  <1>21. Lists' /\ FreeList' \in FreeLists
    <2>1. FreeList \in FreeLists /\ Lists
      BY <1>2, <1>3 DEF Types, FreeLists, IInvParts
    <2>2. s \in BlocksAt(s[1]) /\ carved[s[1]].type = t
      BY <1>5, <1>r
    <2> QED BY <2>1, <2>2, <1>5, <1>6, <1>7, <1>8, ListsFreed
  <1>22. /\ used' \subseteq PoolSlot /\ held' \subseteq PoolSlot /\ ret' \in PoolSlot \cup {Null}
         /\ PoolHeadList' \in [OsType -> PoolSlot \cup {Null}]
         /\ FreeList' \in [AllocType -> [0 .. MAX_POOL_LIST - 1 -> Seq(PoolSlot)]]
    BY <1>3, <1>6, <1>21 DEF Types, FreeLists
  <1> QED BY <1>6, <1>a, <1>13, <1>15, <1>16, <1>17, <1>19, <1>20, <1>21, <1>22, PoolStep

\* A descriptor moves from one slot to another.
LEMMA MapMoved ==
    ASSUME Typing, Typing', Map, Reported, NEW x \in Slot, NEW y \in Linked, x \notin Linked,
           desc' = [desc EXCEPT ![x] = desc[y], ![y] = NoEntry], reported' = reported,
           x \in PoolSlot, \A s \in Linked : s \in StackSlot /\ s # y => s[2] < MapDepth',
           Adding' = Adding, \A i \in Adding : todo'[i] = todo[i]
    PROVE  /\ Map' /\ Reported' /\ Linked' = (Linked \ {y}) \cup {x}
           /\ \A p \in Page : PageAt(p)' = PageAt(p)
           /\ MemoryMap' = MemoryMap
           /\ desc'[x] = desc[y] /\ \A s \in Linked \ {y} : desc'[s] = desc[s]
  <1> DEFINE From(s) == IF s = x THEN y ELSE s
  <1>0. y \in Slot /\ x # y
    BY DEF Linked
  <1>a. NoEntry.type = Absent
    BY DEF NoEntry
  <1>1. desc'[x] = desc[y] /\ desc'[y].type = Absent /\ \A s \in Slot \ {x, y} : desc'[s] = desc[s]
    BY <1>0, <1>a DEF Typing
  <1>2. Linked' = (Linked \ {y}) \cup {x}
    <2>1. desc[y].type # Absent
      BY DEF Linked
    <2> QED BY <1>0, <1>1, <2>1 DEF Linked
  <1>3. \A s \in Linked' : From(s) \in Linked /\ desc'[s] = desc[From(s)]
    BY <1>0, <1>1, <1>2 DEF Linked
  <1>4. \A s, t \in Linked' : s # t => From(s) # From(t)
    BY <1>2
  <1>5. \A s \in Linked : \E t \in Linked' : desc'[t] = desc[s]
    BY <1>0, <1>1, <1>2 DEF Linked
  <1>s. \A s \in Linked' : s \in StackSlot => s[2] < MapDepth'
    <2>1. x \notin StackSlot
      BY PagesAssumption DEF PoolSlot, StackSlot, Page
    <2> QED BY <2>1, <1>2
  <1> HIDE DEF From
  <1>6. Map'
    <2>1. \A s, t \in Linked' : s # t => Disjoint(desc'[s], desc'[t]) /\ ~ Adjoins(desc'[s], desc'[t])
      BY <1>3, <1>4 DEF Map
    <2>2. \A s \in Linked', i \in Adding' : Disjoint(desc'[s], todo'[i])
      BY <1>3 DEF Map
    <2>3. \A i, j \in Adding' : i # j => Disjoint(todo'[i], todo'[j])
      BY DEF Map
    <2> QED BY <2>1, <2>2, <2>3, <1>s DEF Map, Disjoint, Adjoins
  <1>7. AllKnown /\ AllKnown'
    BY <1>6, PageAtFacts, PageAtFactsPrime
  <1>8. ASSUME NEW p \in Page
        PROVE  PageAt(p)' = PageAt(p)
    <2>1. Known(p) /\ Known(p)'
      BY <1>7 DEF AllKnown
    <2>2. CASE \E s \in Linked' : Covers(desc'[s], p)
      <3>1. PICK s \in Linked' : Covers(desc'[s], p)
        BY <2>2
      <3>2. PICK t \in Linked : desc'[s] = desc[t]
        BY <1>3
      <3>3. Covers(desc[t], p)
        BY <3>1, <3>2
      <3>4. PageAt(p) = [type |-> desc[t].type, attr |-> desc[t].attr]
        BY <2>1, <3>3 DEF Known
      <3>5. PageAt(p)' = [type |-> desc'[s].type, attr |-> desc'[s].attr]
        BY <2>1, <3>1 DEF Known, Covers
      <3> QED BY <3>2, <3>4, <3>5
    <2>3. CASE \E i \in Adding : Covers(todo[i], p)
      BY <2>1, <2>3 DEF Known, Covers
    <2>4. CASE (\A s \in Linked' : ~ Covers(desc'[s], p)) /\ (\A i \in Adding : ~ Covers(todo[i], p))
      <3>1. \A s \in Linked : ~ Covers(desc[s], p)
        BY <2>4, <1>5
      <3>2. \A i \in Adding' : ~ Covers(todo'[i], p)
        BY <2>4
      <3> QED BY <2>1, <2>4, <3>1, <3>2 DEF Known, Covers
    <2> QED BY <2>2, <2>3, <2>4
  <1>9. Reported'
    BY <1>8 DEF Reported
  <1>10. MemoryMap' = MemoryMap
    BY <1>8 DEF MemoryMap
  <1>11. \A s \in Linked \ {y} : desc'[s] = desc[s]
    BY <1>0, <1>1 DEF Linked
  <1> QED BY <1>1, <1>2, <1>6, <1>8, <1>9, <1>10, <1>11

LEMMA MoveEntryStep ==
    ASSUME IInv, MoveEntry, MapStack(MapDepth - 1) \in Linked
    PROVE  IInv' /\ MemoryMap' = MemoryMap
  <1> DEFINE n == Len(todo)
  <1>0. Running("MoveEntry") /\ ret # Null
    BY DEF MoveEntry
  <1>1. Runs("MoveEntry", n)
    BY <1>0, BelowFacts
  <1> HIDE DEF n
  <1>2. IInvParts
    BY Parts
  <1>3. Types /\ Moving /\ Typing /\ Shape
    BY <1>1, <1>2, TypesGiveTyping DEF IInvParts
  <1>4. /\ Last(todo).op \notin ClaimOp \cup {"AddRange"}
        /\ Last(todo).op # "FreePoolI" /\ Last(todo).op # "ConvertPages" /\ todo # <<>>
    BY <1>1 DEF ClaimOp, Runs
  <1>g. PICK g, c, y : g = Call("NextEntry") /\ c = <<g>> /\ y = MapStack(MapDepth - 1)
    OBVIOUS
  <1>6. /\ MapDepth' = MapDepth - 1 /\ FreeMapStack' = FreeMapStack /\ used' = used
        /\ FreeList' = FreeList /\ PoolHeadList' = PoolHeadList /\ held' = held /\ failed' = failed
        /\ carved' = carved /\ ret' = Null /\ Goto(c) /\ EfiAtRuntime' = EfiAtRuntime
        /\ reported' = reported /\ allocs' = allocs /\ lost' = lost /\ snap' = snap
        /\ desc' = [desc EXCEPT ![ret] = desc[y], ![y] = NoEntry]
    BY <1>g DEF MoveEntry, pool, callers
  <1>5. MapDepth \in Nat \ {0} /\ FreeMapStack /\ \A i \in 1 .. Len(todo) - 1 : todo[i].op \notin MoveOp
    <2>1. MapDepth > 0
      BY <1>1, <1>3 DEF Moving, Movers, Runs
    <2> QED BY <2>1, <1>1, <1>3, OnlyMover DEF MoveOp, n, Types
  <1>7. ret \in PoolSlot /\ ret \in Slot /\ carved[ret[1]].type = RtData /\ ret \notin Linked
    <2>1. ret \in PoolSlot /\ carved[ret[1]].type = RtData
      BY <1>0, <1>1, <1>2, <1>3 DEF Types, IInvParts, Returned, Runs
    <2>2. ret \in Got
      BY <1>0 DEF Got
    <2> QED BY <2>1, <2>2, <1>2 DEF IInvParts, Owners, Homes, Slot
  <1>8. g \in Frame /\ g.op = "NextEntry"
    <2>1. "NextEntry" \in Op
      BY DEF Op
    <2> QED BY <2>1, <1>g, CallFacts
  <1>10. /\ FrameOK(g) /\ g.op \in Bottom /\ g.op \in MoveOp /\ g.op \notin ClaimOp \cup {"AddRange"}
    BY <1>8 DEF FrameOK, Bottom, MoveOp, ClaimOp
  <1>11. Len(todo) > 1 => Under(todo[Len(todo) - 1], g)
    BY <1>1, <1>8 DEF Under, Runs, PoolOp
  <1>12. /\ c \in Seq(Frame) /\ Len(c) = 1 /\ c[1] = g /\ Fits(c) /\ Pageless(c)
         /\ \A k \in 1 .. Len(c) : c[k] = g
    <2>1. c = <<g>>
      BY <1>g
    <2> QED BY <2>1, <1>8, <1>10, <1>11, Fits1
  <1>13. Replaced(c)
    BY <1>3, <1>4, <1>6, <1>12, ReplacedFacts
  <1>14. todo' \in Seq(Frame) /\ \A i \in DOMAIN todo' : FrameOK(todo'[i])
    BY <1>3, <1>12, <1>13, StackTypes DEF Fits
  <1>15. Shape'
    BY <1>3, <1>6, <1>12, <1>13, ShapeKept DEF Fits
  <1>16. ~ failed
    BY <1>2, <1>4 DEF IInvParts, Returned, ClaimOp
  <1>17. Chosen'
    <2>1. \A k \in 1 .. Len(c) : c[k].op # "CarvePages"
      BY <1>8, <1>12
    <2> QED BY <2>1, <1>2, <1>4, <1>13, ChosenKept DEF IInvParts
  <1>18. Adding' = Adding /\ \A i \in Adding : todo'[i] = todo[i]
    <2>1. Last(todo).op # "AddRange" /\ \A k \in 1 .. Len(c) : c[k].op # "AddRange"
      BY <1>4, <1>8, <1>12
    <2> QED BY <2>1, <1>13, AddingKept
  <1>19. Typing'
    <2>1. y \in Slot /\ desc[y] \in Entry
      BY <1>3, <1>g, EntryFacts DEF Typing
    <2>2. desc' \in [Slot -> Entry \cup {NoEntry}]
      BY <2>1, <1>3, <1>6, <1>7 DEF Typing
    <2> QED BY <2>2, <1>14 DEF Typing
  <1>20. /\ Map' /\ Reported' /\ Linked' = (Linked \ {y}) \cup {ret}
         /\ \A p \in Page : PageAt(p)' = PageAt(p)
         /\ MemoryMap' = MemoryMap
         /\ desc'[ret] = desc[y] /\ \A s \in Linked \ {y} : desc'[s] = desc[s]
    <2>1. \A s \in Linked : s \in StackSlot /\ s # y => s[2] < MapDepth'
      <3> SUFFICES ASSUME NEW x \in Linked, x \in StackSlot, x # y PROVE x[2] < MapDepth'
        OBVIOUS
      <3>1. x[2] < MapDepth
        BY <1>2 DEF IInvParts, Map
      <3>2. x = <<NPages, x[2]>> /\ x[2] \in Nat
        BY PagesAssumption DEF StackSlot
      <3>3. x[2] # MapDepth - 1
        BY <3>2, <1>g DEF MapStack
      <3> QED BY <3>1, <3>2, <3>3, <1>5, <1>6
    <2> QED BY <2>1, <1>2, <1>3, <1>6, <1>7, <1>18, <1>19, <1>g, MapMoved DEF IInvParts
  <1>21. SameClaims
    <2>1. Last(todo).op \notin ClaimOp /\ \A k \in 1 .. Len(c) : c[k].op \notin ClaimOp
      BY <1>4, <1>10, <1>12
    <2> QED BY <2>1, <1>3, <1>13, ClaimsKept
  <1>22. Pages4' /\ Keys'
    BY <1>2, <1>6, <1>16, <1>18, <1>20, <1>21, PagesKept, KeysKept DEF IInvParts
  <1>23. Moving'
    <2>1. \A k \in 2 .. Len(c) : c[k].op \notin MoveOp
      BY <1>12
    <2>2. FreeMapStack' /\ Len(c) > 0 /\ c[1].op \in MoveOp /\ c[1].op # "MoveEntry"
      BY <1>5, <1>6, <1>8, <1>10, <1>12
    <2> QED BY <2>1, <2>2, <1>5, <1>13, MovingOn
  <1>24. Heads'
    <2>1. \A k \in 1 .. Len(c) : c[k].op \notin {"NewPool", "TakeBlock", "CarvePages", "FreePool"}
      BY <1>8, <1>12
    <2> QED BY <2>1, <1>2, <1>6, <1>13, HeadsKept DEF IInvParts
  <1>25. Returned'
    BY <1>6, <1>16 DEF Returned
  <1>26. Freeing = {} /\ Freeing' = {}
    <2>1. \A k \in 1 .. Len(c) : c[k].op # "FreePoolI"
      BY <1>8, <1>12
    <2> QED BY <2>1, <1>3, <1>4, <1>13, FreeingFacts, NothingFreed DEF FreeingOf
  <1>27. Owners'
    <2>0. y \notin PoolSlot
      BY <1>g, PagesAssumption DEF MapStack, PoolSlot, Page
    <2>1. Homes' = Homes \cup Got /\ Got = {ret} /\ Got' = {} /\ Pools' = Pools /\ held' = held
      BY <2>0, <1>0, <1>6, <1>7, <1>20 DEF Homes, Got, Pools
    <2>7. used' = Homes' \cup held' \cup Pools' \cup Got' \cup Freeing'
      BY <2>1, <1>2, <1>6, <1>26 DEF IInvParts, Owners
    <2>8. /\ Homes' \cap held' = {} /\ Homes' \cap Pools' = {} /\ Homes' \cap Got' = {} /\ Homes' \cap Freeing' = {}
          /\ held' \cap Pools' = {} /\ held' \cap Got' = {} /\ held' \cap Freeing' = {}
          /\ Pools' \cap Got' = {} /\ Pools' \cap Freeing' = {} /\ Got' \cap Freeing' = {}
      BY <2>1, <1>2, <1>26 DEF IInvParts, Owners
    <2>10. /\ \A u, v \in OsType : PoolHeadList'[u] = PoolHeadList'[v] /\ PoolHeadList'[u] # Null => u = v
           /\ \A x \in Homes' : carved'[x[1]].type = RtData
      BY <2>1, <1>2, <1>6, <1>7 DEF IInvParts, Owners
    <2> QED BY <2>7, <2>8, <2>10, <1>26 DEF Owners
  <1>28. Blocks' /\ Lists'
    BY <1>2, <1>6, ListsKept, BlocksKept DEF IInvParts
  <1>29. Types'
    <2>1. \A s \in Linked' : desc'[s].start <= desc'[s].end
      BY <1>3, <1>20, <1>g DEF Types
    <2>2. MapDepth' \in Nat /\ FreeMapStack' \in BOOLEAN /\ failed' \in BOOLEAN /\ EfiAtRuntime' \in BOOLEAN
      BY <1>3, <1>5, <1>6 DEF Types
    <2>3. desc' \in [Slot -> Entry \cup {NoEntry}]
      BY <1>19 DEF Typing
    <2> QED BY <2>1, <2>2, <2>3, <1>3, <1>6, <1>14 DEF Types
  <1> QED BY <1>15, <1>17, <1>20, <1>22, <1>23, <1>24, <1>25, <1>27, <1>28, <1>29, PartsPrime DEF IInvParts

-----------------------------------------------------------------------------
(* FindFreePages *)

\* The pages from a to b lie in one descriptor of free memory.
Free(a, b) == \E s \in Linked : desc[s].type = Conv /\ desc[s].start <= a /\ b <= desc[s].end

LEMMA FindIFacts ==
    ASSUME Types, NEW max \in Page, NEW al \in {1, 2}, NEW m \in Nat \ {0}, m % al = 0,
           NEW r, r = FindFreePagesI(max, m, al), r # 0
    PROVE  r \in Nat /\ Free(r, r + m - 1) /\ r % al = 0 /\ r + m - 1 < NPages
  <1> DEFINE top(s) == IF desc[s].end >= max THEN max ELSE desc[s].end
             EndIn(s) == AlignDown(top(s) + 1, al) - 1
             S == {s \in Linked : desc[s].type = Conv /\ desc[s].start <= max /\ EndIn(s) - desc[s].start + 1 >= m}
             fits == {EndIn(s) : s \in S}
  <1>1. r = IF fits = {} THEN 0 ELSE Max(fits) - m + 1
    BY DEF FindFreePagesI
  <1>2. fits # {} /\ r = Max(fits) - m + 1
    BY <1>1
  <1>3. ASSUME NEW s \in Linked
        PROVE  /\ desc[s].start \in Nat /\ desc[s].end \in Nat /\ desc[s].end < NPages
               /\ top(s) \in Nat /\ top(s) <= desc[s].end /\ top(s) <= max
               /\ EndIn(s) + 1 \in Nat /\ EndIn(s) \in Int /\ EndIn(s) <= top(s) /\ (EndIn(s) + 1) % al = 0
    <2>1. desc[s].start \in Nat /\ desc[s].end \in Nat /\ desc[s].end < NPages
      BY EntryFacts DEF Types
    <2>2. top(s) \in Nat /\ top(s) <= desc[s].end /\ top(s) <= max
      BY <2>1, PagesAssumption DEF Page
    <2>3. PICK u : u = top(s)
      OBVIOUS
    <2> HIDE DEF top
    <2>4. u + 1 \in Nat
      BY <2>2, <2>3
    <2>5. AlignDown(u + 1, al) \in Nat /\ AlignDown(u + 1, al) <= u + 1 /\ AlignDown(u + 1, al) % al = 0
      BY <2>4, AlignFacts
    <2>6. PICK v : v = AlignDown(u + 1, al)
      OBVIOUS
    <2>7. EndIn(s) = v - 1
      BY <2>3, <2>6
    <2> HIDE DEF EndIn
    <2>8. v - 1 + 1 = v /\ v - 1 \in Int /\ v - 1 <= u
      BY <2>5, <2>6, <2>2, <2>3
    <2> QED BY <2>1, <2>2, <2>3, <2>5, <2>6, <2>7, <2>8
  <1> HIDE DEF top, EndIn
  <1>4. \A e \in fits : e \in Nat /\ e <= NPages
    <2> SUFFICES ASSUME NEW s \in S PROVE EndIn(s) \in Nat /\ EndIn(s) <= NPages
      OBVIOUS
    <2>1. s \in Linked /\ EndIn(s) - desc[s].start + 1 >= m
      OBVIOUS
    <2>2. /\ desc[s].start \in Nat /\ desc[s].end \in Nat /\ desc[s].end < NPages /\ top(s) \in Nat
          /\ top(s) <= desc[s].end /\ EndIn(s) \in Int /\ EndIn(s) <= top(s) /\ NPages \in Nat
      BY <2>1, <1>3, PagesAssumption
    <2> QED BY <2>1, <2>2
  <1>5. fits \in SUBSET Nat /\ NPages \in Nat
    BY <1>4, PagesAssumption
  <1>6. Max(fits) \in fits
    BY <1>2, <1>4, <1>5, MaxFacts
  <1>7. PICK s \in S : Max(fits) = EndIn(s)
    BY <1>6
  <1>e. PICK e : e = EndIn(s)
    OBVIOUS
  <1>8. /\ s \in Linked /\ desc[s].type = Conv /\ e - desc[s].start + 1 >= m
        /\ desc[s].start \in Nat /\ desc[s].end \in Nat /\ desc[s].end < NPages
        /\ e \in Int /\ e <= desc[s].end /\ (e + 1) % al = 0
    <2>1. s \in Linked /\ desc[s].type = Conv /\ EndIn(s) - desc[s].start + 1 >= m
      OBVIOUS
    <2>2. top(s) \in Nat /\ top(s) <= desc[s].end /\ EndIn(s) <= top(s) /\ EndIn(s) \in Int
      BY <2>1, <1>3
    <2> QED BY <2>1, <2>2, <1>3, <1>e
  <1> HIDE DEF fits, S
  <1>9. r = e - m + 1
    BY <1>2, <1>7, <1>e
  <1>10. r \in Nat /\ desc[s].start <= r /\ r + m - 1 = e
    BY <1>8, <1>9
  <1>11. r % al = 0
    <2>1. CASE al = 1
      BY <2>1, <1>10
    <2>2. CASE al = 2
      BY <2>2, <1>8, <1>9, <1>10
    <2> QED BY <2>1, <2>2
  <1>12. Free(r, r + m - 1)
    <2>1. r + m - 1 = e /\ e <= desc[s].end /\ desc[s].start <= r /\ s \in Linked /\ desc[s].type = Conv
      BY <1>8, <1>10
    <2>2. r + m - 1 <= desc[s].end
      BY <2>1
    <2> QED BY <2>1, <2>2, Zenon DEF Free
  <1>13. r + m - 1 < NPages
    <2>1. NPages \in Nat
      BY PagesAssumption
    <2>2. desc[s].end \in Nat /\ desc[s].end < NPages /\ e \in Int /\ e <= desc[s].end
      BY <1>8
    <2>3. e < NPages
      BY <2>1, <2>2
    <2> QED BY <2>3, <1>10
  <1> QED BY <1>10, <1>11, <1>12, <1>13, Zenon

LEMMA FindFacts ==
    ASSUME Types, NEW max \in Page, NEW t \in AllocType, NEW al \in {1, 2}, NEW m \in Nat \ {0}, m % al = 0,
           NEW r, r = FindFreePages(max, m, t, al), r # 0
    PROVE  r \in Nat /\ Free(r, r + m - 1) /\ r % al = 0 /\ r + m - 1 < NPages
  <1> DEFINE low == IF max > Watermark[t] THEN Watermark[t] ELSE max
  <1>1. low \in Page
    BY PagesAssumption
  <1>2. r = FindFreePagesI(low, m, al) \/ r = FindFreePagesI(max, m, al)
    BY DEF FindFreePages
  <1> HIDE DEF low
  <1> QED BY <1>1, <1>2, FindIFacts

\* TakeBlock finds new pages and goes on to have them converted.
LEMMA TakePagesStep ==
    ASSUME IInv, TakeBlock, used' = used, ret' = ret, ~ Goto(<<>>)
    PROVE  IInv' /\ MemoryMap' = MemoryMap
  <1> DEFINE n == Len(todo)
  <1>r. PICK r, t, a : r = Last(todo) /\ t = r.type /\ a = FindFreePages(MAX_ADDRESS, Align, t, Align)
    OBVIOUS
  <1>0. Running("TakeBlock")
    BY DEF TakeBlock
  <1>1. Runs("TakeBlock", n)
    BY <1>0, BelowFacts
  <1> HIDE DEF n
  <1>2. IInvParts
    BY Parts
  <1>3. Types /\ Moving /\ Typing /\ Shape /\ ret = Null
    BY <1>1, <1>2, TypesGiveTyping DEF IInvParts, Returned, Runs
  <1>4. /\ Last(todo).op \notin ClaimOp \cup {"AddRange"} /\ todo # <<>>
        /\ Last(todo).op # "AddRange" /\ Last(todo).op # "FreePoolI" /\ Last(todo).op # "ConvertPages"
    BY <1>1 DEF ClaimOp, Runs
  <1>5. t \in AllocType /\ t \in MemType /\ t # Conv /\ r \in Frame /\ r = todo[n]
    BY <1>r, <1>1, PagesAssumption DEF Runs, FrameOK, MemType
  <1>g. PICK g, h, c : /\ g = [r EXCEPT !.op = "CarvePages", !.slot = <<a, 0>>]
                       /\ h = DoConvert(a, a + Align - 1, t) /\ c = <<g, h>>
    OBVIOUS
  <1>6. /\ MapDepth' = MapDepth /\ FreeMapStack' = FreeMapStack /\ FreeList' = FreeList
        /\ PoolHeadList' = PoolHeadList /\ held' = held /\ failed' = failed /\ desc' = desc
        /\ carved' = carved /\ EfiAtRuntime' = EfiAtRuntime
        /\ reported' = reported /\ allocs' = allocs /\ lost' = lost /\ snap' = snap
        /\ a # 0 /\ Goto(c)
    BY <1>r, <1>g DEF TakeBlock, map, callers
  <1>7. a \in Nat /\ Free(a, a + Align - 1) /\ a + Align - 1 < NPages
    <2>1. MAX_ADDRESS \in Page /\ Align \in {1, 2} /\ Align \in Nat \ {0} /\ Align % Align = 0
      BY PagesAssumption DEF MAX_ADDRESS, Page
    <2> QED BY <2>1, <1>r, <1>3, <1>5, <1>6, FindFacts
  <1>8. /\ a + Align - 1 \in Nat /\ a + Align <= NPages /\ a <= a + Align - 1 + 1 /\ a \in Page
        /\ <<a, 0>> \in PoolSlot
    <2>1. Align \in {1, 2} /\ NPages \in Nat /\ MAX_POOL_LIST \in Nat \ {0}
      BY PagesAssumption
    <2>2. a + Align - 1 \in Nat /\ a + Align <= NPages /\ a <= a + Align - 1 + 1 /\ a < NPages
      BY <2>1, <1>7
    <2>3. a \in Page /\ 0 \in 0 .. MAX_POOL_LIST - 1
      BY <2>1, <2>2, <1>7 DEF Page
    <2> QED BY <2>2, <2>3 DEF PoolSlot
  <1>9. g \in Frame /\ g.op = "CarvePages" /\ g.slot = <<a, 0>> /\ g.type = t
    <2>1. PICK s : s = <<a, 0>>
      OBVIOUS
    <2>2. s \in PoolSlot \cup {Null} /\ g = [r EXCEPT !.op = "CarvePages", !.slot = s]
      BY <2>1, <1>8, <1>g
    <2>3. g \in Frame /\ g.op = "CarvePages" /\ g.slot = s /\ g.type = r.type
      <3>1. g = CarveFrame(r, s)
        BY <2>2 DEF CarveFrame
      <3> QED BY <2>2, <3>1, <1>5, CarveFrameFacts
    <2> QED BY <2>1, <2>3, <1>r
  <1>10. h \in Frame /\ h.op = "ConvertPages" /\ h.start = a /\ h.end = a + Align - 1 /\ h.type = t
    BY <1>g, <1>5, <1>7, <1>8, DoConvertFacts
  <1>11. g.slot[1] = a
    BY <1>9
  <1>12. FrameOK(g) /\ FrameOK(h) /\ Under(g, h) /\ g.op \notin MoveOp /\ h.op \notin MoveOp
    <2>1. FrameOK(g)
      BY <1>5, <1>8, <1>9, <1>11 DEF FrameOK
    <2>2. FrameOK(h)
      BY <1>7, <1>8, <1>10 DEF FrameOK
    <2>3. Under(g, h)
      BY <1>7, <1>9, <1>10, <1>11 DEF Under
    <2> QED BY <2>1, <2>2, <2>3, <1>9, <1>10 DEF MoveOp
  <1>13. Len(todo) # 1 /\ (Len(todo) > 1 => Under(todo[Len(todo) - 1], g))
    <2>1. g.op \in PoolOp /\ g.type = todo[n].type /\ "TakeBlock" \in PoolOp
      BY <1>5, <1>r, <1>9 DEF PoolOp
    <2> QED BY <2>1, <1>1, PoolGoesOn
  <1>14. /\ c \in Seq(Frame) /\ Len(c) = 2 /\ c[1] = g /\ c[2] = h /\ Fits(c)
         /\ \A k \in 1 .. Len(c) : c[k] = g \/ c[k] = h
    <2>1. c = <<g, h>>
      BY <1>g
    <2> QED BY <2>1, <1>9, <1>10, <1>12, <1>13, Fits2
  <1>15. Replaced(c)
    BY <1>3, <1>4, <1>6, <1>14, ReplacedFacts
  <1>16. todo' \in Seq(Frame) /\ \A i \in DOMAIN todo' : FrameOK(todo'[i])
    BY <1>3, <1>14, <1>15, StackTypes DEF Fits
  <1>17. Shape'
    BY <1>3, <1>6, <1>14, <1>15, ShapeKept DEF Fits
  <1>18. ~ failed
    BY <1>2, <1>4 DEF IInvParts, Returned, ClaimOp
  <1>19. Adding' = Adding /\ \A i \in Adding : todo'[i] = todo[i]
    <2>1. \A k \in 1 .. Len(c) : c[k].op # "AddRange"
      BY <1>9, <1>10, <1>14
    <2> QED BY <2>1, <1>4, <1>15, AddingKept
  <1>20. Typing'
    BY <1>3, <1>6, <1>16 DEF Typing
  <1>21. /\ Map' /\ Reported' /\ Linked' = Linked
         /\ \A p \in Page : PageAt(p)' = PageAt(p)
         /\ MemoryMap' = MemoryMap
    <2>1. \A x \in Linked : x \in StackSlot => x[2] < MapDepth'
      BY <1>2, <1>6 DEF IInvParts, Map
    <2> QED BY <2>1, <1>2, <1>3, <1>6, <1>19, <1>20, MapKept DEF IInvParts
  <1>22. /\ n \in Nat \ {0} /\ Len(todo') = n + 1 /\ todo'[n] = g /\ todo'[n + 1] = h
         /\ DOMAIN todo' = 1 .. n + 1 /\ \A i \in 1 .. n - 1 : todo'[i] = todo[i]
    <2>1. /\ n \in Nat \ {0} /\ Len(todo') = n - 1 + 2 /\ todo'[n - 1 + 1] = g /\ todo'[n - 1 + 2] = h
          /\ DOMAIN todo' = 1 .. Len(todo') /\ \A i \in 1 .. n - 1 : todo'[i] = todo[i]
      <3>1. 1 \in 1 .. Len(c) /\ 2 \in 1 .. Len(c)
        BY <1>14
      <3> QED BY <3>1, <1>14, <1>15 DEF Replaced, After, n
    <2>2. n - 1 + 2 = n + 1 /\ n - 1 + 1 = n
      BY <2>1
    <2> QED BY <2>1, <2>2
  <1>23. SameClaims
    <2>1. ASSUME NEW i \in DOMAIN todo', NEW p \in Page, i \notin 1 .. n - 1, Claims(i, p)'
          PROVE  FALSE
      <3>0. i = n \/ i = n + 1
        BY <2>1, <1>22
      <3>1. CASE i = n
        <4>1. todo'[i] = g /\ todo'[i + 1] = h /\ i # Len(todo')
          BY <3>1, <1>22
        <4>2. a <= p /\ p < a
          BY <4>1, <2>1, <1>9, <1>10, <1>11 DEF Claims
        <4> QED BY <4>2, <1>7, PagesAssumption DEF Page
      <3>2. CASE i = n + 1
        BY <3>2, <2>1, <1>5, <1>10, <1>22 DEF Claims
      <3> QED BY <3>0, <3>1, <3>2
    <2>2. NoNewClaims
      BY <2>1 DEF NoNewClaims, n
    <2> QED BY <2>2, <1>3, <1>4, <1>15, ClaimsNone
  <1>24. Pages4' /\ Keys'
    BY <1>2, <1>6, <1>18, <1>19, <1>21, <1>23, PagesKept, KeysKept DEF IInvParts
  <1>25. Chosen'
    <2> SUFFICES ASSUME NEW i \in 1 .. Len(todo') - 1, todo'[i].op = "CarvePages"
                 PROVE  \/ todo'[i + 1].start = todo'[i + 1].end + 1
                        \/ /\ i + 1 = Len(todo') /\ todo'[i + 1].start = todo'[i].slot[1]
                           /\ \E s \in Linked' : /\ desc'[s].type = Conv /\ desc'[s].start <= todo'[i + 1].start
                                                 /\ todo'[i + 1].end <= desc'[s].end
      BY DEF Chosen
    <2>1. CASE i = n
      <3>1. todo'[i] = g /\ todo'[i + 1] = h /\ i + 1 = Len(todo')
        BY <2>1, <1>22
      <3>2. \E s \in Linked' : desc'[s].type = Conv /\ desc'[s].start <= a /\ a + Align - 1 <= desc'[s].end
        BY <1>6, <1>7, <1>21 DEF Free
      <3> QED BY <3>1, <3>2, <1>10, <1>11
    <2>2. CASE i # n
      <3>1. i \in 1 .. n - 1
        BY <2>2, <1>22
      <3>2. todo'[i] = todo[i]
        BY <3>1, <1>22
      <3>3. CASE i = n - 1
        <4>1. Under(todo[i], todo[n])
          BY <3>1, <3>3, <1>1 DEF Runs
        <4> QED BY <4>1, <3>2, <1>1 DEF Under, Runs
      <3>4. CASE i # n - 1
        <4>1. i + 1 \in 1 .. n - 1 /\ i + 1 # n
          BY <3>1, <3>4, <1>22
        <4>2. todo'[i + 1] = todo[i + 1]
          BY <4>1, <1>22
        <4>3. i \in 1 .. Len(todo) - 1 /\ i + 1 # Len(todo)
          BY <3>1, <4>1 DEF n
        <4> QED BY <4>2, <4>3, <3>2, <1>2 DEF IInvParts, Chosen
      <3> QED BY <3>3, <3>4
    <2> QED BY <2>1, <2>2
  <1>26. Moving'
    <2>1. MapDepth \in Nat /\ MapDepth' \in Nat /\ MapDepth <= MapDepth'
      BY <1>3, <1>6 DEF Types
    <2>2. \A k \in 1 .. Len(c) : c[k].op \notin MoveOp
      BY <1>12, <1>14
    <2> QED BY <2>1, <2>2, <1>3, <1>6, <1>15, MovingKept
  <1>27. Heads'
    <2>1. t \in OsType => PoolHeadList[t] # Null
      BY <1>1, <1>2, <1>r, <1>5 DEF IInvParts, Heads, Runs
    <2> QED BY <2>1, <1>2, <1>6, <1>9, <1>10, <1>14, <1>15, HeadsKept DEF IInvParts
  <1>28. Returned'
    BY <1>3, <1>6, <1>18 DEF Returned
  <1>29. Freeing = {} /\ Freeing' = {}
    <2>1. \A k \in 1 .. Len(c) : c[k].op # "FreePoolI"
      BY <1>9, <1>10, <1>14
    <2> QED BY <2>1, <1>3, <1>4, <1>15, FreeingFacts, NothingFreed DEF FreeingOf
  <1>30. Owners' /\ Blocks' /\ Lists'
    BY <1>2, <1>6, <1>21, <1>29, OwnersKept, ListsKept, BlocksKept DEF IInvParts
  <1>31. Types'
    BY <1>3, <1>6, <1>16, <1>21 DEF Types
  <1>z. IInv'
    BY <1>17, <1>21, <1>24, <1>25, <1>26, <1>27, <1>28, <1>30, <1>31, PartsPrime DEF IInvParts
  <1> QED BY <1>z, <1>21

LEMMA ListType ==
    ASSUME FreeList \in FreeLists, NEW t \in AllocType, NEW l \in Index
    PROVE  FreeList[t][l] \in Seq(PoolSlot)
  BY DEF FreeLists, Index

LEMMA ConcatCases ==
    ASSUME NEW S, NEW f \in Seq(S), NEW g \in Seq(S), NEW h, h = f \o g, NEW i \in DOMAIN h
    PROVE  /\ h \in Seq(S) /\ i \in Nat \ {0}
           /\ \/ i \in DOMAIN f /\ h[i] = f[i]
              \/ i - Len(f) \in DOMAIN g /\ h[i] = g[i - Len(f)]
           /\ Len(f) \in Nat
  <1>1. /\ f \o g \in Seq(S) /\ Len(f \o g) = Len(f) + Len(g)
        /\ \A m \in 1 .. Len(f) + Len(g) : (f \o g)[m] = IF m <= Len(f) THEN f[m] ELSE g[m - Len(f)]
    BY ConcatProperties, Zenon
  <1>2. /\ DOMAIN h = 1 .. Len(f) + Len(g) /\ DOMAIN g = 1 .. Len(g) /\ DOMAIN f = 1 .. Len(f)
        /\ Len(f) \in Nat /\ Len(g) \in Nat
    BY <1>1, LenProperties
  <1>3. CASE i <= Len(f)
    BY <1>1, <1>2, <1>3
  <1>4. CASE ~ (i <= Len(f))
    <2>1. i - Len(f) \in DOMAIN g /\ i \in 1 .. Len(f) + Len(g)
      BY <1>2, <1>4
    <2> QED BY <2>1, <1>1, <1>2, <1>4
  <1> QED BY <1>3, <1>4

\* The lists of type t get new blocks in front.
Prepended(t, N) ==
    \A u \in AllocType, l \in Index : FreeList'[u][l] = IF u = t THEN N[l] \o FreeList[t][l] ELSE FreeList[u][l]

FromNew(t, N, u, l, i) == u = t /\ i \in DOMAIN N[l] /\ FreeList'[u][l][i] = N[l][i]

FromOld(t, N, u, l, i, j) ==
    j \in DOMAIN FreeList[u][l] /\ FreeList'[u][l][i] = FreeList[u][l][j] /\ j = IF u = t THEN i - Len(N[l]) ELSE i

LEMMA PrependCases ==
    ASSUME FreeList \in FreeLists, NEW t \in AllocType, NEW N \in [Index -> Seq(PoolSlot)], Prepended(t, N),
           NEW u \in AllocType, NEW l \in Index, NEW i \in DOMAIN FreeList'[u][l]
    PROVE  i \in Nat \ {0} /\ (FromNew(t, N, u, l, i) \/ \E j : FromOld(t, N, u, l, i, j))
  <1>0. FreeList[u][l] \in Seq(PoolSlot) /\ FreeList[t][l] \in Seq(PoolSlot) /\ N[l] \in Seq(PoolSlot)
    BY DEF FreeLists, Index
  <1>1. CASE u # t
    <2>1. FreeList'[u][l] = FreeList[u][l]
      BY <1>1 DEF Prepended
    <2> QED BY <2>1, <1>0, <1>1 DEF FromOld
  <1>2. CASE u = t
    <2>1. PICK f, g, h : f = N[l] /\ g = FreeList[u][l] /\ h = FreeList'[u][l]
      OBVIOUS
    <2>2. f \in Seq(PoolSlot) /\ g \in Seq(PoolSlot) /\ h = f \o g /\ i \in DOMAIN h
      BY <2>1, <1>0, <1>2 DEF Prepended
    <2>3. /\ i \in Nat \ {0}
          /\ \/ i \in DOMAIN f /\ h[i] = f[i]
             \/ i - Len(f) \in DOMAIN g /\ h[i] = g[i - Len(f)]
      BY <2>2, ConcatCases
    <2> QED BY <2>1, <2>3, <1>2 DEF FromNew, FromOld
  <1> QED BY <1>1, <1>2

LEMMA PrependedTypes ==
    ASSUME FreeList \in FreeLists, NEW t \in AllocType, NEW N \in [Index -> Seq(PoolSlot)], Prepended(t, N),
           DOMAIN FreeList' = AllocType, FreeList' = [u \in AllocType |-> FreeList'[u]],
           \A u \in AllocType : FreeList'[u] = [l \in Index |-> FreeList'[u][l]]
    PROVE  FreeList' \in FreeLists
  <1>1. \A l \in Index : N[l] \o FreeList[t][l] \in Seq(PoolSlot)
    <2> TAKE l \in Index
    <2>1. N[l] \in Seq(PoolSlot) /\ FreeList[t][l] \in Seq(PoolSlot)
      BY DEF FreeLists, Index
    <2> QED BY <2>1, ConcatProperties
  <1>3. ASSUME NEW u \in AllocType, NEW l \in Index
        PROVE  FreeList'[u][l] \in Seq(PoolSlot)
    <2>1. CASE u = t
      <3>1. FreeList'[u][l] = N[l] \o FreeList[t][l]
        BY <2>1, Zenon DEF Prepended
      <3> QED BY <3>1, <1>1
    <2>2. CASE u # t
      <3>1. FreeList'[u][l] = FreeList[u][l]
        BY <2>2, Zenon DEF Prepended
      <3>2. FreeList[u][l] \in Seq(PoolSlot)
        BY ListType, Zenon
      <3> QED BY <3>1, <3>2, Zenon
    <2> QED BY <2>1, <2>2
  <1>4. \A u \in AllocType : FreeList'[u] \in [Index -> Seq(PoolSlot)]
    BY <1>3
  <1> QED BY <1>4 DEF FreeLists, Index

\* What is put in front are blocks of p other than s, each one once.
NewOnes(N, p, s) ==
    /\ \A l \in Index : \A i \in DOMAIN N[l] : N[l][i] \in BlocksAt(p)' /\ N[l][i][1] = p /\ N[l][i] # s
    /\ \A l, m \in Index : \A i \in DOMAIN N[l], j \in DOMAIN N[m] : N[l][i] = N[m][j] => l = m /\ i = j

LEMMA ListsPrepended ==
    ASSUME FreeList \in FreeLists, Lists, NEW t \in AllocType, NEW N \in [Index -> Seq(PoolSlot)], Prepended(t, N),
           NEW p \in Page, carved[p] = NotCarved, \A q \in Page : q # p => carved'[q] = carved[q],
           carved'[p].type = t, NEW s, used' = used \cup {s}, s[1] = p, \A x \in used : x[1] # p, NewOnes(N, p, s)
    PROVE  Lists'
  <1>1. \A l \in Index : \A i \in DOMAIN N[l] : N[l][i] \in BlocksAt(p)' /\ N[l][i][1] = p /\ N[l][i] # s
    BY DEF NewOnes
  <1>2. \A l, m \in Index : \A i \in DOMAIN N[l], j \in DOMAIN N[m] : N[l][i] = N[m][j] => l = m /\ i = j
    BY DEF NewOnes
  <1>9. ASSUME NEW u \in AllocType, NEW l \in Index, NEW i, NEW j, FromOld(t, N, u, l, i, j), NEW x, x = FreeList'[u][l][i]
        PROVE  x \in PoolSlot /\ x \notin used /\ x \in BlocksAt(x[1]) /\ carved[x[1]].type = u /\ x[1] # p /\ x[1] \in Page
    <2>1. x = FreeList[u][l][j] /\ j \in DOMAIN FreeList[u][l]
      BY <1>9, Zenon DEF FromOld
    <2>2. FreeList[u][l] \in Seq(PoolSlot)
      BY ListType, Zenon
    <2>3. x \in PoolSlot
      BY <2>1, <2>2, ElementOfSeq, LenProperties
    <2>4. OnList(x, u, l)
      BY <2>1, <2>2 DEF OnList
    <2>5. x \notin used /\ x \in BlocksAt(x[1]) /\ carved[x[1]].type = u
      BY <2>3, <2>4 DEF Lists
    <2>6. x[1] # p
      BY <2>5 DEF BlocksAt
    <2> QED BY <2>3, <2>5, <2>6 DEF PoolSlot
  <1>13. ASSUME NEW u \in AllocType, NEW l \in Index, NEW x \in PoolSlot, OnList(x, u, l)'
         PROVE  x \notin used' /\ x \in BlocksAt(x[1])' /\ carved'[x[1]].type = u
    <2>1. PICK i \in DOMAIN FreeList'[u][l] : FreeList'[u][l][i] = x
      BY <1>13 DEF OnList
    <2>2. CASE FromNew(t, N, u, l, i)
      <3>1. u = t /\ x \in BlocksAt(p)' /\ x[1] = p /\ x # s
        BY <2>1, <2>2, <1>1 DEF FromNew
      <3> QED BY <3>1
    <2>3. CASE \E j : FromOld(t, N, u, l, i, j)
      <3>1. x \notin used /\ x \in BlocksAt(x[1]) /\ carved[x[1]].type = u /\ x[1] # p /\ x[1] \in Page
        BY <2>1, <2>3, <1>9
      <3> QED BY <3>1 DEF BlocksAt
    <2> QED BY <2>2, <2>3, PrependCases
  <1>14. ASSUME NEW u \in AllocType, NEW l \in Index, NEW m \in Index,
                NEW a \in DOMAIN FreeList'[u][l], NEW b \in DOMAIN FreeList'[u][m],
                FreeList'[u][l][a] = FreeList'[u][m][b]
         PROVE  l = m /\ a = b
    <2>0. /\ a \in Nat /\ (FromNew(t, N, u, l, a) \/ \E j : FromOld(t, N, u, l, a, j))
          /\ b \in Nat /\ (FromNew(t, N, u, m, b) \/ \E j : FromOld(t, N, u, m, b, j))
      BY PrependCases
    <2>1. CASE FromNew(t, N, u, l, a) /\ FromNew(t, N, u, m, b)
      BY <2>1, <1>14, <1>2 DEF FromNew
    <2>2. CASE FromNew(t, N, u, l, a) /\ \E j : FromOld(t, N, u, m, b, j)
      <3>1. FreeList'[u][l][a][1] = p
        BY <2>2, <1>1 DEF FromNew
      <3>2. FreeList'[u][m][b][1] # p
        BY <2>2, <1>9
      <3> QED BY <3>1, <3>2, <1>14
    <2>3. CASE FromNew(t, N, u, m, b) /\ \E j : FromOld(t, N, u, l, a, j)
      <3>1. FreeList'[u][m][b][1] = p
        BY <2>3, <1>1 DEF FromNew
      <3>2. FreeList'[u][l][a][1] # p
        BY <2>3, <1>9
      <3> QED BY <3>1, <3>2, <1>14
    <2>4. CASE (\E j : FromOld(t, N, u, l, a, j)) /\ (\E j : FromOld(t, N, u, m, b, j))
      <3>1. PICK j : FromOld(t, N, u, l, a, j)
        BY <2>4
      <3>2. PICK i : FromOld(t, N, u, m, b, i)
        BY <2>4
      <3>3. l = m /\ j = i
        BY <3>1, <3>2, <1>14 DEF Lists, FromOld
      <3>4. CASE u = t
        <4>1. N[l] \in Seq(PoolSlot) /\ Len(N[l]) \in Nat
          OBVIOUS
        <4>2. a - Len(N[l]) = b - Len(N[l])
          BY <3>1, <3>2, <3>3, <3>4 DEF FromOld
        <4> QED BY <4>1, <4>2, <3>3, <2>0
      <3>5. CASE u # t
        BY <3>1, <3>2, <3>3, <3>5 DEF FromOld
      <3> QED BY <3>4, <3>5
    <2> QED BY <2>0, <2>1, <2>2, <2>3, <2>4
  <1> QED BY <1>13, <1>14 DEF Lists

-----------------------------------------------------------------------------
(* Claims over a step *)

OwnedIs == \A p \in Page : p \in Owned <=>
    (\E a \in allocs : InAlloc(a, p)) \/ (\E q \in Page : InPool(q, p)) \/ InRegion(p)

LEMMA RegionFacts ==
    ASSUME NEW i \in DOMAIN Region
    PROVE  /\ Region[i].start \in Nat /\ Region[i].end \in Nat /\ Region[i].start <= Region[i].end
           /\ Region[i].end < NPages /\ Region[i].type \in MemType /\ Region[i].attr \in {0, 1}
           /\ i \in Nat \ {0} /\ i <= Len(Region) /\ Len(Region) \in Nat
  <1>1. PICK R : R = [start : Page, end : Page, type : MemType, attr : {0, 1}]
    OBVIOUS
  <1>2. Region \in Seq(R)
    BY <1>1, PagesAssumption
  <1>3. Len(Region) \in Nat /\ DOMAIN Region = 1 .. Len(Region) /\ Region[i] \in R
    BY <1>2, LenProperties, ElementOfSeq
  <1>4. Region[i].start \in Page /\ Region[i].end \in Page /\ Region[i].type \in MemType /\ Region[i].attr \in {0, 1}
    BY <1>1, <1>3
  <1>5. Region[i].start <= Region[i].end
    BY PagesAssumption
  <1>6. \A p \in Page : p \in Nat /\ p < NPages
    BY PagesAssumption DEF Page
  <1> QED BY <1>3, <1>4, <1>5, <1>6

LEMMA OwnedFacts == OwnedIs
  <1>1. ASSUME NEW p \in Page
        PROVE  p \in Owned <=> \/ \E a \in allocs : Covers(a, p)
                               \/ \E q \in Page : carved[q] # NotCarved /\ q <= p /\ p < q + Align
                               \/ \E i \in DOMAIN Region : Region[i].type # Conv /\ Covers(Region[i], p)
    BY Zenon DEF Owned
  <1> QED BY <1>1 DEF OwnedIs, InAlloc, InPool, InRegion, Covers

LEMMA OwnedFactsPrime == OwnedIs'
  BY OwnedFacts, PTL

\* The calls below the running one keep their pages.
Below(n) ==
    \A i \in 1 .. n - 1 : /\ i \in DOMAIN todo /\ i \in DOMAIN todo' /\ todo'[i] = todo[i]
                          /\ \A p \in Page : Claims(i, p)' <=> Claims(i, p)

LEMMA ClaimsBelow ==
    ASSUME NEW c, Replaced(c), NEW n, n = Len(todo),
           n > 1 => todo[n - 1].op \notin {"AllocatePages", "CarvePages"}
    PROVE  Below(n)
  <1>0. /\ n \in Nat \ {0} /\ DOMAIN todo = 1 .. n
        /\ Len(c) \in Nat /\ Len(todo') = n - 1 + Len(c) /\ DOMAIN todo' = 1 .. Len(todo')
        /\ \A i \in 1 .. n - 1 : todo'[i] = todo[i]
    BY DEF Replaced, After
  <1> SUFFICES ASSUME NEW i \in 1 .. n - 1
               PROVE  /\ i \in DOMAIN todo /\ i \in DOMAIN todo' /\ todo'[i] = todo[i]
                      /\ \A p \in Page : Claims(i, p)' <=> Claims(i, p)
    BY DEF Below
  <1>1. todo'[i] = todo[i] /\ i \in DOMAIN todo /\ i \in DOMAIN todo'
    BY <1>0
  <1>2. CASE i = n - 1
    <2>1. n > 1
      BY <1>0, <1>2
    <2> QED BY <1>1, <1>2, <2>1 DEF Claims, Covers
  <1>3. CASE i # n - 1
    <2>0. n \in Nat \ {0} /\ Len(c) \in Nat /\ Len(todo') = n - 1 + Len(c)
      BY <1>0
    <2>1. i + 1 \in 1 .. n - 1 /\ i # n /\ i # Len(todo')
      BY <1>3, <2>0
    <2>2. todo'[i + 1] = todo[i + 1]
      BY <2>1, <1>0
    <2> QED BY <1>1, <2>1, <2>2 DEF Claims, Covers
  <1> QED BY <1>2, <1>3

LEMMA CarvedPages ==
    ASSUME Types, Types', Pages4, NEW n, Below(n), DOMAIN todo = 1 .. n, n \in Nat \ {0}, DOMAIN todo' = 1 .. n - 1,
           todo[n].op = "CarvePages", NEW x \in Page, NEW t \in AllocType, todo[n].type = t,
           carved'[x].type = t, \A q \in Page : q # x => carved'[q] = carved[q], x + Align <= NPages,
           \A p \in Page : Claims(n, p) <=> x <= p /\ p < x + Align,
           allocs' = allocs, lost' = lost, ~ failed,
           \A p \in Page : PageAt(p)' = PageAt(p),
           \A i \in Adding' : i \in Adding /\ todo'[i] = todo[i]
    PROVE  Pages4'
  <1>0. /\ \A a, p : InAlloc(a, p)' <=> InAlloc(a, p)
        /\ \A p : InRegion(p)' <=> InRegion(p)
    BY DEF InAlloc, InRegion
  <1>1. \A q, p \in Page : InPool(q, p)' => InPool(q, p) \/ (q = x /\ Claims(n, p))
    BY DEF InPool
  <1>2. \A p \in Page : Claims(n, p) => InPool(x, p)'
    <2>1. carved'[x] # NotCarved
      BY PagesAssumption DEF NotCarved, MemType
    <2> QED BY <2>1 DEF InPool
  <1>3. n \in DOMAIN todo /\ \A i \in 1 .. n - 1 : i \in DOMAIN todo /\ i # n
    OBVIOUS
  <1>4. /\ \A p \in Page, q \in Page : Claims(n, p) => ~ InPool(q, p)
        /\ \A p \in Page, a \in allocs : Claims(n, p) => ~ InAlloc(a, p)
        /\ \A p \in Page : Claims(n, p) => ~ InRegion(p)
        /\ \A p \in Page : \A i \in 1 .. n - 1 : ~ (Claims(i, p) /\ Claims(n, p))
    BY <1>3 DEF Pages4, OnePageOwner
  <1>5. \A i \in DOMAIN todo', p \in Page :
           Claims(i, p)' => i \in DOMAIN todo /\ Claims(i, p) /\ ~ Claims(n, p) /\ todo'[i] = todo[i]
    BY <1>4 DEF Below
  <1>6. OnePageOwner'
    <2>1. \A p \in Page : carved'[p] # NotCarved => p + Align <= NPages
      BY DEF Pages4, OnePageOwner
    <2>2. \A a, b \in allocs', p \in Page : InAlloc(a, p)' /\ InAlloc(b, p)' => a = b
      BY <1>0 DEF Pages4, OnePageOwner
    <2>3. \A q, r, p \in Page : InPool(q, p)' /\ InPool(r, p)' => q = r
      BY <1>1, <1>4 DEF Pages4, OnePageOwner
    <2>4. \A a \in allocs', q, p \in Page : ~ (InAlloc(a, p)' /\ InPool(q, p)')
      BY <1>0, <1>1, <1>4 DEF Pages4, OnePageOwner
    <2>5. \A p \in Page : InRegion(p)' =>
            (\A a \in allocs' : ~ InAlloc(a, p)') /\ (\A q \in Page : ~ InPool(q, p)')
      BY <1>0, <1>1, <1>4 DEF Pages4, OnePageOwner
    <2>6. \A i \in DOMAIN todo', p \in Page : Claims(i, p)' =>
            /\ ~ InRegion(p)'
            /\ \A a \in allocs' : ~ InAlloc(a, p)'
            /\ \A q \in Page : ~ InPool(q, p)'
      BY <1>0, <1>1, <1>5 DEF Pages4, OnePageOwner
    <2>7. \A i, j \in DOMAIN todo', p \in Page : Claims(i, p)' /\ Claims(j, p)' => i = j
      BY <1>5 DEF Pages4, OnePageOwner
    <2> QED BY <2>1, <2>2, <2>3, <2>4, <2>5, <2>6, <2>7 DEF OnePageOwner
  <1>7. PageTypes'
    <2>1. \A a \in allocs', p \in Page : InAlloc(a, p)' => PageAt(p)'.type = a.type
      BY <1>0 DEF Pages4, PageTypes
    <2>2. \A q, p \in Page : InPool(q, p)' => PageAt(p)'.type = carved'[q].type
      <3> SUFFICES ASSUME NEW q \in Page, NEW p \in Page, InPool(q, p)'
                   PROVE  PageAt(p).type = carved'[q].type
        OBVIOUS
      <3>1. CASE q = x /\ Claims(n, p)
        BY <3>1, <1>3 DEF Pages4, PageTypes
      <3>2. CASE InPool(q, p) /\ q # x
        BY <3>2 DEF Pages4, PageTypes
      <3>3. CASE InPool(q, p) /\ q = x
        <4>1. Claims(n, p)
          BY <3>3 DEF InPool
        <4> QED BY <4>1, <3>3, <1>4
      <3> QED BY <3>1, <3>2, <3>3, <1>1
    <2>3. \A p \in Page : InRegion(p)' => PageAt(p)'.type # Conv
      BY <1>0 DEF Pages4, PageTypes
    <2>4. \A i \in DOMAIN todo', p \in Page : Claims(i, p)' =>
            /\ PageAt(p)'.type \notin {Conv, Absent}
            /\ todo'[i].op # "ConvertPages" => PageAt(p)'.type = todo'[i].type
      BY <1>5 DEF Pages4, PageTypes
    <2> QED BY <2>1, <2>2, <2>3, <2>4 DEF PageTypes
  <1>8. AddedFor'
    <2> SUFFICES ASSUME NEW i \in Adding', NEW p \in Page, Covers(todo[i], p), todo[i].type # Conv, ~ InRegion(p)
                 PROVE  \E j \in DOMAIN todo' : j < i /\ todo'[j].op # "ConvertPages" /\ Claims(j, p)'
      BY <1>0 DEF AddedFor, Covers
    <2>1. PICK j \in DOMAIN todo : j < i /\ todo[j].op # "ConvertPages" /\ Claims(j, p)
      BY DEF Pages4, AddedFor
    <2>2. i \in 1 .. n - 1
      BY DEF Adding
    <2>3. j \in 1 .. n - 1
      BY <2>1, <2>2
    <2> QED BY <2>1, <2>3 DEF Below
  <1>9. NoLeak'
    <2> SUFFICES ASSUME NEW p \in Page, PageAt(p).type \notin {Conv, Absent}, p \notin Owned' \cup lost
                 PROVE  \E i \in DOMAIN todo' : Claims(i, p)'
      BY DEF NoLeak
    <2>1. OwnedIs /\ OwnedIs'
      BY OwnedFacts, OwnedFactsPrime
    <2>2. p \notin Owned
      <3> SUFFICES ASSUME p \in Owned PROVE FALSE
        OBVIOUS
      <3>1. CASE \E q \in Page : InPool(q, p)
        <4>1. PICK q \in Page : InPool(q, p)
          BY <3>1
        <4>2. q # x
          <5> SUFFICES ASSUME q = x PROVE FALSE
            OBVIOUS
          <5>1. Claims(n, p)
            BY <4>1 DEF InPool
          <5> QED BY <5>1, <4>1, <1>4
        <4>3. InPool(q, p)'
          BY <4>1, <4>2 DEF InPool
        <4> QED BY <4>3, <2>1 DEF OwnedIs
      <3>2. CASE ~ \E q \in Page : InPool(q, p)
        BY <3>2, <2>1, <1>0 DEF OwnedIs
      <3> QED BY <3>1, <3>2
    <2>3. PICK i \in DOMAIN todo : Claims(i, p)
      BY <2>2 DEF Pages4, NoLeak, Spoiled
    <2>4. i # n
      <3> SUFFICES ASSUME Claims(n, p) PROVE FALSE
        BY <2>3
      <3> QED BY <1>2, <2>1 DEF OwnedIs
    <2>5. i \in 1 .. n - 1
      BY <2>4
    <2> QED BY <2>3, <2>5 DEF Below
  <1> QED BY <1>6, <1>7, <1>8, <1>9 DEF Pages4

\* The blocks that go onto the lists when a page is carved.
Fresh(p, k) == [l \in Index |-> IF l = k THEN Tail(NewBlocks(p, k, l)) ELSE NewBlocks(p, k, l)]

LEMMA FreshFacts ==
    ASSUME NEW p \in Page, NEW k \in 0 .. MAX_POOL_LIST, NEW N, N = Fresh(p, k), NEW s, s = Head(NewBlocks(p, k, k))
    PROVE  /\ N \in [Index -> Seq(PoolSlot)] /\ s \in BlocksFor(p, k)
           /\ \A l \in Index : \A i \in DOMAIN N[l] : N[l][i] \in BlocksFor(p, k) /\ N[l][i] # s
           /\ \A l, m \in Index : \A i \in DOMAIN N[l], j \in DOMAIN N[m] : N[l][i] = N[m][j] => l = m /\ i = j
  <1> DEFINE B(l) == NewBlocks(p, k, l)
  <1>0. /\ \A l \in 0 .. MAX_POOL_LIST : /\ B(l) \in Seq(PoolSlot)
                                         /\ \A i \in DOMAIN B(l) : B(l)[i] \in BlocksFor(p, k)
        /\ Len(B(k)) > 0
        /\ \A l, m \in 0 .. MAX_POOL_LIST : \A i \in DOMAIN B(l), j \in DOMAIN B(m) : B(l)[i] = B(m)[j] => l = m /\ i = j
    BY NewBlocksFacts
  <1>1. \A l \in Index : N[l] = (IF l = k THEN Tail(B(l)) ELSE B(l)) /\ l \in 0 .. MAX_POOL_LIST
    BY PagesAssumption DEF Fresh, Index
  <1>d. DOMAIN N = Index /\ N = [l \in Index |-> N[l]] /\ s = Head(B(k))
    BY DEF Fresh
  <1> HIDE DEF B
  <1>2. PICK f : f = B(k)
    OBVIOUS
  <1>3. f \in Seq(PoolSlot) /\ f # <<>>
    BY <1>0, <1>2
  <1>4. /\ Len(f) \in Nat \ {0} /\ DOMAIN f = 1 .. Len(f) /\ s = f[1]
        /\ Tail(f) \in Seq(PoolSlot) /\ DOMAIN Tail(f) = 1 .. Len(f) - 1
        /\ \A i \in 1 .. Len(f) - 1 : Tail(f)[i] = f[i + 1]
    BY <1>2, <1>3, <1>d, EmptySeq, HeadTailProperties, LenProperties
  <1>5. 1 \in DOMAIN f /\ s \in BlocksFor(p, k)
    BY <1>0, <1>2, <1>4
  <1>6. ASSUME NEW l \in Index
        PROVE  N[l] \in Seq(PoolSlot)
    <2>1. CASE l = k
      <3>1. N[l] = Tail(f)
        BY <2>1, <1>1, <1>2, Zenon
      <3> QED BY <3>1, <1>4, Zenon
    <2>2. CASE l # k
      <3>1. N[l] = B(l) /\ l \in 0 .. MAX_POOL_LIST
        BY <2>2, <1>1, Zenon
      <3> QED BY <3>1, <1>0
    <2> QED BY <2>1, <2>2
  <1>7. ASSUME NEW l \in Index, NEW i \in DOMAIN N[l]
        PROVE  /\ i \in Nat
               /\ \E j \in DOMAIN B(l) : N[l][i] = B(l)[j] /\ j = IF l = k THEN i + 1 ELSE i
    <2>0. B(l) \in Seq(PoolSlot) /\ l \in 0 .. MAX_POOL_LIST
      BY <1>0, <1>1
    <2>1. CASE l = k
      <3>1. N[l] = Tail(f) /\ B(l) = f
        BY <2>1, <1>1, <1>2
      <3>2. i \in 1 .. Len(f) - 1 /\ i + 1 \in 1 .. Len(f) /\ i \in Nat
        BY <3>1, <1>4
      <3> QED BY <2>1, <3>1, <3>2, <1>4
    <2>2. CASE l # k
      <3>1. N[l] = B(l)
        BY <2>2, <1>1
      <3>2. i \in Nat
        BY <3>1, <2>0
      <3> QED BY <2>2, <3>1, <3>2
    <2> QED BY <2>1, <2>2
  <1>8. ASSUME NEW l \in Index, NEW i \in DOMAIN N[l]
        PROVE  N[l][i] \in BlocksFor(p, k) /\ N[l][i] # s
    <2>1. PICK j \in DOMAIN B(l) : N[l][i] = B(l)[j] /\ j = IF l = k THEN i + 1 ELSE i
      BY <1>7
    <2>2. N[l][i] \in BlocksFor(p, k)
      BY <2>1, <1>0, <1>1
    <2>3. N[l][i] # s
      <3> SUFFICES ASSUME N[l][i] = s PROVE FALSE
        OBVIOUS
      <3>1. B(l)[j] = B(k)[1] /\ 1 \in DOMAIN B(k)
        BY <2>1, <1>2, <1>4, <1>5
      <3>2. l = k /\ j = 1
        BY <3>1, <1>0, <1>1
      <3>3. i + 1 = 1 /\ i \in 1 .. Len(f) - 1
        BY <3>2, <2>1, <1>1, <1>2, <1>4
      <3> QED BY <3>3, <1>4
    <2> QED BY <2>2, <2>3
  <1>9. ASSUME NEW l \in Index, NEW m \in Index, NEW i \in DOMAIN N[l], NEW j \in DOMAIN N[m], N[l][i] = N[m][j]
        PROVE  l = m /\ i = j
    <2>1. PICK a \in DOMAIN B(l) : N[l][i] = B(l)[a] /\ a = IF l = k THEN i + 1 ELSE i
      BY <1>7
    <2>2. PICK b \in DOMAIN B(m) : N[m][j] = B(m)[b] /\ b = IF m = k THEN j + 1 ELSE j
      BY <1>7
    <2>3. l = m /\ a = b
      BY <2>1, <2>2, <1>9, <1>0, <1>1
    <2>4. i \in Nat /\ j \in Nat
      BY <1>7
    <2> QED BY <2>1, <2>2, <2>3, <2>4
  <1>10. N \in [Index -> Seq(PoolSlot)]
    BY <1>6, <1>d
  <1> QED BY <1>5, <1>8, <1>9, <1>10

\* The new pages are carved: those CarvePages has claimed become the pool's.
LEMMA CarvePagesStep ==
    ASSUME IInv, CarvePages
    PROVE  IInv' /\ MemoryMap' = MemoryMap
  <1> DEFINE n == Len(todo)
  <1>0. Running("CarvePages")
    BY DEF CarvePages
  <1>1. Runs("CarvePages", n)
    BY <1>0, BelowFacts
  <1> HIDE DEF n
  <1>r. PICK r, t, k, x, s : r = Last(todo) /\ t = r.type /\ k = r.list /\ x = r.slot[1] /\ s = Head(NewBlocks(x, k, k))
    OBVIOUS
  <1>2. IInvParts
    BY Parts
  <1>3. Types /\ Moving /\ Typing /\ Shape /\ ret = Null /\ ~ failed
    BY <1>1, <1>2, TypesGiveTyping DEF IInvParts, Returned, Runs
  <1>4. /\ todo # <<>> /\ Last(todo).op # "AddRange" /\ Last(todo).op # "FreePoolI" /\ Last(todo).op # "ConvertPages"
    BY <1>1 DEF Runs
  <1>5. /\ t \in AllocType /\ t \in MemType /\ k \in 0 .. MAX_POOL_LIST /\ r = todo[n]
        /\ x \in Page /\ x + Align <= NPages
    <2>1. r \in Frame /\ FrameOK(r) /\ r.op = "CarvePages" /\ r = todo[n]
      BY <1>r, <1>1 DEF Runs
    <2>2. r.slot \in PoolSlot
      BY <2>1 DEF FrameOK
    <2> QED BY <2>1, <2>2, <1>r, FrameFacts DEF FrameOK, MemType, PoolSlot
  <1>b. PICK c : c = <<>>
    OBVIOUS
  <1>c. /\ c \in Seq(Frame) /\ Len(c) = 0 /\ Fits(c) /\ Pageless(c) /\ HeadsOK(c)
        /\ \A i \in 1 .. Len(c) : c[i].op # "FreePoolI" /\ c[i].op \notin MoveOp
    BY <1>b, Ends
  <1>6. /\ desc' = desc /\ MapDepth' = MapDepth /\ FreeMapStack' = FreeMapStack /\ PoolHeadList' = PoolHeadList
        /\ EfiAtRuntime' = EfiAtRuntime /\ failed' = failed /\ reported' = reported /\ allocs' = allocs
        /\ held' = held /\ lost' = lost /\ snap' = snap /\ Goto(c)
    BY <1>b DEF CarvePages, map, callers
  <1>7. ret' = s /\ used' = used \cup {s}
    BY <1>3, <1>r DEF CarvePages
  <1>8. carved' = [carved EXCEPT ![x] = [type |-> t, list |-> k]]
    BY <1>3, <1>r DEF CarvePages
  <1>9. PICK N : N = Fresh(x, k)
    OBVIOUS
  <1>10. /\ N \in [Index -> Seq(PoolSlot)] /\ s \in BlocksFor(x, k)
         /\ \A l \in Index : \A i \in DOMAIN N[l] : N[l][i] \in BlocksFor(x, k) /\ N[l][i] # s
         /\ \A l, m \in Index : \A i \in DOMAIN N[l], j \in DOMAIN N[m] : N[l][i] = N[m][j] => l = m /\ i = j
    BY <1>9, <1>r, <1>5, FreshFacts
  <1>11. FreeList' = [FreeList EXCEPT ![t] = [l \in DOMAIN @ |->
                        IF l = k THEN Tail(NewBlocks(x, k, l)) \o @[l] ELSE NewBlocks(x, k, l) \o @[l]]]
    BY <1>3, <1>r DEF CarvePages
  <1>12. /\ carved'[x].type = t /\ carved'[x].list = k /\ carved'[x] # NotCarved
         /\ \A q \in Page : q # x => carved'[q] = carved[q]
         /\ carved' \in [Page -> [type : AllocType \cup {Absent}, list : 0 .. MAX_POOL_LIST]]
    <2>1. carved \in [Page -> [type : AllocType \cup {Absent}, list : 0 .. MAX_POOL_LIST]]
      BY <1>3 DEF Types
    <2>2. t # Absent
      BY <1>5, PagesAssumption
    <2> QED BY <2>1, <2>2, <1>5, <1>8 DEF NotCarved
  <1>13. BlocksAt(x)' = BlocksFor(x, k)
    BY <1>12 DEF BlocksAt, BlocksFor
  <1>14. s \in PoolSlot /\ s[1] = x /\ \A y \in BlocksFor(x, k) : y[1] = x
    BY <1>5, <1>10, BlocksForFacts
  <1>15. Replaced(c)
    BY <1>3, <1>4, <1>6, <1>c, ReplacedFacts
  <1>16. /\ n \in Nat \ {0} /\ Len(todo') = n - 1 /\ DOMAIN todo' = 1 .. n - 1 /\ DOMAIN todo = 1 .. n
         /\ \A i \in 1 .. n - 1 : todo'[i] = todo[i]
    BY <1>1, <1>c, <1>15 DEF Replaced, After, n, Runs
  <1>17. \A p \in Page : Claims(n, p) <=> x <= p /\ p < x + Align
    BY <1>1, <1>r, <1>5 DEF Claims, Runs, n
  <1>18. carved[x] = NotCarved
    <2>1. x <= x /\ x < x + Align /\ n \in DOMAIN todo
      BY <1>5, <1>16, PagesAssumption DEF Page
    <2>2. Claims(n, x)
      BY <2>1, <1>5, <1>17
    <2>3. ~ InPool(x, x)
      BY <2>1, <2>2, <1>2, <1>5 DEF IInvParts, Pages4, OnePageOwner
    <2> QED BY <2>1, <2>3 DEF InPool
  <1>19. \A y \in used : y[1] # x
    BY <1>2, <1>18 DEF IInvParts, Blocks, BlocksAt
  <1>20. n > 1 /\ todo[n - 1].op \in {"MoveEntry", "NewPool", "BSAllocatePool"} /\ (todo[n - 1].op = "MoveEntry" => t = RtData)
    <2>1. n > 1 /\ Under(todo[n - 1], todo[n]) /\ todo[n].op = "CarvePages" /\ todo[n].type = t
      BY <1>1, <1>r, <1>5 DEF Runs, Bottom
    <2> QED BY <2>1 DEF Under, PoolOp
  <1>21. Prepended(t, N) /\ FreeList' \in FreeLists
    <2>0. FreeList \in FreeLists
      BY <1>3 DEF Types, FreeLists
    <2>1. DOMAIN FreeList[t] = Index
      BY <2>0, <1>5 DEF FreeLists, Index
    <2>2. DOMAIN FreeList' = AllocType /\ FreeList' = [u \in AllocType |-> FreeList'[u]]
      BY <2>0, <1>11 DEF FreeLists
    <2>3. \A u \in AllocType : u # t => FreeList'[u] = FreeList[u]
      BY <2>0, <1>11 DEF FreeLists
    <2>4. FreeList'[t] = [l \in Index |-> IF l = k THEN Tail(NewBlocks(x, k, l)) \o FreeList[t][l]
                                          ELSE NewBlocks(x, k, l) \o FreeList[t][l]]
      BY <2>0, <2>1, <1>5, <1>11 DEF FreeLists
    <2>5. ASSUME NEW l \in Index
          PROVE  FreeList'[t][l] = N[l] \o FreeList[t][l]
      <3>1. N[l] = IF l = k THEN Tail(NewBlocks(x, k, l)) ELSE NewBlocks(x, k, l)
        BY <1>9 DEF Fresh
      <3> QED BY <3>1, <2>4
    <2>6. Prepended(t, N)
      BY <2>3, <2>5 DEF Prepended
    <2>7. \A u \in AllocType : FreeList'[u] = [l \in Index |-> FreeList'[u][l]]
      <3> TAKE u \in AllocType
      <3>1. CASE u = t
        BY <3>1, <2>4
      <3>2. CASE u # t
        <4>1. FreeList[u] \in [Index -> Seq(PoolSlot)]
          BY <2>0 DEF FreeLists, Index
        <4> QED BY <4>1, <3>2, <2>3
      <3> QED BY <3>1, <3>2
    <2>8. FreeList' \in FreeLists
      BY <2>0, <2>2, <2>6, <2>7, <1>5, <1>10, PrependedTypes
    <2> QED BY <2>6, <2>8
  <1>22. Lists'
    <2>1. FreeList \in FreeLists /\ Lists
      BY <1>2, <1>3 DEF Types, FreeLists, IInvParts
    <2>2. \A l \in Index : \A i \in DOMAIN N[l] : N[l][i] \in BlocksAt(x)' /\ N[l][i][1] = x /\ N[l][i] # s
      BY <1>10, <1>13, <1>14
    <2>3. t \in AllocType /\ N \in [Index -> Seq(PoolSlot)] /\ Prepended(t, N) /\ x \in Page
      BY <1>5, <1>10, <1>21
    <2>4. carved[x] = NotCarved /\ (\A q \in Page : q # x => carved'[q] = carved[q]) /\ carved'[x].type = t
      BY <1>12, <1>18
    <2>5. used' = used \cup {s} /\ s[1] = x /\ \A y \in used : y[1] # x
      BY <1>7, <1>14, <1>19
    <2>6. NewOnes(N, x, s)
      BY <2>2, <1>10 DEF NewOnes
    <2> QED BY <2>1, <2>3, <2>4, <2>5, <2>6, ListsPrepended
  <1>23. todo' \in Seq(Frame) /\ \A i \in DOMAIN todo' : FrameOK(todo'[i])
    BY <1>3, <1>15, <1>c, StackTypes DEF Fits
  <1>24. Shape' /\ Chosen' /\ Moving' /\ Heads'
    <2>1. Shape'
      BY <1>3, <1>6, <1>15, <1>c, ShapeKept DEF Fits
    <2>2. Chosen'
      BY <1>2, <1>4, <1>c, <1>15, ChosenKept DEF IInvParts
    <2>3. MapDepth \in Nat /\ MapDepth' \in Nat /\ MapDepth <= MapDepth'
      BY <1>3, <1>6 DEF Types
    <2>4. Moving'
      BY <2>3, <1>3, <1>6, <1>c, <1>15, MovingKept
    <2>5. Heads'
      BY <1>2, <1>6, <1>c, <1>15, HeadsKept DEF IInvParts, HeadsOK
    <2> QED BY <2>1, <2>2, <2>4, <2>5
  <1>25. Adding' = Adding /\ \A i \in Adding : todo'[i] = todo[i]
    BY <1>4, <1>c, <1>15, AddingKept
  <1>26. Typing'
    BY <1>3, <1>6, <1>23 DEF Typing
  <1>27. /\ Map' /\ Reported' /\ Linked' = Linked
         /\ \A p \in Page : PageAt(p)' = PageAt(p)
         /\ MemoryMap' = MemoryMap
    <2>1. \A y \in Linked : y \in StackSlot => y[2] < MapDepth'
      BY <1>2, <1>6 DEF IInvParts, Map
    <2> QED BY <2>1, <1>2, <1>3, <1>6, <1>25, <1>26, MapKept DEF IInvParts
  <1>28. Types'
    <2>1. /\ used' \subseteq PoolSlot /\ ret' \in PoolSlot \cup {Null}
          /\ FreeList' \in [AllocType -> [0 .. MAX_POOL_LIST - 1 -> Seq(PoolSlot)]]
      BY <1>3, <1>7, <1>14, <1>21 DEF Types, FreeLists
    <2> QED BY <2>1, <1>3, <1>6, <1>12, <1>23, <1>27 DEF Types
  <1>29. Pages4'
    <2>1. Below(n)
      <3>1. n > 1 => todo[n - 1].op \notin {"AllocatePages", "CarvePages"}
        BY <1>20
      <3> QED BY <3>1, <1>15, ClaimsBelow DEF n
    <2>2. todo[n].op = "CarvePages" /\ todo[n].type = t
      BY <1>1, <1>r, <1>5 DEF Runs
    <2>3. \A i \in Adding' : i \in Adding /\ todo'[i] = todo[i]
      BY <1>25
    <2> QED BY <2>1, <2>2, <2>3, <1>2, <1>3, <1>5, <1>6, <1>12, <1>16, <1>17, <1>27, <1>28, CarvedPages DEF IInvParts
  <1>30. Returned'
    <2>1. n - 1 \in 1 .. n - 1
      BY <1>16, <1>20
    <2>2. todo'[n - 1] = todo[n - 1] /\ todo' # <<>> /\ Last(todo') = todo'[n - 1]
      BY <2>1, <1>16 DEF Last
    <2>3. carved'[ret'[1]].type = t
      BY <1>7, <1>12, <1>14
    <2> QED BY <2>2, <2>3, <1>3, <1>6, <1>20 DEF Returned
  <1>31. Freeing = {} /\ Freeing' = {}
    BY <1>3, <1>4, <1>c, <1>15, FreeingFacts, NothingFreed DEF FreeingOf
  <1>32. Owners'
    <2>0. s # Null
      BY <1>14, PagesAssumption DEF PoolSlot, Page, Null
    <2>1. Homes' = Homes /\ Got = {} /\ Got' = {s} /\ Pools' = Pools /\ held' = held
      BY <2>0, <1>3, <1>6, <1>7, <1>27 DEF Homes, Got, Pools
    <2>2. used' = Homes' \cup held' \cup Pools' \cup Got' \cup Freeing' /\ s \notin used
      BY <2>1, <1>2, <1>7, <1>14, <1>19, <1>31 DEF IInvParts, Owners
    <2>3. /\ Homes' \cap held' = {} /\ Homes' \cap Pools' = {} /\ Homes' \cap Got' = {} /\ Homes' \cap Freeing' = {}
          /\ held' \cap Pools' = {} /\ held' \cap Got' = {} /\ held' \cap Freeing' = {}
          /\ Pools' \cap Got' = {} /\ Pools' \cap Freeing' = {} /\ Got' \cap Freeing' = {}
      BY <2>1, <2>2, <1>2, <1>31 DEF IInvParts, Owners
    <2>4. \A y \in Homes' : carved'[y[1]].type = RtData
      <3> SUFFICES ASSUME NEW y \in Homes PROVE carved'[y[1]].type = RtData
        BY <2>1
      <3>1. y \in used /\ carved[y[1]].type = RtData /\ y \in PoolSlot
        BY <1>2 DEF IInvParts, Owners, Homes
      <3>2. y[1] # x /\ y[1] \in Page
        BY <3>1, <1>19 DEF PoolSlot
      <3> QED BY <3>1, <3>2, <1>12
    <2>5. \A u, v \in OsType : PoolHeadList'[u] = PoolHeadList'[v] /\ PoolHeadList'[u] # Null => u = v
      BY <1>2, <1>6 DEF IInvParts, Owners
    <2> QED BY <2>2, <2>3, <2>4, <2>5, <1>31 DEF Owners
  <1>33. Blocks'
    <2>0. \A y \in PoolSlot : y[1] \in Page
      BY DEF PoolSlot
    <2>1. \A q \in Page : q # x => BlocksAt(q)' = BlocksAt(q)
      BY <1>12 DEF BlocksAt
    <2>2. \A y \in used' : y \in BlocksAt(y[1])'
      <3> SUFFICES ASSUME NEW y \in used' PROVE y \in BlocksAt(y[1])'
        OBVIOUS
      <3>1. CASE y = s
        BY <3>1, <1>10, <1>13, <1>14
      <3>2. CASE y # s
        <4>1. y \in used /\ y[1] # x /\ y[1] \in Page /\ y \in BlocksAt(y[1])
          BY <3>2, <2>0, <1>2, <1>3, <1>7, <1>19 DEF IInvParts, Blocks, Types
        <4> QED BY <4>1, <2>1
      <3> QED BY <3>1, <3>2
    <2>3. \A p \in Page : carved'[p].type = Absent => carved'[p] = NotCarved
      <3>1. t # Absent
        BY <1>5, PagesAssumption
      <3> QED BY <3>1, <1>2, <1>12 DEF IInvParts, Blocks
    <2>4. \A p \in Page : carved'[p] # NotCarved => BlocksAt(p)' \cap used' # {}
      <3> SUFFICES ASSUME NEW p \in Page, carved'[p] # NotCarved PROVE BlocksAt(p)' \cap used' # {}
        OBVIOUS
      <3>1. CASE p = x
        BY <3>1, <1>7, <1>10, <1>13
      <3>2. CASE p # x
        <4>1. BlocksAt(p) \cap used # {}
          BY <3>2, <1>2, <1>12 DEF IInvParts, Blocks
        <4> QED BY <4>1, <3>2, <2>1, <1>7
      <3> QED BY <3>1, <3>2
    <2>5. PoolKept'
      <3>1. t \in OsType => PoolHeadList[t] # Null
        BY <1>1, <1>2, <1>r, <1>5 DEF IInvParts, Heads, Runs
      <3> QED BY <3>1, <1>2, <1>6, <1>12 DEF IInvParts, Blocks, PoolKept
    <2> QED BY <2>2, <2>3, <2>4, <2>5 DEF Blocks
  <1>34. Keys'
    BY <1>2, <1>6, <1>27, KeysKept DEF IInvParts
  <1>z. IInv'
    BY <1>22, <1>24, <1>27, <1>28, <1>29, <1>30, <1>32, <1>33, <1>34, PartsPrime DEF IInvParts
  <1> QED BY <1>z, <1>27

\* The free blocks of a page are taken off the lists of type t.
Dropped(t, p) ==
    \A u \in AllocType, l \in Index : FreeList'[u][l] = IF u = t THEN Elsewhere(FreeList[t][l], p) ELSE FreeList[u][l]

LEMMA ListsDropped ==
    ASSUME FreeList \in FreeLists, Lists, NEW t \in AllocType, NEW p \in Page, carved[p].type = t, Dropped(t, p),
           \A q \in Page : q # p => carved'[q] = carved[q], used' \subseteq used
    PROVE  Lists'
  <1>1. ASSUME NEW u \in AllocType, NEW l \in Index, NEW i \in DOMAIN FreeList'[u][l]
        PROVE  FreeList'[u][l][i][1] # p /\ \E j \in DOMAIN FreeList[u][l] : FreeList'[u][l][i] = FreeList[u][l][j]
    <2>1. CASE u = t
      <3>1. PICK f, g : f = FreeList[u][l] /\ g = Elsewhere(f, p)
        OBVIOUS
      <3>2. f \in Seq(PoolSlot)
        BY <3>1, ListType
      <3>3. FreeList'[u][l] = g
        BY <2>1, <3>1 DEF Dropped
      <3>4. g[i][1] # p /\ \E j \in DOMAIN f : g[i] = f[j]
        BY <3>1, <3>2, <3>3, ElsewhereFacts
      <3> QED BY <3>1, <3>3, <3>4
    <2>2. CASE u # t
      <3>1. FreeList'[u][l] = FreeList[u][l] /\ FreeList[u][l] \in Seq(PoolSlot)
        BY <2>2, ListType DEF Dropped
      <3>2. PICK y : y = FreeList[u][l][i]
        OBVIOUS
      <3>3. y \in PoolSlot /\ OnList(y, u, l)
        BY <3>1, <3>2 DEF OnList
      <3>4. carved[y[1]].type = u
        BY <3>3 DEF Lists
      <3> QED BY <3>1, <3>2, <3>4, <2>2
    <2> QED BY <2>1, <2>2
  <1>2. ASSUME NEW u \in AllocType, NEW l \in Index, NEW y \in PoolSlot, OnList(y, u, l)'
        PROVE  y \notin used' /\ y \in BlocksAt(y[1])' /\ carved'[y[1]].type = u
    <2>1. PICK i \in DOMAIN FreeList'[u][l] : FreeList'[u][l][i] = y
      BY <1>2 DEF OnList
    <2>2. y[1] # p /\ y[1] \in Page /\ OnList(y, u, l)
      BY <2>1, <1>1 DEF OnList, PoolSlot
    <2>3. y \notin used /\ y \in BlocksAt(y[1]) /\ carved[y[1]].type = u
      BY <2>2 DEF Lists
    <2> QED BY <2>2, <2>3 DEF BlocksAt
  <1>3. ASSUME NEW u \in AllocType, NEW k \in Index, NEW l \in Index,
               NEW a \in DOMAIN FreeList'[u][k], NEW b \in DOMAIN FreeList'[u][l],
               FreeList'[u][k][a] = FreeList'[u][l][b]
        PROVE  k = l /\ a = b
    <2>1. PICK i \in DOMAIN FreeList[u][k] : FreeList'[u][k][a] = FreeList[u][k][i]
      BY <1>1
    <2>2. PICK j \in DOMAIN FreeList[u][l] : FreeList'[u][l][b] = FreeList[u][l][j]
      BY <1>1
    <2>0. FreeList[u][k][i] = FreeList[u][l][j]
      BY <2>1, <2>2, <1>3
    <2>3. k = l
      BY <2>0 DEF Lists
    <2>4. CASE u = t
      <3>1. PICK f, g : f = FreeList[u][k] /\ g = Elsewhere(f, p)
        OBVIOUS
      <3>2. f \in Seq(PoolSlot)
        BY <3>1, ListType
      <3>3. FreeList'[u][k] = g
        BY <2>4, <3>1 DEF Dropped
      <3>4. \A c, d \in DOMAIN f : f[c] = f[d] => c = d
        BY <3>1 DEF Lists
      <3>5. \A c, d \in DOMAIN g : g[c] = g[d] => c = d
        BY <3>1, <3>2, <3>4, ElsewhereFacts
      <3> QED BY <2>3, <3>3, <3>5, <1>3
    <2>5. CASE u # t
      <3>1. FreeList'[u][k] = FreeList[u][k]
        BY <2>5 DEF Dropped
      <3> QED BY <2>3, <3>1, <1>3 DEF Lists
    <2> QED BY <2>3, <2>4, <2>5
  <1> QED BY <1>2, <1>3 DEF Lists

LEMMA DroppedTypes ==
    ASSUME FreeList \in FreeLists, NEW t \in AllocType, NEW p,
           FreeList' = [FreeList EXCEPT ![t] = [k \in DOMAIN @ |-> Elsewhere(@[k], p)]]
    PROVE  Dropped(t, p) /\ FreeList' \in FreeLists
  <1>1. DOMAIN FreeList = AllocType /\ DOMAIN FreeList[t] = Index
    BY DEF FreeLists, Index
  <1>2. /\ FreeList'[t] = [k \in Index |-> Elsewhere(FreeList[t][k], p)] /\ DOMAIN FreeList' = AllocType
        /\ FreeList' = [u \in AllocType |-> FreeList'[u]]
        /\ \A u \in AllocType : u # t => FreeList'[u] = FreeList[u]
    BY <1>1
  <1>3. ASSUME NEW k \in Index
        PROVE  FreeList'[t][k] = Elsewhere(FreeList[t][k], p) /\ FreeList'[t][k] \in Seq(PoolSlot)
    <2>1. PICK f : f = FreeList[t][k]
      OBVIOUS
    <2>2. f \in Seq(PoolSlot)
      BY <2>1, ListType
    <2>3. Elsewhere(f, p) \in Seq(PoolSlot)
      BY <2>2, ElsewhereFacts
    <2>4. FreeList'[t][k] = Elsewhere(f, p)
      BY <2>1, <1>2
    <2> QED BY <2>1, <2>3, <2>4
  <1>4. Dropped(t, p)
    BY <1>2, <1>3, Zenon DEF Dropped
  <1>5. \A u \in AllocType : FreeList'[u] \in [Index -> Seq(PoolSlot)]
    <2> TAKE u \in AllocType
    <2>1. CASE u = t
      BY <2>1, <1>2, <1>3
    <2>2. CASE u # t
      BY <2>2, <1>2 DEF FreeLists, Index
    <2> QED BY <2>1, <2>2
  <1> QED BY <1>2, <1>4, <1>5 DEF FreeLists, Index

LEMMA DroppedPages ==
    ASSUME Pages4, NEW n, Below(n), DOMAIN todo = 1 .. n, n \in Nat \ {0}, DOMAIN todo' = 1 .. n + 1,
           todo[n].op = "FreePoolI", NEW x \in Page, carved[x] # NotCarved, carved'[x] = NotCarved,
           carved[x].type \in AllocType, \A q \in Page : q # x => carved'[q] = carved[q],
           \A p \in Page : Claims(n + 1, p)' <=> x <= p /\ p < x + Align, \A p \in Page : ~ Claims(n, p)',
           todo'[n + 1].op = "ConvertPages", allocs' = allocs, lost' = lost, ~ failed,
           \A p \in Page : PageAt(p)' = PageAt(p),
           \A i \in Adding' : i \in Adding /\ todo'[i] = todo[i]
    PROVE  Pages4'
  <1>0. /\ \A a, p : InAlloc(a, p)' <=> InAlloc(a, p)
        /\ \A p : InRegion(p)' <=> InRegion(p)
    BY DEF InAlloc, InRegion
  <1>1. \A q, p \in Page : InPool(q, p)' <=> InPool(q, p) /\ q # x
    BY DEF InPool
  <1>2. \A p \in Page : Claims(n + 1, p)' <=> InPool(x, p)
    BY DEF InPool
  <1>3. \A i \in 1 .. n - 1 : i \in DOMAIN todo' /\ i # n + 1
    OBVIOUS
  <1>4. \A p \in Page : ~ Claims(n, p)
    BY DEF Claims
  <1>5. \A i \in DOMAIN todo', p \in Page : Claims(i, p)' =>
           \/ i \in 1 .. n - 1 /\ i \in DOMAIN todo /\ Claims(i, p) /\ todo'[i] = todo[i]
           \/ i = n + 1 /\ InPool(x, p)
    <2> SUFFICES ASSUME NEW i \in DOMAIN todo', NEW p \in Page, Claims(i, p)'
                 PROVE  \/ i \in 1 .. n - 1 /\ i \in DOMAIN todo /\ Claims(i, p) /\ todo'[i] = todo[i]
                        \/ i = n + 1 /\ InPool(x, p)
      OBVIOUS
    <2>1. i \in 1 .. n - 1 \/ i = n \/ i = n + 1
      OBVIOUS
    <2> QED BY <2>1, <1>2 DEF Below
  <1>6. OnePageOwner'
    <2>1. \A p \in Page : carved'[p] # NotCarved => p + Align <= NPages
      BY DEF Pages4, OnePageOwner
    <2>2. \A a, b \in allocs', p \in Page : InAlloc(a, p)' /\ InAlloc(b, p)' => a = b
      BY <1>0 DEF Pages4, OnePageOwner
    <2>3. \A q, r, p \in Page : InPool(q, p)' /\ InPool(r, p)' => q = r
      BY <1>1 DEF Pages4, OnePageOwner
    <2>4. \A a \in allocs', q, p \in Page : ~ (InAlloc(a, p)' /\ InPool(q, p)')
      BY <1>0, <1>1 DEF Pages4, OnePageOwner
    <2>5. \A p \in Page : InRegion(p)' =>
            (\A a \in allocs' : ~ InAlloc(a, p)') /\ (\A q \in Page : ~ InPool(q, p)')
      BY <1>0, <1>1 DEF Pages4, OnePageOwner
    <2>6. \A i \in DOMAIN todo', p \in Page : Claims(i, p)' =>
            /\ ~ InRegion(p)'
            /\ \A a \in allocs' : ~ InAlloc(a, p)'
            /\ \A q \in Page : ~ InPool(q, p)'
      <3> SUFFICES ASSUME NEW i \in DOMAIN todo', NEW p \in Page, Claims(i, p)'
                   PROVE  /\ ~ InRegion(p)
                          /\ \A a \in allocs : ~ InAlloc(a, p)
                          /\ \A q \in Page : ~ (InPool(q, p) /\ q # x)
        BY <1>0, <1>1
      <3>1. CASE i \in DOMAIN todo /\ Claims(i, p)
        BY <3>1 DEF Pages4, OnePageOwner
      <3>2. CASE InPool(x, p)
        BY <3>2 DEF Pages4, OnePageOwner
      <3> QED BY <3>1, <3>2, <1>5
    <2>7. \A i, j \in DOMAIN todo', p \in Page : Claims(i, p)' /\ Claims(j, p)' => i = j
      <3> SUFFICES ASSUME NEW i \in DOMAIN todo', NEW j \in DOMAIN todo', NEW p \in Page, Claims(i, p)', Claims(j, p)'
                   PROVE  i = j
        OBVIOUS
      <3>1. (i \in DOMAIN todo /\ Claims(i, p)) \/ (i = n + 1 /\ InPool(x, p))
        BY <1>5
      <3>2. (j \in DOMAIN todo /\ Claims(j, p)) \/ (j = n + 1 /\ InPool(x, p))
        BY <1>5
      <3> QED BY <3>1, <3>2 DEF Pages4, OnePageOwner
    <2> QED BY <2>1, <2>2, <2>3, <2>4, <2>5, <2>6, <2>7 DEF OnePageOwner
  <1>7. PageTypes'
    <2>1. \A a \in allocs', p \in Page : InAlloc(a, p)' => PageAt(p)'.type = a.type
      BY <1>0 DEF Pages4, PageTypes
    <2>2. \A q, p \in Page : InPool(q, p)' => PageAt(p)'.type = carved'[q].type
      BY <1>1 DEF Pages4, PageTypes
    <2>3. \A p \in Page : InRegion(p)' => PageAt(p)'.type # Conv
      BY <1>0 DEF Pages4, PageTypes
    <2>4. \A i \in DOMAIN todo', p \in Page : Claims(i, p)' =>
            /\ PageAt(p)'.type \notin {Conv, Absent}
            /\ todo'[i].op # "ConvertPages" => PageAt(p)'.type = todo'[i].type
      <3> SUFFICES ASSUME NEW i \in DOMAIN todo', NEW p \in Page, Claims(i, p)'
                   PROVE  /\ PageAt(p).type \notin {Conv, Absent}
                          /\ todo'[i].op # "ConvertPages" => PageAt(p).type = todo'[i].type
        OBVIOUS
      <3>1. CASE i \in DOMAIN todo /\ Claims(i, p) /\ todo'[i] = todo[i]
        BY <3>1 DEF Pages4, PageTypes
      <3>2. CASE i = n + 1 /\ InPool(x, p)
        <4>1. PageAt(p).type = carved[x].type
          BY <3>2 DEF Pages4, PageTypes
        <4> QED BY <4>1, <3>2, PagesAssumption DEF MemType
      <3> QED BY <3>1, <3>2, <1>5
    <2> QED BY <2>1, <2>2, <2>3, <2>4 DEF PageTypes
  <1>8. AddedFor'
    <2> SUFFICES ASSUME NEW i \in Adding', NEW p \in Page, Covers(todo[i], p), todo[i].type # Conv, ~ InRegion(p)
                 PROVE  \E j \in DOMAIN todo' : j < i /\ todo'[j].op # "ConvertPages" /\ Claims(j, p)'
      BY <1>0 DEF AddedFor, Covers
    <2>1. PICK j \in DOMAIN todo : j < i /\ todo[j].op # "ConvertPages" /\ Claims(j, p)
      BY DEF Pages4, AddedFor
    <2>2. j # n
      BY <2>1, <1>4
    <2>3. j \in 1 .. n - 1
      BY <2>1, <2>2
    <2> QED BY <2>1, <2>3 DEF Below
  <1>9. NoLeak'
    <2> SUFFICES ASSUME NEW p \in Page, PageAt(p).type \notin {Conv, Absent}, p \notin Owned' \cup lost
                 PROVE  \E i \in DOMAIN todo' : Claims(i, p)'
      BY DEF NoLeak
    <2>1. OwnedIs /\ OwnedIs'
      BY OwnedFacts, OwnedFactsPrime
    <2>2. CASE InPool(x, p)
      <3>1. n + 1 \in DOMAIN todo'
        OBVIOUS
      <3> QED BY <3>1, <2>2, <1>2
    <2>3. CASE ~ InPool(x, p)
      <3>1. p \notin Owned
        BY <2>1, <2>3, <1>0, <1>1 DEF OwnedIs
      <3>2. PICK i \in DOMAIN todo : Claims(i, p)
        BY <3>1 DEF Pages4, NoLeak, Spoiled
      <3>3. i # n
        BY <3>2, <1>4
      <3>4. i \in 1 .. n - 1
        BY <3>3
      <3> QED BY <3>2, <3>4 DEF Below
    <2> QED BY <2>2, <2>3
  <1> QED BY <1>6, <1>7, <1>8, <1>9 DEF Pages4

LEMMA TwoCalls == ASSUME NEW g \in Frame, NEW h \in Frame PROVE <<g>> \o <<h>> = <<g, h>>
  <1>a. PICK a, b, d, e : a = <<g>> /\ b = <<h>> /\ d = a \o b /\ e = <<g, h>>
    OBVIOUS
  <1>1. a \in Seq(Frame) /\ b \in Seq(Frame) /\ Len(a) = 1 /\ Len(b) = 1 /\ a[1] = g /\ b[1] = h
    BY <1>a, Seq1
  <1>2. d \in Seq(Frame) /\ Len(d) = 2 /\ d[1] = g /\ d[2] = h
    BY <1>a, <1>1
  <1>3. e \in Seq(Frame) /\ Len(e) = 2 /\ e[1] = g /\ e[2] = h
    BY <1>a, Seq2
  <1>4. \A i \in 1 .. Len(d) : d[i] = e[i]
    BY <1>2, <1>3
  <1>5. d = e
    BY <1>2, <1>3, <1>4, SeqEqual
  <1> QED BY <1>a, <1>5

\* No block of the page is in use any more: its pages are given back.
LEMMA FreePageStep ==
    ASSUME IInv, FreePoolI, carved' # carved
    PROVE  IInv' /\ MemoryMap' = MemoryMap
  <1>n. PICK n : n = Len(todo)
    OBVIOUS
  <1>r. PICK s, x, t : s = Last(todo).slot /\ x = s[1] /\ t = carved[x].type
    OBVIOUS
  <1>0. Running("FreePoolI")
    BY DEF FreePoolI
  <1>1. Runs("FreePoolI", n)
    BY <1>0, <1>n, BelowFacts
  <1>2. IInvParts
    BY Parts
  <1>3. Types /\ Moving /\ Typing /\ Shape /\ ret = Null /\ ~ failed
    BY <1>1, <1>2, TypesGiveTyping DEF IInvParts, Returned, Runs
  <1>4. /\ todo # <<>> /\ Last(todo).op # "AddRange" /\ Last(todo).op # "ConvertPages" /\ s = todo[n].slot
    BY <1>1, <1>r DEF Runs
  <1>5. /\ s \in PoolSlot /\ s \in used /\ x \in Page /\ s \in BlocksAt(x) /\ Freeing = {s}
        /\ carved[x] # NotCarved /\ t \in AllocType /\ t \in MemType
        /\ n > 1 => t \notin OsType
        /\ t \in OsType => PoolHeadList[t] # Null
    BY <1>1, <1>4, <1>r, FreePoolIFacts
  <1>g. PICK g, h, c : /\ g = [Call("FreePool") EXCEPT !.type = t] /\ h = DoConvert(x, x + Align - 1, Conv)
                       /\ c = <<g, h>>
    OBVIOUS
  <1>6. /\ desc' = desc /\ MapDepth' = MapDepth /\ FreeMapStack' = FreeMapStack /\ PoolHeadList' = PoolHeadList
        /\ EfiAtRuntime' = EfiAtRuntime /\ failed' = failed /\ reported' = reported /\ allocs' = allocs
        /\ held' = held /\ lost' = lost /\ snap' = snap /\ ret' = ret /\ used' = used \ {s}
    BY <1>r DEF FreePoolI, map, callers
  <1>7. /\ BlocksAt(x) \cap used' = {} /\ carved' = [carved EXCEPT ![x] = NotCarved]
        /\ FreeList' = [FreeList EXCEPT ![t] = [k \in DOMAIN @ |-> Elsewhere(@[k], x)]]
        /\ Goto(<<g>> \o <<h>>)
    BY <1>r, <1>6, <1>g DEF FreePoolI
  <1>9. g \in Frame /\ g.op = "FreePool" /\ g.type = t
    BY <1>g, <1>5, FreePoolFacts
  <1>10. x \in Nat /\ x + Align - 1 \in Nat /\ x + Align <= NPages /\ Align \in {1, 2} /\ NPages \in Nat
    <2>1. x + Align <= NPages
      BY <1>2, <1>5 DEF IInvParts, Pages4, OnePageOwner
    <2> QED BY <2>1, <1>5, PagesAssumption DEF Page
  <1>11. h \in Frame /\ h.op = "ConvertPages" /\ h.start = x /\ h.end = x + Align - 1 /\ h.type = Conv
    <2>1. Conv \in MemType
      BY DEF MemType
    <2> QED BY <2>1, <1>g, <1>10, DoConvertFacts
  <1>8. Goto(c)
    <2>1. <<g>> \o <<h>> = <<g, h>>
      BY <1>9, <1>11, TwoCalls
    <2> QED BY <2>1, <1>7, <1>g
  <1>12. FrameOK(g) /\ FrameOK(h) /\ Under(g, h) /\ g.op \in Bottom /\ g.op \notin MoveOp /\ h.op \notin MoveOp
    <2>1. FrameOK(g)
      BY <1>5, <1>9 DEF FrameOK
    <2>2. FrameOK(h)
      BY <1>10, <1>11 DEF FrameOK
    <2> QED BY <2>1, <2>2, <1>9, <1>11 DEF Under, Bottom, MoveOp
  <1>13. Len(todo) > 1 => Under(todo[Len(todo) - 1], g)
    <2>1. n > 1 => Under(todo[n - 1], g)
      BY <1>1, <1>5, <1>9 DEF Under, Runs, PoolOp
    <2> QED BY <2>1, <1>n
  <1>14. /\ c \in Seq(Frame) /\ Len(c) = 2 /\ c[1] = g /\ c[2] = h /\ Fits(c)
         /\ \A k \in 1 .. Len(c) : c[k] = g \/ c[k] = h
    <2>1. c = <<g, h>> /\ (Len(todo) = 1 => g.op \in Bottom)
      BY <1>g, <1>12
    <2> QED BY <2>1, <1>9, <1>11, <1>12, <1>13, Fits2
  <1>15. Replaced(c)
    BY <1>3, <1>4, <1>8, <1>14, ReplacedFacts
  <1>16. /\ n \in Nat \ {0} /\ DOMAIN todo = 1 .. n /\ Len(todo') = n + 1 /\ todo'[n] = g /\ todo'[n + 1] = h
         /\ DOMAIN todo' = 1 .. n + 1 /\ \A i \in 1 .. n - 1 : todo'[i] = todo[i]
    <2>1. /\ n \in Nat \ {0} /\ Len(todo') = n - 1 + 2 /\ todo'[n - 1 + 1] = g /\ todo'[n - 1 + 2] = h
          /\ DOMAIN todo' = 1 .. Len(todo') /\ DOMAIN todo = 1 .. n /\ \A i \in 1 .. n - 1 : todo'[i] = todo[i]
      <3>1. 1 \in 1 .. Len(c) /\ 2 \in 1 .. Len(c)
        BY <1>14
      <3> QED BY <3>1, <1>14, <1>15, <1>n DEF Replaced, After
    <2>2. n - 1 + 2 = n + 1 /\ n - 1 + 1 = n
      BY <2>1
    <2> QED BY <2>1, <2>2
  <1>17. todo' \in Seq(Frame) /\ \A i \in DOMAIN todo' : FrameOK(todo'[i])
    BY <1>3, <1>14, <1>15, StackTypes DEF Fits
  <1>18. Shape' /\ Chosen' /\ Moving' /\ Heads'
    <2>1. Shape'
      BY <1>3, <1>6, <1>14, <1>15, ShapeKept DEF Fits
    <2>2. Chosen'
      <3>1. \A k \in 1 .. Len(c) : c[k].op # "CarvePages"
        BY <1>9, <1>11, <1>14
      <3> QED BY <3>1, <1>2, <1>4, <1>15, ChosenKept DEF IInvParts
    <2>3. MapDepth \in Nat /\ MapDepth' \in Nat /\ MapDepth <= MapDepth'
      BY <1>3, <1>6 DEF Types
    <2>4. Moving'
      BY <2>3, <1>3, <1>6, <1>12, <1>14, <1>15, MovingKept
    <2>5. Heads'
      BY <1>2, <1>5, <1>6, <1>9, <1>11, <1>14, <1>15, HeadsKept DEF IInvParts
    <2> QED BY <2>1, <2>2, <2>4, <2>5
  <1>19. Adding' = Adding /\ \A i \in Adding : todo'[i] = todo[i]
    <2>1. \A k \in 1 .. Len(c) : c[k].op # "AddRange"
      BY <1>9, <1>11, <1>14
    <2> QED BY <2>1, <1>4, <1>15, AddingKept
  <1>20. Typing'
    BY <1>3, <1>6, <1>17 DEF Typing
  <1>21. /\ Map' /\ Reported' /\ Linked' = Linked
         /\ \A p \in Page : PageAt(p)' = PageAt(p)
         /\ MemoryMap' = MemoryMap
    <2>1. \A y \in Linked : y \in StackSlot => y[2] < MapDepth'
      BY <1>2, <1>6 DEF IInvParts, Map
    <2> QED BY <2>1, <1>2, <1>3, <1>6, <1>19, <1>20, MapKept DEF IInvParts
  <1>22. /\ carved'[x] = NotCarved /\ \A q \in Page : q # x => carved'[q] = carved[q]
         /\ carved' \in [Page -> [type : AllocType \cup {Absent}, list : 0 .. MAX_POOL_LIST]]
    <2>1. carved \in [Page -> [type : AllocType \cup {Absent}, list : 0 .. MAX_POOL_LIST]]
      BY <1>3 DEF Types
    <2>2. NotCarved \in [type : AllocType \cup {Absent}, list : 0 .. MAX_POOL_LIST]
      BY PagesAssumption DEF NotCarved
    <2> QED BY <2>1, <2>2, <1>5, <1>7
  <1>23. Dropped(t, x) /\ FreeList' \in FreeLists /\ Lists'
    <2>1. FreeList \in FreeLists /\ Lists
      BY <1>2, <1>3 DEF Types, FreeLists, IInvParts
    <2>2. Dropped(t, x) /\ FreeList' \in FreeLists
      BY <2>1, <1>5, <1>7, DroppedTypes
    <2>3. used' \subseteq used
      BY <1>6
    <2> QED BY <2>1, <2>2, <2>3, <1>5, <1>r, <1>22, ListsDropped
  <1>24. Types'
    <2>1. used' \subseteq PoolSlot /\ FreeList' \in [AllocType -> [0 .. MAX_POOL_LIST - 1 -> Seq(PoolSlot)]]
      BY <1>3, <1>6, <1>23 DEF Types, FreeLists
    <2> QED BY <2>1, <1>3, <1>6, <1>17, <1>21, <1>22 DEF Types
  <1>25. Pages4'
    <2>1. Below(n)
      <3>1. n > 1 => todo[n - 1].op \notin {"AllocatePages", "CarvePages"}
        BY <1>1 DEF Runs, Under, PoolOp
      <3> QED BY <3>1, <1>15, <1>n, ClaimsBelow
    <2>2. \A p \in Page : Claims(n + 1, p)' <=> x <= p /\ p < x + Align
      <3> TAKE p \in Page
      <3>0. PICK m : m = n + 1
        OBVIOUS
      <3>a. todo'[m] = h
        BY <3>0, <1>16
      <3>1. Claims(m, p)' <=> x <= p /\ p <= x + Align - 1
        BY <3>a, <1>11 DEF Claims, Covers
      <3>2. p \in Nat
        BY PagesAssumption DEF Page
      <3> QED BY <3>0, <3>1, <3>2, <1>10
    <2>3. \A p \in Page : ~ Claims(n, p)'
      <3>1. todo'[n] = g /\ g.op = "FreePool"
        BY <1>9, <1>16
      <3> QED BY <3>1 DEF Claims
    <2>4. todo[n].op = "FreePoolI" /\ todo'[n + 1].op = "ConvertPages" /\ carved[x].type \in AllocType
      BY <1>1, <1>r, <1>5, <1>11, <1>16 DEF Runs
    <2>5. \A i \in Adding' : i \in Adding /\ todo'[i] = todo[i]
      BY <1>19
    <2>6. Pages4 /\ ~ failed /\ allocs' = allocs /\ lost' = lost /\ \A p \in Page : PageAt(p)' = PageAt(p)
      BY <1>2, <1>3, <1>6, <1>21 DEF IInvParts
    <2>7. DOMAIN todo = 1 .. n /\ n \in Nat \ {0} /\ DOMAIN todo' = 1 .. n + 1
      BY <1>16
    <2>8. /\ x \in Page /\ carved[x] # NotCarved /\ carved'[x] = NotCarved
          /\ \A q \in Page : q # x => carved'[q] = carved[q]
      BY <1>5, <1>22
    <2> QED BY <2>1, <2>2, <2>3, <2>4, <2>5, <2>6, <2>7, <2>8, DroppedPages
  <1>26. Returned'
    BY <1>3, <1>6 DEF Returned
  <1>27. Freeing' = {}
    <2>1. \A k \in 1 .. Len(c) : c[k].op # "FreePoolI"
      BY <1>9, <1>11, <1>14
    <2> QED BY <2>1, <1>3, <1>15, NothingFreed
  <1>28. \A y \in used' : y[1] # x /\ y[1] \in Page /\ y \in BlocksAt(y[1])
    <2>1. \A y \in used' : y \in PoolSlot /\ y \in BlocksAt(y[1])
      BY <1>2, <1>3, <1>6 DEF IInvParts, Blocks, Types
    <2> QED BY <2>1, <1>7 DEF PoolSlot
  <1>29. Owners'
    <2>1. Homes' = Homes /\ Got' = Got /\ Pools' = Pools /\ held' = held
      BY <1>6, <1>21 DEF Homes, Got, Pools
    <2>2. used' = Homes' \cup held' \cup Pools' \cup Got' \cup Freeing'
      BY <2>1, <1>2, <1>5, <1>6, <1>27 DEF IInvParts, Owners
    <2>3. /\ Homes' \cap held' = {} /\ Homes' \cap Pools' = {} /\ Homes' \cap Got' = {} /\ Homes' \cap Freeing' = {}
          /\ held' \cap Pools' = {} /\ held' \cap Got' = {} /\ held' \cap Freeing' = {}
          /\ Pools' \cap Got' = {} /\ Pools' \cap Freeing' = {} /\ Got' \cap Freeing' = {}
      BY <2>1, <1>2, <1>27 DEF IInvParts, Owners
    <2>4. \A y \in Homes' : carved'[y[1]].type = RtData
      <3> SUFFICES ASSUME NEW y \in Homes' PROVE carved'[y[1]].type = RtData
        OBVIOUS
      <3>1. y \in used' /\ carved[y[1]].type = RtData
        BY <2>1, <2>2, <1>2 DEF IInvParts, Owners
      <3> QED BY <3>1, <1>22, <1>28
    <2>5. \A u, v \in OsType : PoolHeadList'[u] = PoolHeadList'[v] /\ PoolHeadList'[u] # Null => u = v
      BY <1>2, <1>6 DEF IInvParts, Owners
    <2> QED BY <2>2, <2>3, <2>4, <2>5, <1>27 DEF Owners
  <1>30. Blocks'
    <2>1. \A q \in Page : q # x => BlocksAt(q)' = BlocksAt(q)
      BY <1>22 DEF BlocksAt
    <2>2. \A y \in used' : y \in BlocksAt(y[1])'
      BY <2>1, <1>28
    <2>3. \A p \in Page : carved'[p].type = Absent => carved'[p] = NotCarved
      BY <1>2, <1>22 DEF IInvParts, Blocks
    <2>4. \A p \in Page : carved'[p] # NotCarved => BlocksAt(p)' \cap used' # {}
      <3> SUFFICES ASSUME NEW p \in Page, carved'[p] # NotCarved PROVE BlocksAt(p)' \cap used' # {}
        OBVIOUS
      <3>1. p # x /\ carved[p] # NotCarved
        BY <1>22
      <3>2. PICK y \in used : y \in BlocksAt(p)
        BY <3>1, <1>2 DEF IInvParts, Blocks
      <3>3. y[1] = p
        BY <3>2 DEF BlocksAt
      <3> QED BY <3>1, <3>2, <3>3, <2>1, <1>6, <1>r
    <2>5. PoolKept'
      <3>1. NotCarved.type \notin OsType
        BY PagesAssumption DEF NotCarved, MemType, AllocType
      <3> QED BY <3>1, <1>2, <1>6, <1>22 DEF IInvParts, Blocks, PoolKept
    <2> QED BY <2>2, <2>3, <2>4, <2>5 DEF Blocks
  <1>31. Keys'
    BY <1>2, <1>6, <1>21, KeysKept DEF IInvParts
  <1> QED BY <1>18, <1>21, <1>23, <1>24, <1>25, <1>26, <1>29, <1>30, <1>31, PartsPrime DEF IInvParts
=============================================================================
