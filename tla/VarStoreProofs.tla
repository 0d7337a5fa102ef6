--------------------------- MODULE VarStoreProofs ---------------------------
(***************************************************************************)
(* Proofs about VarStore: the firmware never sets a bit of a bank that it  *)
(* has not erased, wherever the power fails, and it always knows what the  *)
(* entries of a bank take.                                                 *)
(*                                                                         *)
(* The code writes what the copies in memory say, so the copies have to be *)
(* as the device is.  They are, in the invariant IInv, but for the banks   *)
(* that have not been read yet, are being erased or are being filled by a  *)
(* collection; and those are in the middle of a sequence of steps that is  *)
(* known to run to its end before another one starts (Before).             *)
(*                                                                         *)
(* Space is a second invariant on top of it, AInv: what a service is going *)
(* to do to entries was planned when it looked for room, so the entries it *)
(* marks are still valid when it comes to them, each is freed once, and    *)
(* what it appends still fits (Planned).                                   *)
(*                                                                         *)
(* Both need that recovery finds no corrupt bank (NeverCorrupt): it sets   *)
(* Tail behind what it has just erased, and later entries are not found.   *)
(* NothingCorrupts is when that holds.                                     *)
(***************************************************************************)
EXTENDS VarStore, SequenceTheorems, NaturalsInduction, WellFoundedInduction, TLAPS

-----------------------------------------------------------------------------
(* The invariant *)

OnBank == {"AddBank", "Scan", "Zero", "Erase", "NewHeader", "Data", "Activate", "ResetSequence",
           "Collect"}

\* The frames that todo consists of.
Frame ==
    (OnBank \X BankNo) \cup ({"BankState"} \X BankNo \X BankState)
    \cup ({"Append"} \X BankNo \X Entry) \cup ({"Mark"} \X BankNo \X Nat \X {"trans", "dead"})
    \cup ({"GetTBank", "Repair"} \X Store) \cup ({"Room"} \X Store \X Nat)
    \cup ({"Replace"} \X Store \X BOOLEAN) \cup ({"Check"} \X Store \X (Nat \ {0}) \X (Nat \ {0}))
    \cup {<<"Delete">>} \cup ({"Return"} \X {"success", "error"})

Image == [Header : Header, Log : Seq(Entry)]

\* A STORAGE_BANK that was not found corrupt; how much of it is in use does not matter here.
IsRecord(r) ==
    /\ r = [Header |-> r.Header, Log |-> r.Log, InUse |-> r.InUse, Gap |-> 0,
            DeviceError |-> r.DeviceError]
    /\ r.Header \in Header /\ r.Log \in Seq(Entry) /\ r.DeviceError \in BOOLEAN

Types ==
    /\ nv \in [BankNo -> Image]
    /\ DOMAIN Bank = BankNo /\ \A b \in BankNo : IsRecord(Bank[b])
    /\ Active \in [Store -> Seq(BankNo)]
    /\ TBank \in [Store -> BankNo \cup {NoBank}]
    /\ Sequence \in [Store -> 0 .. VARH_MAX_SEQUENCE]
    /\ todo \in Seq(Frame)

Listed(b) == \E k \in DOMAIN Active[StoreOf[b]] : Active[StoreOf[b]][k] = b

IsTBank(b) == TBank[StoreOf[b]] = b

\* A bank is on the list of its store, and the transaction bank, which is empty, on
\* no list.
Lists ==
    \A s \in Store :
       /\ \A k \in DOMAIN Active[s] : StoreOf[Active[s][k]] = s /\ Active[s][k] # TBank[s]
       /\ TBank[s] # NoBank => StoreOf[TBank[s]] = s /\ Bank[TBank[s]].Log = <<>>

Clearing == {"Zero", "Erase", "NewHeader"}
Changing == {"BankState", "Data"}
Updating == {"Append", "Mark"}

\* Step f may come before step g: VarStoreAddBank is done with a bank before it
\* goes on to the next, and a collection, an update and a reset of the sequence
\* numbers each run to their end.
Before(f, g) ==
    /\ g[1] = "AddBank" => f[1] \in {"AddBank", "Scan"} \cup Clearing
    /\ g[1] = "Scan" => f[1] \in Clearing
    /\ g[1] \in Clearing => g[1] = "Zero" /\ f[1] \in Changing
    /\ g[1] = "Data" => f[1] = "BankState"
    /\ g[1] \in {"BankState", "Activate"} => f[1] \in Changing \cup Clearing
    /\ g[1] \in Updating => f[1] \in Updating
    /\ g[1] = "ResetSequence" => f[1] = "ResetSequence"
    /\ g[1] # "Collect"

InOrder(t) == \A i, j \in DOMAIN t : i < j => Before(t[i], t[j])

In(f, t) == \E i \in DOMAIN t : t[i] = f

Pending(op, b) == \E i \in DOMAIN todo : todo[i][1] = op /\ todo[i][2] = b

\* Writes to bank b reach the device.
Kept(b) == StoreOf[b] \in NonVolatile /\ ~ Bank[b].DeviceError

\* What the steps that remain rely on.
StepOK(f) ==
    /\ f[1] \in {"AddBank", "Scan", "Data", "Activate"} \cup Clearing => ~ IsTBank(f[2])
    /\ f[1] = "Data" /\ Kept(f[2]) => nv[f[2]].Log = <<>>
    /\ f[1] = "NewHeader" /\ StoreOf[f[2]] \in NonVolatile => nv[f[2]] = Blank
    /\ f[1] \in {"Append", "Mark", "Collect"} => Listed(f[2])
    /\ f[1] = "Mark" => f[3] \in DOMAIN Bank[f[2]].Log
    /\ f[1] = "Replace" => request.name \in Name /\ request.val \in Val

Steps == InOrder(todo) /\ \A i \in DOMAIN todo : StepOK(todo[i])

\* The memory copy of a header is as the device has it, except while the bank has
\* not been read or is being erased.
HeaderOK(b) ==
    Kept(b) /\ ~ Pending("AddBank", b) /\ ~ Pending("NewHeader", b) =>
       nv[b].Header = Bank[b].Header

\* The same for the entries of a bank that the store uses.
Used(b) == Listed(b) \/ IsTBank(b) \/ Pending("Activate", b)

LogOK(b) ==
    (/\ Kept(b) /\ Used(b)
     /\ \A op \in {"AddBank", "Scan", "Data", "NewHeader"} : ~ Pending(op, b))
    => nv[b].Log = Bank[b].Log

Synced == \A b \in BankNo : HeaderOK(b) /\ LogOK(b)

IInv == Types /\ Lists /\ Steps /\ Synced

(* Sequences *)

\* A set of numbers that is not empty has a least element.
LEMMA LeastNat ==
    ASSUME NEW S \in SUBSET Nat, S # {}
    PROVE  \E x \in S : \A y \in S : x <= y
  <1>1. PICK x \in S : \A y \in S : ~ (<<y, x>> \in OpToRel(<, Nat))
    BY NatLessThanWellFounded, WFMin
  <1>2. \A y \in S : <<y, x>> \in OpToRel(<, Nat) <=> y < x
    BY DEF OpToRel
  <1>3. \A y \in S : ~(y < x)
    BY <1>1, <1>2, Zenon
  <1>4. \A y \in S : x <= y
    BY <1>3
  <1> QED BY <1>4

LEMMA MinFacts ==
    ASSUME NEW S \in SUBSET Nat, S # {}
    PROVE  Min(S) \in S
  BY LeastNat DEF Min

\* RemoveEntryList leaves the other banks of a list.
LEMMA WithoutFacts ==
    ASSUME NEW S, NEW list \in Seq(S), NEW b
    PROVE  /\ Without(list, b) \in Seq(S)
           /\ \A i \in DOMAIN Without(list, b) :
                 Without(list, b)[i] # b /\ \E j \in DOMAIN list : Without(list, b)[i] = list[j]
  <1> DEFINE Body(K, i) == IF i = 0 THEN <<>>
                           ELSE IF list[i] = b THEN K[i - 1]
                           ELSE Append(K[i - 1], list[i])
             Good(K, n) == K = [i \in 0 .. n |-> Body(K, i)]
             Bad == {n \in Nat : \A K : ~ Good(K, n)}
  <1>0. Len(list) \in Nat /\ DOMAIN list = 1 .. Len(list)
    OBVIOUS
  <1>1. Bad = {}
    <2> SUFFICES ASSUME Bad # {} PROVE FALSE
      OBVIOUS
    <2>1. PICK m \in Bad : \A y \in Bad : m <= y
      BY LeastNat
    <2>2. m # 0
      <3> SUFFICES ASSUME m = 0 PROVE FALSE
        OBVIOUS
      <3> DEFINE K == [i \in 0 .. 0 |-> <<>>]
      <3>1. \A i \in 0 .. 0 : Body(K, i) = <<>>
        OBVIOUS
      <3>2. Good(K, 0)
        BY <3>1
      <3> QED BY <3>2, <2>1
    <2>3. m - 1 \in Nat /\ m - 1 \notin Bad
      <3>1. Bad \in SUBSET Nat
        OBVIOUS
      <3> HIDE DEF Bad
      <3> QED BY <2>1, <2>2, <3>1
    <2>4. PICK J : Good(J, m - 1)
      BY <2>3
    <2> DEFINE K == [i \in 0 .. m |-> IF i = m THEN Body(J, m) ELSE J[i]]
    <2>5. \A i \in 0 .. m - 1 : J[i] = Body(J, i)
      BY <2>4, <2>3
    <2>6. \A i \in 0 .. m : K[i] = Body(K, i)
      <3> TAKE i \in 0 .. m
      <3>1. CASE i = m
        <4>1. K[m - 1] = J[m - 1]
          BY <2>3
        <4> QED BY <3>1, <4>1
      <3>2. CASE i # m /\ i # 0
        <4>0. i \in 0 .. m - 1 /\ i - 1 \in 0 .. m /\ i - 1 # m
          BY <3>2, <2>3
        <4>1. J[i] = Body(J, i)
          BY <4>0, <2>5
        <4>2. K[i - 1] = J[i - 1] /\ K[i] = J[i]
          BY <4>0, <3>2
        <4> QED BY <4>1, <4>2
      <3>3. CASE i = 0
        <4>0. i \in 0 .. m - 1 /\ i # m
          BY <3>3, <2>2, <2>3
        <4>1. J[i] = Body(J, i)
          BY <4>0, <2>5
        <4>2. K[i] = J[i]
          BY <4>0
        <4> QED BY <4>1, <4>2, <3>3
      <3> QED BY <3>1, <3>2, <3>3
    <2>7. Good(K, m)
      <3> HIDE DEF Body
      <3>1. K = [i \in 0 .. m |-> K[i]]
        OBVIOUS
      <3> HIDE DEF K
      <3> QED BY <2>6, <3>1
    <2> QED BY <2>7, <2>1
  <1>2. \E K : Good(K, Len(list))
    <2> HIDE DEF Good
    <2> QED BY <1>0, <1>1
  <1> DEFINE rec == CHOOSE K : Good(K, Len(list))
  <1>3. Good(rec, Len(list))
    BY <1>2
  <1>4. Without(list, b) = rec[Len(list)]
    BY DEF Without
  <1>5. \A i \in 0 .. Len(list) : rec[i] = Body(rec, i)
    BY <1>3, Zenon
  <1> DEFINE Sound(q, n) ==
                /\ q \in Seq(S)
                /\ \A i \in DOMAIN q : q[i] # b /\ \E j \in 1 .. n : q[i] = list[j]
             Wrong == {n \in 0 .. Len(list) : ~ Sound(rec[n], n)}
  <1> HIDE DEF rec
  <1>6. Wrong = {}
    <2> SUFFICES ASSUME Wrong # {} PROVE FALSE
      OBVIOUS
    <2>0. Wrong \in SUBSET Nat
      OBVIOUS
    <2>1. PICK m \in Wrong : \A y \in Wrong : m <= y
      BY <2>0, LeastNat
    <2>2. m # 0
      <3> SUFFICES ASSUME m = 0 PROVE FALSE
        OBVIOUS
      <3>1. rec[0] = <<>>
        BY <1>0, <1>5
      <3>2. Sound(<<>>, 0)
        <4>1. <<>> \in Seq(S) /\ DOMAIN <<>> = {}
          OBVIOUS
        <4> QED BY <4>1, Zenon
      <3>3. Sound(rec[m], m)
        BY <3>1, <3>2
      <3> HIDE DEF Sound
      <3> QED BY <3>3, <2>1
    <2>3. m - 1 \in 0 .. Len(list) /\ m - 1 \notin Wrong /\ m \in 1 .. Len(list)
      BY <2>1, <2>2, <1>0
    <2>4. Sound(rec[m - 1], m - 1)
      BY <2>3
    <2>5. rec[m] = IF list[m] = b THEN rec[m - 1] ELSE Append(rec[m - 1], list[m])
      BY <1>5, <2>3, <2>2
    <2> DEFINE q == rec[m - 1]
    <2>6. CASE list[m] = b
      <3>1. rec[m] = q
        BY <2>5, <2>6
      <3>2. Sound(q, m)
        <4>1. \A j \in 1 .. m - 1 : j \in 1 .. m
          BY <2>3
        <4> HIDE DEF q
        <4> QED BY <2>4, <4>1 DEF q
      <3> QED BY <3>1, <3>2, <2>1
    <2>7. CASE list[m] # b
      <3> DEFINE a == Append(q, list[m])
      <3>0. q \in Seq(S) /\ list[m] \in S
        BY <2>4, <2>3, <1>0
      <3>1. /\ a \in Seq(S) /\ Len(a) = Len(q) + 1 /\ DOMAIN a = 1 .. Len(q) + 1
            /\ a[Len(q) + 1] = list[m] /\ \A i \in 1 .. Len(q) : a[i] = q[i]
        BY <3>0
      <3>2. \A i \in DOMAIN q : q[i] # b /\ \E j \in 1 .. m - 1 : q[i] = list[j]
        BY <2>4
      <3>3. DOMAIN q = 1 .. Len(q) /\ Len(q) \in Nat
        BY <3>0
      <3> HIDE DEF q
      <3>4. \A i \in DOMAIN a : a[i] # b /\ \E j \in 1 .. m : a[i] = list[j]
        <4> TAKE i \in DOMAIN a
        <4>1. CASE i \in 1 .. Len(q)
          <5>1. PICK j \in 1 .. m - 1 : q[i] = list[j]
            BY <4>1, <3>2, <3>3
          <5>2. j \in 1 .. m
            BY <2>3
          <5> QED BY <4>1, <5>1, <5>2, <3>1, <3>2, <3>3
        <4>2. CASE i = Len(q) + 1
          <5>1. a[i] = list[m] /\ m \in 1 .. m
            BY <4>2, <3>1, <2>3
          <5> QED BY <5>1, <2>7
        <4> QED BY <4>1, <4>2, <3>1, <3>3
      <3>6. rec[m] = a
        BY <2>5, <2>7 DEF q
      <3> HIDE DEF a
      <3>7. Sound(a, m)
        BY <3>1, <3>4
      <3> QED BY <3>6, <3>7, <2>1
    <2> QED BY <2>6, <2>7
  <1>7. Sound(rec[Len(list)], Len(list))
    BY <1>6, <1>0
  <1> QED BY <1>4, <1>7, <1>0

-----------------------------------------------------------------------------
(* The space of a bank *)

LEMMA EntryFacts ==
    /\ \A e \in Entry : /\ e.size \in Nat \ {0} /\ e.size \in 1 .. VAR_SIZE_MASK
                        /\ [e EXCEPT !.state = "added"] \in Entry
                        /\ e.state \in {"added", "trans", "dead"}
    /\ \A e \in Entry, st \in {"trans", "dead"} : Marked(e, st) \in Entry
    /\ \A size \in 1 .. VAR_SIZE_MASK : Dead(size) \in Entry
    /\ \A n \in Name, v \in Val : VarSize[n][v] \in Nat
  <1>1. \A e \in Entry : /\ e.size \in Nat \ {0} /\ e.size \in 1 .. VAR_SIZE_MASK
                         /\ [e EXCEPT !.state = "added"] \in Entry
                         /\ e.state \in {"added", "trans", "dead"}
    <2>1. \A e \in Entry : /\ e.size \in 1 .. VAR_SIZE_MASK /\ [e EXCEPT !.state = "added"] \in Entry
                           /\ e.state \in {"added", "trans", "dead"}
      BY DEF Entry
    <2>2. \A size \in 1 .. VAR_SIZE_MASK : size \in Nat \ {0}
      BY StoreAssumption
    <2> QED BY <2>1, <2>2
  <1>2. \A size \in 1 .. VAR_SIZE_MASK : Dead(size) \in Entry
    <2> TAKE size \in 1 .. VAR_SIZE_MASK
    <2> PICK x \in BOOLEAN : x = FALSE
      OBVIOUS
    <2>1. [name |-> None, val |-> None, rt |-> x, size |-> size, state |-> "dead"] \in Entry
      BY DEF Entry
    <2> QED BY <2>1, Zenon DEF Dead
  <1>3. \A e \in Entry : [e EXCEPT !.state = "trans"] \in Entry
    BY DEF Entry
  <1>4. \A e \in Entry, st \in {"trans", "dead"} : Marked(e, st) \in Entry
    BY <1>1, <1>2, <1>3 DEF Marked
  <1>5. \A n \in Name, v \in Val : VarSize[n][v] \in Nat \ {0}
    BY StoreAssumption
  <1> QED BY <1>1, <1>2, <1>4, <1>5

\* A new entry reads back as it was written if its Size field can tell its size.
LEMMA AddedFacts ==
    ASSUME SizesTold
    PROVE  \A n \in Name, v \in Val, rt \in BOOLEAN : Added(n, v, rt) \in Entry
  <1>1. \A n \in Name, v \in Val : VarSize[n][v] \in 1 .. VAR_SIZE_MASK
    BY StoreAssumption DEF SizesTold
  <1> QED BY <1>1 DEF Added, Entry

\* The sums that Total adds up are there, and there is only one way to add them up.
LEMMA SumsExist ==
    ASSUME NEW sizes \in Seq(Nat)
    PROVE  \E F : /\ DOMAIN F = 0 .. Len(sizes) /\ F[0] = 0 /\ Total(sizes) = F[Len(sizes)]
                  /\ \A i \in 1 .. Len(sizes) : F[i] = F[i - 1] + sizes[i]
                  /\ \A i \in 0 .. Len(sizes) : F[i] \in Nat
                  /\ \A i \in 1 .. Len(sizes) : sizes[i] <= F[i]
  <1> DEFINE Body(K, i) == IF i = 0 THEN 0 ELSE K[i - 1] + sizes[i]
             Good(K, n) == K = [i \in 0 .. n |-> Body(K, i)]
             Bad == {n \in Nat : \A K : ~ Good(K, n)}
  <1>0. Len(sizes) \in Nat /\ \A i \in 1 .. Len(sizes) : sizes[i] \in Nat
    OBVIOUS
  <1>1. Bad = {}
    <2> SUFFICES ASSUME Bad # {} PROVE FALSE
      OBVIOUS
    <2>1. PICK m \in Bad : \A y \in Bad : m <= y
      BY LeastNat
    <2>2. m # 0
      <3> SUFFICES ASSUME m = 0 PROVE FALSE
        OBVIOUS
      <3> DEFINE K == [i \in 0 .. 0 |-> 0]
      <3>1. \A i \in 0 .. 0 : Body(K, i) = 0
        OBVIOUS
      <3>2. Good(K, 0)
        BY <3>1
      <3> QED BY <3>2, <2>1
    <2>3. m - 1 \in Nat /\ m - 1 \notin Bad
      <3>1. Bad \in SUBSET Nat
        OBVIOUS
      <3> HIDE DEF Bad
      <3> QED BY <2>1, <2>2, <3>1
    <2>4. PICK J : Good(J, m - 1)
      BY <2>3
    <2> DEFINE K == [i \in 0 .. m |-> IF i = m THEN Body(J, m) ELSE J[i]]
    <2>5. \A i \in 0 .. m - 1 : J[i] = Body(J, i)
      BY <2>4, <2>3
    <2>6. \A i \in 0 .. m : K[i] = Body(K, i)
      <3> TAKE i \in 0 .. m
      <3>1. CASE i = m
        <4>1. K[m - 1] = J[m - 1]
          BY <2>3
        <4> QED BY <3>1, <4>1
      <3>2. CASE i # m /\ i # 0
        <4>0. i \in 0 .. m - 1 /\ i - 1 \in 0 .. m /\ i - 1 # m
          BY <3>2, <2>3
        <4>1. J[i] = Body(J, i)
          BY <4>0, <2>5
        <4>2. K[i - 1] = J[i - 1] /\ K[i] = J[i]
          BY <4>0, <3>2
        <4> QED BY <4>1, <4>2
      <3>3. CASE i = 0
        <4>0. i \in 0 .. m - 1 /\ i # m
          BY <3>3, <2>2, <2>3
        <4>1. J[i] = Body(J, i)
          BY <4>0, <2>5
        <4>2. K[i] = J[i]
          BY <4>0
        <4> QED BY <4>1, <4>2, <3>3
      <3> QED BY <3>1, <3>2, <3>3
    <2>7. Good(K, m)
      <3> HIDE DEF Body
      <3>1. K = [i \in 0 .. m |-> K[i]]
        OBVIOUS
      <3> HIDE DEF K
      <3> QED BY <2>6, <3>1
    <2> QED BY <2>7, <2>1
  <1>2. \E K : Good(K, Len(sizes))
    <2> HIDE DEF Good
    <2> QED BY <1>0, <1>1
  <1> DEFINE rec == CHOOSE K : Good(K, Len(sizes))
  <1>3. Good(rec, Len(sizes))
    BY <1>2
  <1>4. Total(sizes) = rec[Len(sizes)]
    BY DEF Total
  <1>5. \A i \in 0 .. Len(sizes) : rec[i] = Body(rec, i)
    BY <1>3, Zenon
  <1>6. DOMAIN rec = 0 .. Len(sizes)
    BY <1>3
  <1> HIDE DEF rec
  <1>7. rec[0] = 0 /\ \A i \in 1 .. Len(sizes) : rec[i] = rec[i - 1] + sizes[i]
    BY <1>0, <1>5
  <1> DEFINE Wrong == {n \in 0 .. Len(sizes) : rec[n] \notin Nat}
  <1>8. Wrong = {}
    <2> SUFFICES ASSUME Wrong # {} PROVE FALSE
      OBVIOUS
    <2>0. Wrong \in SUBSET Nat
      OBVIOUS
    <2>1. PICK m \in Wrong : \A y \in Wrong : m <= y
      BY <2>0, LeastNat
    <2>2. m # 0
      BY <1>7, <2>1
    <2>3. m - 1 \in 0 .. Len(sizes) /\ m - 1 \notin Wrong /\ m \in 1 .. Len(sizes)
      BY <2>1, <2>2, <1>0
    <2>4. rec[m - 1] \in Nat /\ sizes[m] \in Nat /\ rec[m] = rec[m - 1] + sizes[m]
      BY <1>0, <1>7, <2>3
    <2>5. rec[m] \in Nat
      BY <2>4
    <2> QED BY <2>1, <2>5
  <1>9. \A i \in 0 .. Len(sizes) : rec[i] \in Nat
    BY <1>8
  <1>10. \A i \in 1 .. Len(sizes) : sizes[i] <= rec[i]
    <2> TAKE i \in 1 .. Len(sizes)
    <2>1. i - 1 \in 0 .. Len(sizes)
      BY <1>0
    <2>2. rec[i - 1] \in Nat /\ sizes[i] \in Nat /\ rec[i] = rec[i - 1] + sizes[i]
      BY <1>0, <1>7, <1>9, <2>1
    <2> QED BY <2>2
  <1> QED BY <1>4, <1>6, <1>7, <1>9, <1>10

LEMMA SumsAgree ==
    ASSUME NEW sizes \in Seq(Nat), NEW G, G[0] = 0,
           \A i \in 1 .. Len(sizes) : G[i] = G[i - 1] + sizes[i]
    PROVE  Total(sizes) = G[Len(sizes)]
  <1>1. PICK F : /\ F[0] = 0 /\ Total(sizes) = F[Len(sizes)]
                 /\ \A i \in 1 .. Len(sizes) : F[i] = F[i - 1] + sizes[i]
    BY SumsExist
  <1>2. Len(sizes) \in Nat
    OBVIOUS
  <1> DEFINE Wrong == {n \in 0 .. Len(sizes) : F[n] # G[n]}
  <1>3. Wrong = {}
    <2> SUFFICES ASSUME Wrong # {} PROVE FALSE
      OBVIOUS
    <2>0. Wrong \in SUBSET Nat
      OBVIOUS
    <2>1. PICK m \in Wrong : \A y \in Wrong : m <= y
      BY <2>0, LeastNat
    <2>2. m # 0
      BY <1>1, <2>1
    <2>3. m - 1 \in 0 .. Len(sizes) /\ m - 1 \notin Wrong /\ m \in 1 .. Len(sizes)
      BY <2>1, <2>2, <1>2
    <2>4. F[m - 1] = G[m - 1] /\ F[m] = F[m - 1] + sizes[m] /\ G[m] = G[m - 1] + sizes[m]
      BY <1>1, <2>3
    <2> QED BY <2>1, <2>4
  <1>4. F[Len(sizes)] = G[Len(sizes)]
    BY <1>2, <1>3
  <1> QED BY <1>1, <1>4

LEMMA TotalFacts ==
    ASSUME NEW sizes \in Seq(Nat)
    PROVE  Total(sizes) \in Nat
  <1>1. PICK F : Total(sizes) = F[Len(sizes)] /\ \A i \in 0 .. Len(sizes) : F[i] \in Nat
    BY SumsExist
  <1>2. Len(sizes) \in 0 .. Len(sizes)
    OBVIOUS
  <1> QED BY <1>1, <1>2

LEMMA TotalEmpty == Total(<<>>) = 0
  <1>1. <<>> \in Seq(Nat) /\ Len(<<>>) = 0
    OBVIOUS
  <1>2. PICK F : F[0] = 0 /\ Total(<<>>) = F[Len(<<>>)]
    BY <1>1, SumsExist
  <1> QED BY <1>1, <1>2

LEMMA TotalAppend ==
    ASSUME NEW sizes \in Seq(Nat), NEW x \in Nat
    PROVE  Total(Append(sizes, x)) = Total(sizes) + x
  <1>1. PICK n, new : n = Len(sizes) /\ new = Append(sizes, x)
    OBVIOUS
  <1>2. /\ n \in Nat /\ new \in Seq(Nat) /\ Len(new) = n + 1 /\ new[n + 1] = x
        /\ \A i \in 1 .. n : new[i] = sizes[i]
    BY <1>1
  <1>3. PICK F : /\ F[0] = 0 /\ Total(sizes) = F[n]
                 /\ \A i \in 1 .. n : F[i] = F[i - 1] + sizes[i]
    BY <1>1, SumsExist
  <1> DEFINE G == [i \in 0 .. n + 1 |-> IF i = n + 1 THEN F[n] + x ELSE F[i]]
  <1>4. G[0] = 0 /\ G[n + 1] = F[n] + x
    BY <1>2, <1>3
  <1>5. ASSUME NEW i \in 1 .. n + 1
        PROVE  G[i] = G[i - 1] + new[i]
    <2>1. CASE i = n + 1
      <3>1. G[i - 1] = F[n] /\ G[i] = F[n] + x /\ new[i] = x
        BY <1>2, <2>1
      <3> QED BY <3>1
    <2>2. CASE i # n + 1
      <3>1. i \in 1 .. n /\ i - 1 \in 0 .. n + 1 /\ i - 1 # n + 1 /\ i \in 0 .. n + 1
        BY <1>2, <2>2
      <3>2. G[i - 1] = F[i - 1] /\ G[i] = F[i] /\ new[i] = sizes[i]
        BY <1>2, <2>2, <3>1
      <3> QED BY <1>3, <3>1, <3>2
    <2> QED BY <2>1, <2>2
  <1> HIDE DEF G
  <1>6. Total(new) = G[Len(new)]
    BY <1>2, <1>4, <1>5, SumsAgree
  <1> QED BY <1>1, <1>2, <1>3, <1>4, <1>6

\* One place is changed.
LEMMA TotalChange ==
    ASSUME NEW sizes \in Seq(Nat), NEW k \in DOMAIN sizes, NEW x \in Nat
    PROVE  Total([sizes EXCEPT ![k] = x]) = Total(sizes) - sizes[k] + x
  <1>1. PICK n, new, y : n = Len(sizes) /\ new = [sizes EXCEPT ![k] = x] /\ y = sizes[k]
    OBVIOUS
  <1>2. /\ n \in Nat /\ k \in 1 .. n /\ new \in Seq(Nat) /\ Len(new) = n /\ new[k] = x
        /\ \A i \in 1 .. n : i # k => new[i] = sizes[i]
        /\ y \in Nat /\ \A i \in 1 .. n : sizes[i] \in Nat
    BY <1>1
  <1>3. PICK F : /\ F[0] = 0 /\ Total(sizes) = F[n]
                 /\ \A i \in 1 .. n : F[i] = F[i - 1] + sizes[i]
                 /\ \A i \in 0 .. n : F[i] \in Nat
    BY <1>1, SumsExist
  <1> DEFINE G == [i \in 0 .. n |-> IF i < k THEN F[i] ELSE F[i] - y + x]
  <1>4. G[0] = 0 /\ G[n] = F[n] - y + x
    <2>1. 0 \in 0 .. n /\ 0 < k /\ n \in 0 .. n /\ ~ (n < k)
      BY <1>2
    <2> QED BY <1>3, <2>1
  <1>5. ASSUME NEW i \in 1 .. n
        PROVE  G[i] = G[i - 1] + new[i]
    <2>1. i - 1 \in 0 .. n /\ i \in 0 .. n
      BY <1>2
    <2>2. PICK p, f, c : p = F[i - 1] /\ f = F[i] /\ c = sizes[i]
      OBVIOUS
    <2>3. p \in Nat /\ f \in Nat /\ c \in Nat /\ f = p + c
      BY <1>2, <1>3, <2>1, <2>2
    <2>4. /\ G[i - 1] = IF i - 1 < k THEN p ELSE p - y + x
          /\ G[i] = IF i < k THEN f ELSE f - y + x
      BY <2>1, <2>2
    <2> HIDE DEF G
    <2>5. new[i] = IF i = k THEN x ELSE c
      BY <1>2, <2>2
    <2>6. i = k => c = y
      BY <1>1, <2>2
    <2> QED BY <1>2, <2>3, <2>4, <2>5, <2>6
  <1> HIDE DEF G
  <1>6. Total(new) = G[Len(new)]
    BY <1>2, <1>4, <1>5, SumsAgree
  <1> QED BY <1>1, <1>2, <1>3, <1>4, <1>6

Sizes(log) == [i \in DOMAIN log |-> log[i].size]
ValidSizes(log) == [i \in DOMAIN log |-> IF Valid(log[i]) THEN log[i].size ELSE 0]

LEMMA SizesFacts ==
    ASSUME NEW log \in Seq(Entry)
    PROVE  /\ Sizes(log) \in Seq(Nat) /\ DOMAIN Sizes(log) = DOMAIN log /\ Len(Sizes(log)) = Len(log)
           /\ ValidSizes(log) \in Seq(Nat) /\ DOMAIN ValidSizes(log) = DOMAIN log /\ Len(ValidSizes(log)) = Len(log)
           /\ Tail_(log) = FIRST_VARIABLE_OFFSET + Total(Sizes(log)) /\ Tail_(log) \in Nat
           /\ Live(log) = FIRST_VARIABLE_OFFSET + Total(ValidSizes(log)) /\ Live(log) \in Nat
           /\ \A i \in DOMAIN log : log[i].size \in Nat
  <1>1. DOMAIN log = 1 .. Len(log) /\ Len(log) \in Nat
    OBVIOUS
  <1>2. \A i \in DOMAIN log : log[i].size \in Nat
    <2>1. \A i \in DOMAIN log : log[i] \in Entry
      OBVIOUS
    <2> QED BY <2>1, EntryFacts
  <1>3. Sizes(log) \in [1 .. Len(log) -> Nat] /\ ValidSizes(log) \in [1 .. Len(log) -> Nat]
    BY <1>1, <1>2 DEF Sizes, ValidSizes
  <1>4. /\ Sizes(log) \in Seq(Nat) /\ ValidSizes(log) \in Seq(Nat)
        /\ DOMAIN Sizes(log) = DOMAIN log /\ DOMAIN ValidSizes(log) = DOMAIN log
    BY <1>1, <1>3
  <1>5. Len(Sizes(log)) = Len(log) /\ Len(ValidSizes(log)) = Len(log)
    BY <1>1, <1>3
  <1>6. Total(Sizes(log)) \in Nat /\ Total(ValidSizes(log)) \in Nat
    BY <1>4, TotalFacts
  <1>7. Tail_(log) = FIRST_VARIABLE_OFFSET + Total(Sizes(log)) /\ Live(log) = FIRST_VARIABLE_OFFSET + Total(ValidSizes(log))
    BY Zenon DEF Tail_, Live, Sizes, ValidSizes
  <1> QED BY <1>2, <1>4, <1>5, <1>6, <1>7 DEF FIRST_VARIABLE_OFFSET

LEMMA SpaceEmpty == Tail_(<<>>) = FIRST_VARIABLE_OFFSET /\ Live(<<>>) = FIRST_VARIABLE_OFFSET
  <1>1. Sizes(<<>>) = <<>> /\ ValidSizes(<<>>) = <<>>
    BY DEF Sizes, ValidSizes
  <1>2. <<>> \in Seq(Entry)
    OBVIOUS
  <1>3. /\ Tail_(<<>>) = FIRST_VARIABLE_OFFSET + Total(<<>>)
        /\ Live(<<>>) = FIRST_VARIABLE_OFFSET + Total(<<>>)
    BY <1>1, <1>2, SizesFacts, Zenon
  <1> QED BY <1>3, TotalEmpty DEF FIRST_VARIABLE_OFFSET

LEMMA SpaceAppend ==
    ASSUME NEW log \in Seq(Entry), NEW e \in Entry
    PROVE  /\ Tail_(Append(log, e)) = Tail_(log) + e.size
           /\ Valid(e) => Live(Append(log, e)) = Live(log) + e.size
  <1>1. PICK new : new = Append(log, e)
    OBVIOUS
  <1>2. /\ new \in Seq(Entry) /\ DOMAIN new = 1 .. Len(log) + 1 /\ DOMAIN log = 1 .. Len(log) /\ Len(log) \in Nat
        /\ new[Len(log) + 1] = e /\ \A i \in 1 .. Len(log) : new[i] = log[i]
    BY <1>1
  <1>3. e.size \in Nat
    BY EntryFacts
  <1>4. ASSUME NEW s \in Seq(Nat), NEW t \in Seq(Nat), NEW x \in Nat, Len(s) = Len(log), Len(t) = Len(log) + 1,
               t[Len(log) + 1] = x, \A i \in 1 .. Len(log) : t[i] = s[i]
        PROVE  t = Append(s, x)
    <2>1. PICK a : a = Append(s, x)
      OBVIOUS
    <2>2. /\ a \in Seq(Nat) /\ Len(a) = Len(log) + 1 /\ a[Len(log) + 1] = x
          /\ \A i \in 1 .. Len(log) : a[i] = s[i]
      BY <1>4, <2>1
    <2>3. \A i \in 1 .. Len(log) + 1 : i = Len(log) + 1 \/ i \in 1 .. Len(log)
      BY <1>2
    <2>4. \A i \in 1 .. Len(t) : t[i] = a[i]
      BY <1>4, <2>2, <2>3
    <2> QED BY <1>4, <2>1, <2>2, <2>4, SeqEqual
  <1>5. /\ Sizes(log) \in Seq(Nat) /\ Len(Sizes(log)) = Len(log) /\ Sizes(new) \in Seq(Nat) /\ Len(Sizes(new)) = Len(log) + 1
        /\ ValidSizes(log) \in Seq(Nat) /\ Len(ValidSizes(log)) = Len(log)
        /\ ValidSizes(new) \in Seq(Nat) /\ Len(ValidSizes(new)) = Len(log) + 1
    <2>1. Len(new) = Len(log) + 1
      BY <1>1
    <2> QED BY <1>2, <2>1, SizesFacts
  <1>6. Sizes(new) = Append(Sizes(log), e.size)
    <2>1. Sizes(new)[Len(log) + 1] = e.size /\ \A i \in 1 .. Len(log) : Sizes(new)[i] = Sizes(log)[i]
      BY <1>2 DEF Sizes
    <2> QED BY <1>3, <1>4, <1>5, <2>1
  <1>7. ASSUME Valid(e)
        PROVE  ValidSizes(new) = Append(ValidSizes(log), e.size)
    <2>1. ValidSizes(new)[Len(log) + 1] = e.size /\ \A i \in 1 .. Len(log) : ValidSizes(new)[i] = ValidSizes(log)[i]
      BY <1>2, <1>7 DEF ValidSizes
    <2> QED BY <1>3, <1>4, <1>5, <2>1
  <1>8. Total(Sizes(new)) = Total(Sizes(log)) + e.size
    BY <1>3, <1>5, <1>6, TotalAppend
  <1>9. Valid(e) => Total(ValidSizes(new)) = Total(ValidSizes(log)) + e.size
    BY <1>3, <1>5, <1>7, TotalAppend
  <1>10. /\ Tail_(new) = FIRST_VARIABLE_OFFSET + Total(Sizes(new)) /\ Tail_(log) = FIRST_VARIABLE_OFFSET + Total(Sizes(log))
         /\ Live(new) = FIRST_VARIABLE_OFFSET + Total(ValidSizes(new))
         /\ Live(log) = FIRST_VARIABLE_OFFSET + Total(ValidSizes(log))
    BY <1>2, SizesFacts
  <1>11. Total(Sizes(log)) \in Nat /\ Total(ValidSizes(log)) \in Nat
    BY <1>5, TotalFacts
  <1>12. Tail_(new) = Tail_(log) + e.size
    BY <1>3, <1>8, <1>10, <1>11 DEF FIRST_VARIABLE_OFFSET
  <1>13. Valid(e) => Live(new) = Live(log) + e.size
    BY <1>3, <1>9, <1>10, <1>11 DEF FIRST_VARIABLE_OFFSET
  <1> QED BY <1>1, <1>12, <1>13

LEMMA SpaceMark ==
    ASSUME NEW log \in Seq(Entry), NEW k \in DOMAIN log, NEW m \in Entry,
           m.size = log[k].size, Valid(log[k])
    PROVE  LET new == [log EXCEPT ![k] = m]
           IN  /\ Tail_(new) = Tail_(log)
               /\ Live(new) = IF Valid(m) THEN Live(log) ELSE Live(log) - m.size
  <1>1. PICK new : new = [log EXCEPT ![k] = m]
    OBVIOUS
  <1>2. /\ new \in Seq(Entry) /\ DOMAIN new = DOMAIN log /\ new[k] = m /\ \A i \in DOMAIN log : i # k => new[i] = log[i]
        /\ m.size \in Nat
    <2>1. m.size \in Nat
      BY EntryFacts
    <2> QED BY <1>1, <2>1
  <1>3. Sizes(new) = Sizes(log)
    BY <1>2 DEF Sizes
  <1>4. PICK x : x = IF Valid(m) THEN m.size ELSE 0
    OBVIOUS
  <1>5. x \in Nat
    BY <1>2, <1>4
  <1>6. ValidSizes(new) = [ValidSizes(log) EXCEPT ![k] = x]
    BY <1>2, <1>4 DEF ValidSizes
  <1>7. ValidSizes(log) \in Seq(Nat) /\ k \in DOMAIN ValidSizes(log) /\ ValidSizes(log)[k] = m.size
    <2>1. ValidSizes(log)[k] = m.size
      BY DEF ValidSizes
    <2> QED BY <2>1, SizesFacts
  <1>8. Total(ValidSizes(new)) = Total(ValidSizes(log)) - m.size + x
    <2>1. Total([ValidSizes(log) EXCEPT ![k] = x]) = Total(ValidSizes(log)) - ValidSizes(log)[k] + x
      BY <1>5, <1>7, TotalChange
    <2> QED BY <1>6, <1>7, <2>1
  <1>9. /\ Tail_(new) = FIRST_VARIABLE_OFFSET + Total(Sizes(new)) /\ Tail_(log) = FIRST_VARIABLE_OFFSET + Total(Sizes(log))
        /\ Live(new) = FIRST_VARIABLE_OFFSET + Total(ValidSizes(new))
        /\ Live(log) = FIRST_VARIABLE_OFFSET + Total(ValidSizes(log))
    BY <1>2, SizesFacts
  <1>10. Total(ValidSizes(log)) \in Nat
    BY <1>7, TotalFacts
  <1>11. Tail_(new) = Tail_(log)
    BY <1>3, <1>9
  <1>12. Live(new) = IF Valid(m) THEN Live(log) ELSE Live(log) - m.size
    BY <1>2, <1>4, <1>8, <1>9, <1>10 DEF FIRST_VARIABLE_OFFSET
  <1> QED BY <1>1, <1>11, <1>12

\* The first entries of a log do not reach beyond the whole of it.
LEMMA UptoFacts ==
    ASSUME NEW log \in Seq(Entry)
    PROVE  \A i \in 1 .. Len(log) : Upto(log, i) \in Nat /\ Upto(log, i) <= Tail_(log)
  <1>1. PICK n \in Nat : n = Len(log)
    OBVIOUS
  <1>2. \A i \in 1 .. n : SubSeq(log, 1, i) \in Seq(Entry)
    BY <1>1
  <1>3. Tail_(log) \in Nat /\ \A i \in 1 .. n : Upto(log, i) \in Nat
    BY <1>2, SizesFacts DEF Upto
  <1>4. ASSUME NEW i \in 1 .. n, i # n
        PROVE  i + 1 \in 1 .. n /\ Upto(log, i) <= Upto(log, i + 1)
    <2>1. PICK a, b, e : a = SubSeq(log, 1, i) /\ b = SubSeq(log, 1, i + 1) /\ e = log[i + 1]
      OBVIOUS
    <2>2. i + 1 \in 1 .. n /\ i + 1 \in 1 .. Len(log) /\ 1 \in 1 .. Len(log) /\ (i + 1) - 1 = i
      BY <1>1, <1>4
    <2>3. a \in Seq(Entry) /\ e \in Entry /\ e.size \in Nat
      <3>1. log[i + 1] \in Entry
        BY <2>2
      <3>2. SubSeq(log, 1, i) \in Seq(Entry)
        BY <1>2
      <3> QED BY <2>1, <3>1, <3>2, EntryFacts
    <2>4. b = Append(a, e)
      <3>1. i + 1 \in 1 .. Len(log)
        BY <2>2
      <3>2. SubSeq(log, 1, i + 1) = SubSeq(log, 1, (i + 1) - 1) \o << log[i + 1] >>
        BY <2>2, SubSeqRecursiveSecond
      <3>3. b = a \o << e >>
        BY <2>1, <2>2, <3>2
      <3> QED BY <2>3, <3>3
    <2>5. Tail_(b) = Tail_(a) + e.size
      BY <2>3, <2>4, SpaceAppend
    <2>6. Upto(log, i) = Tail_(a) /\ Upto(log, i + 1) = Tail_(b) /\ Tail_(a) \in Nat
      BY <2>1, <2>3, SizesFacts DEF Upto
    <2> QED BY <2>2, <2>3, <2>5, <2>6
  <1>5. Upto(log, n) = Tail_(log)
    BY <1>1, SubSeqFull DEF Upto
  <1> DEFINE Beyond == {k \in Nat : k < n /\ ~ (Upto(log, n - k) <= Tail_(log))}
  <1>6. ASSUME Beyond # {} PROVE FALSE
    <2>1. PICK k \in Beyond : \A m \in Beyond : k <= m
      <3>1. Beyond \in SUBSET Nat
        OBVIOUS
      <3> HIDE DEF Beyond
      <3> QED BY <1>6, <3>1, LeastNat
    <2>2. k \in Nat /\ k < n /\ ~ (Upto(log, n - k) <= Tail_(log))
      BY <2>1
    <2>3. k # 0
      <3> SUFFICES ASSUME k = 0 PROVE FALSE
        OBVIOUS
      <3>1. n - k = n
        OBVIOUS
      <3> QED BY <1>3, <1>5, <2>2, <3>1
    <2>4. PICK i : i = n - k
      OBVIOUS
    <2>5. i \in 1 .. n /\ i # n /\ n - (k - 1) = i + 1 /\ k - 1 \in Nat /\ k - 1 < n /\ ~ (k <= k - 1)
      BY <2>2, <2>3, <2>4
    <2>6. Upto(log, i + 1) <= Tail_(log)
      BY <2>1, <2>5
    <2>7. Upto(log, i) <= Upto(log, i + 1) /\ Upto(log, i) \in Nat /\ Upto(log, i + 1) \in Nat
      BY <1>3, <1>4, <2>5
    <2> QED BY <1>3, <2>2, <2>4, <2>6, <2>7
  <1>7. ASSUME NEW i \in 1 .. n
        PROVE  Upto(log, i) <= Tail_(log)
    <2>1. n - i \in Nat /\ n - i < n /\ n - (n - i) = i
      OBVIOUS
    <2>2. n - i \notin Beyond
      BY <1>6
    <2> QED BY <2>1, <2>2
  <1> QED BY <1>1, <1>3, <1>7

\* Recovery finds no fault with a bank whose entries lie within it.
LEMMA SoundFacts ==
    ASSUME NEW log \in Seq(Entry), Tail_(log) <= BankSize
    PROVE  CorruptEntry(log) = 0
  <1>1. BankSize \in Nat /\ SIZEOF_VARIABLE \in Nat /\ Tail_(log) \in Nat /\ DOMAIN log = 1 .. Len(log)
    BY StoreAssumption, SizesFacts
  <1>2. ASSUME NEW i \in DOMAIN log
        PROVE  ~ (Upto(log, i) - SIZEOF_VARIABLE > BankSize)
    <2>1. Upto(log, i) \in Nat /\ Upto(log, i) <= Tail_(log)
      BY <1>1, <1>2, UptoFacts
    <2> QED BY <1>1, <2>1
  <1>3. {i \in DOMAIN log : Upto(log, i) - SIZEOF_VARIABLE > BankSize} = {}
    BY <1>2
  <1> QED BY <1>3, Zenon DEF CorruptEntry

\* What a collection has just written is valid.
LEMMA SpaceValid ==
    ASSUME NEW log \in Seq(Entry), \A i \in DOMAIN log : Valid(log[i])
    PROVE  Live(log) = Tail_(log)
  <1>1. ValidSizes(log) = Sizes(log)
    BY DEF Sizes, ValidSizes
  <1> QED BY <1>1, SizesFacts

\* The entries of a bank are all valid, and do not reach beyond its end.
Fits(log) == (\A i \in DOMAIN log : Valid(log[i])) /\ Tail_(log) <= BankSize

LEMMA FitsEmpty == Fits(<<>>)
  <1>1. FIRST_VARIABLE_OFFSET <= BankSize
    BY StoreAssumption DEF FIRST_VARIABLE_OFFSET
  <1> QED BY <1>1, SpaceEmpty DEF Fits

LEMMA FitsAppend ==
    ASSUME NEW log \in Seq(Entry), NEW e \in Entry, Fits(log), Valid(e), Tail_(log) + e.size <= BankSize
    PROVE  Fits(Append(log, e))
  <1>1. PICK new : new = Append(log, e)
    OBVIOUS
  <1>2. /\ DOMAIN new = 1 .. Len(log) + 1 /\ DOMAIN log = 1 .. Len(log) /\ Len(log) \in Nat
        /\ new[Len(log) + 1] = e /\ \A i \in 1 .. Len(log) : new[i] = log[i]
    BY <1>1
  <1>3. \A i \in DOMAIN new : Valid(new[i])
    BY <1>2 DEF Fits
  <1>4. Tail_(new) = Tail_(log) + e.size
    BY <1>1, SpaceAppend
  <1> QED BY <1>1, <1>3, <1>4 DEF Fits

\* What a collection writes to the new bank are valid entries, which fit into it.
LEMMA MovedFacts ==
    ASSUME NEW old, NEW new, Bank[old].Log \in Seq(Entry), Bank[new].Log \in Seq(Entry)
    PROVE  /\ Moved(old, new) \in Seq(Entry)
           /\ Bank[new].Log = <<>> => Fits(Moved(old, new))
  <1> DEFINE log == Bank[old].Log
  <1> DEFINE Body(K, i) == IF i = 0 THEN Bank[new].Log
                           ELSE IF ~ Valid(log[i]) \/ Tail_(K[i - 1]) + log[i].size > BankSize THEN K[i - 1]
                           ELSE Append(K[i - 1], [log[i] EXCEPT !.state = "added"])
             Good(K, n) == K = [i \in 0 .. n |-> Body(K, i)]
             Bad == {n \in Nat : \A K : ~ Good(K, n)}
  <1>0. Len(log) \in Nat /\ DOMAIN log = 1 .. Len(log)
    OBVIOUS
  <1>1. Bad = {}
    <2> SUFFICES ASSUME Bad # {} PROVE FALSE
      OBVIOUS
    <2>1. PICK m \in Bad : \A y \in Bad : m <= y
      BY LeastNat
    <2>2. m # 0
      <3> SUFFICES ASSUME m = 0 PROVE FALSE
        OBVIOUS
      <3> DEFINE K == [i \in 0 .. 0 |-> Bank[new].Log]
      <3>1. \A i \in 0 .. 0 : Body(K, i) = Bank[new].Log
        OBVIOUS
      <3>2. Good(K, 0)
        BY <3>1
      <3> QED BY <3>2, <2>1
    <2>3. m - 1 \in Nat /\ m - 1 \notin Bad
      <3>1. Bad \in SUBSET Nat
        OBVIOUS
      <3> HIDE DEF Bad
      <3> QED BY <2>1, <2>2, <3>1
    <2>4. PICK J : Good(J, m - 1)
      BY <2>3
    <2> DEFINE K == [i \in 0 .. m |-> IF i = m THEN Body(J, m) ELSE J[i]]
    <2>5. \A i \in 0 .. m - 1 : J[i] = Body(J, i)
      BY <2>4, <2>3
    <2>6. \A i \in 0 .. m : K[i] = Body(K, i)
      <3> TAKE i \in 0 .. m
      <3>1. CASE i = m
        <4>1. K[m - 1] = J[m - 1]
          BY <2>3
        <4> QED BY <3>1, <4>1
      <3>2. CASE i # m /\ i # 0
        <4>0. i \in 0 .. m - 1 /\ i - 1 \in 0 .. m /\ i - 1 # m
          BY <3>2, <2>3
        <4>1. J[i] = Body(J, i)
          BY <4>0, <2>5
        <4>2. K[i - 1] = J[i - 1] /\ K[i] = J[i]
          BY <4>0, <3>2
        <4> QED BY <4>1, <4>2
      <3>3. CASE i = 0
        <4>0. i \in 0 .. m - 1 /\ i # m
          BY <3>3, <2>2, <2>3
        <4>1. J[i] = Body(J, i)
          BY <4>0, <2>5
        <4>2. K[i] = J[i]
          BY <4>0
        <4> QED BY <4>1, <4>2, <3>3
      <3> QED BY <3>1, <3>2, <3>3
    <2>7. Good(K, m)
      <3> HIDE DEF Body
      <3>1. K = [i \in 0 .. m |-> K[i]]
        OBVIOUS
      <3> HIDE DEF K
      <3> QED BY <2>6, <3>1
    <2> QED BY <2>7, <2>1
  <1>2. \E K : Good(K, Len(log))
    <2> HIDE DEF Good
    <2> QED BY <1>0, <1>1
  <1> DEFINE rec == CHOOSE K : Good(K, Len(log))
  <1>3. Good(rec, Len(log))
    BY <1>2
  <1>4. Moved(old, new) = rec[Len(log)]
    BY DEF Moved
  <1>5. \A i \in 0 .. Len(log) : rec[i] = Body(rec, i)
    BY <1>3, Zenon
  <1> DEFINE Sound(q) == q \in Seq(Entry) /\ (Bank[new].Log = <<>> => Fits(q))
             Wrong == {n \in 0 .. Len(log) : ~ Sound(rec[n])}
  <1>a. \A i \in DOMAIN log : [log[i] EXCEPT !.state = "added"] \in Entry
    <2> TAKE i \in DOMAIN log
    <2>1. log[i] \in Entry
      OBVIOUS
    <2> HIDE DEF log
    <2> QED BY <2>1 DEF Entry
  <1> HIDE DEF rec
  <1>6. Wrong = {}
    <2> SUFFICES ASSUME Wrong # {} PROVE FALSE
      OBVIOUS
    <2>0. Wrong \in SUBSET Nat
      OBVIOUS
    <2>1. PICK m \in Wrong : \A y \in Wrong : m <= y
      BY <2>0, LeastNat
    <2>2. m # 0
      <3> SUFFICES ASSUME m = 0 PROVE FALSE
        OBVIOUS
      <3>1. rec[0] = Bank[new].Log
        BY <1>0, <1>5
      <3>2. Sound(Bank[new].Log)
        BY FitsEmpty
      <3> QED BY <3>1, <3>2, <2>1
    <2>3. m - 1 \in 0 .. Len(log) /\ m - 1 \notin Wrong /\ m \in 1 .. Len(log)
      BY <2>1, <2>2, <1>0
    <2>4. Sound(rec[m - 1])
      BY <2>3
    <2>5. rec[m] = Body(rec, m)
      BY <1>5, <2>3
    <2>6. PICK e, q : e = [log[m] EXCEPT !.state = "added"] /\ q = rec[m - 1]
      OBVIOUS
    <2>7. e \in Entry
      BY <1>a, <1>0, <2>3, <2>6
    <2>8. rec[m] = q \/ (rec[m] = Append(q, e) /\ Tail_(q) + e.size <= BankSize)
      <3>1. rec[m] = IF ~ Valid(log[m]) \/ Tail_(q) + log[m].size > BankSize THEN q ELSE Append(q, e)
        BY <2>2, <2>5, <2>6
      <3>2. q \in Seq(Entry)
        BY <2>4, <2>6
      <3>3. Tail_(q) \in Nat
        BY <3>2, SizesFacts
      <3>4. log[m] \in Entry
        BY <1>0, <2>3
      <3>5. log[m].size \in Nat /\ e.size = log[m].size
        BY <2>6, <3>4, EntryFacts DEF Entry
      <3>6. Tail_(q) + log[m].size \in Int /\ BankSize \in Int
        BY <3>3, <3>5, StoreAssumption
      <3> QED BY <3>1, <3>5, <3>6
    <2>9. Sound(rec[m])
      <3>1. q \in Seq(Entry) /\ (Bank[new].Log = <<>> => Fits(q))
        BY <2>4, <2>6
      <3>2. Append(q, e) \in Seq(Entry)
        BY <3>1, <2>7
      <3>3. Valid(e)
        <4>1. log[m] \in Entry
          BY <1>0, <2>3
        <4> QED BY <2>6, <4>1 DEF Valid, Entry
      <3>4. Fits(q) /\ Tail_(q) + e.size <= BankSize => Fits(Append(q, e))
        BY <2>7, <3>1, <3>3, FitsAppend
      <3> QED BY <2>8, <3>1, <3>2, <3>4
    <2> QED BY <2>9, <2>1
  <1>7. Sound(Moved(old, new))
    BY <1>4, <1>6, <1>0
  <1> QED BY <1>7

-----------------------------------------------------------------------------
(* Steps and their order *)

LEMMA FrameFacts ==
    ASSUME NEW f \in Frame
    PROVE  /\ f[1] \in OnBank \cup {"BankState", "Append", "Mark"} => f[2] \in BankNo
           /\ f[1] = "BankState" => f[3] \in BankState
           /\ f[1] = "Append" => f[3] \in Entry
           /\ f[1] = "Mark" => f[3] \in Nat /\ f[4] \in {"trans", "dead"}
           /\ f[1] \in {"GetTBank", "Repair", "Room", "Replace", "Check"} => f[2] \in Store
           /\ f[1] = "Room" => f[3] \in Nat
           /\ f[1] = "Replace" => f[3] \in BOOLEAN
           /\ f[1] = "Check" => f[3] \in Nat \ {0} /\ f[4] \in Nat \ {0}
  <1>1. CASE f \in OnBank \X BankNo
    BY <1>1 DEF OnBank
  <1>2. CASE f \in {"BankState"} \X BankNo \X BankState
    BY <1>2 DEF OnBank
  <1>3. CASE f \in {"Append"} \X BankNo \X Entry
    BY <1>3 DEF OnBank
  <1>4. CASE f \in {"Mark"} \X BankNo \X Nat \X {"trans", "dead"}
    BY <1>4 DEF OnBank
  <1>5. CASE f \in {"GetTBank", "Repair"} \X Store
    BY <1>5 DEF OnBank
  <1>6. CASE f \in {"Room"} \X Store \X Nat
    BY <1>6 DEF OnBank
  <1>7. CASE f \in {"Replace"} \X Store \X BOOLEAN
    BY <1>7 DEF OnBank
  <1>8. CASE f \in {"Check"} \X Store \X (Nat \ {0}) \X (Nat \ {0})
    BY <1>8 DEF OnBank
  <1>9. CASE f = <<"Delete">>
    BY <1>9 DEF OnBank
  <1>10. CASE f \in {"Return"} \X {"success", "error"}
    BY <1>10 DEF OnBank
  <1> QED BY <1>1, <1>2, <1>3, <1>4, <1>5, <1>6, <1>7, <1>8, <1>9, <1>10 DEF Frame

LEMMA BankFrame ==
    ASSUME NEW op \in OnBank, NEW b \in BankNo
    PROVE  <<op, b>> \in Frame /\ <<op, b>>[1] = op /\ <<op, b>>[2] = b
  BY DEF Frame

LEMMA StateFrame ==
    ASSUME NEW b \in BankNo, NEW st \in BankState
    PROVE  <<"BankState", b, st>> \in Frame
  BY DEF Frame

LEMMA AppendFrame ==
    ASSUME NEW b \in BankNo, NEW e \in Entry
    PROVE  <<"Append", b, e>> \in Frame
  BY DEF Frame

LEMMA MarkFrame ==
    ASSUME NEW b \in BankNo, NEW i \in Nat, NEW st \in {"trans", "dead"}
    PROVE  <<"Mark", b, i, st>> \in Frame
  BY DEF Frame

LEMMA StoreFrame ==
    ASSUME NEW s \in Store
    PROVE  <<"GetTBank", s>> \in Frame /\ <<"Repair", s>> \in Frame
  BY DEF Frame

LEMMA RoomFrame ==
    ASSUME NEW s \in Store, NEW n \in Nat
    PROVE  <<"Room", s, n>> \in Frame
  BY DEF Frame

LEMMA ReplaceFrame ==
    ASSUME NEW s \in Store, NEW rt \in BOOLEAN
    PROVE  <<"Replace", s, rt>> \in Frame
  BY DEF Frame

LEMMA CheckFrame ==
    ASSUME NEW s \in Store, NEW k \in Nat \ {0}, NEW i \in Nat \ {0}
    PROVE  <<"Check", s, k, i>> \in Frame
  BY DEF Frame

LEMMA OtherFrames ==
    <<"Delete">> \in Frame /\ <<"Return", "success">> \in Frame /\ <<"Return", "error">> \in Frame
  BY DEF Frame

LEMMA TailFacts ==
    ASSUME NEW t \in Seq(Frame), t # <<>>
    PROVE  /\ Head(t) \in Frame /\ Head(t) = t[1] /\ 1 \in DOMAIN t
           /\ Tail(t) \in Seq(Frame)
           /\ \A f : In(f, Tail(t)) => In(f, t) /\ f \in Frame
           /\ \A f : In(f, t) => f = Head(t) \/ In(f, Tail(t))
           /\ InOrder(t) => InOrder(Tail(t)) /\ \A f : In(f, Tail(t)) => Before(Head(t), f)
  <1>1. /\ Len(t) \in Nat \ {0} /\ DOMAIN t = 1 .. Len(t) /\ Head(t) = t[1]
        /\ Tail(t) \in Seq(Frame) /\ Len(Tail(t)) = Len(t) - 1 /\ DOMAIN Tail(t) = 1 .. Len(t) - 1
        /\ \A i \in 1 .. Len(t) - 1 : Tail(t)[i] = t[i + 1]
    OBVIOUS
  <1>2. 1 \in DOMAIN t /\ Head(t) \in Frame
    BY <1>1
  <1>3. \A i \in DOMAIN Tail(t) : i + 1 \in DOMAIN t /\ 1 < i + 1 /\ Tail(t)[i] = t[i + 1]
    BY <1>1
  <1>4. \A j \in DOMAIN t : j = 1 \/ (j - 1 \in DOMAIN Tail(t) /\ Tail(t)[j - 1] = t[j])
    BY <1>1
  <1>5. \A f : In(f, Tail(t)) => In(f, t) /\ f \in Frame
    BY <1>1, <1>3 DEF In
  <1>6. \A f : In(f, t) => f = Head(t) \/ In(f, Tail(t))
    <2> SUFFICES ASSUME NEW f, In(f, t) PROVE f = Head(t) \/ In(f, Tail(t))
      OBVIOUS
    <2>1. PICK j \in DOMAIN t : t[j] = f
      BY DEF In
    <2>2. CASE j = 1
      BY <2>1, <2>2, <1>1
    <2>3. CASE j # 1
      <3>1. j - 1 \in DOMAIN Tail(t) /\ Tail(t)[j - 1] = f
        BY <2>1, <2>3, <1>4
      <3> QED BY <3>1 DEF In
    <2> QED BY <2>2, <2>3
  <1>7. ASSUME InOrder(t)
        PROVE  InOrder(Tail(t)) /\ \A f : In(f, Tail(t)) => Before(Head(t), f)
    <2>1. ASSUME NEW i \in DOMAIN Tail(t), NEW j \in DOMAIN Tail(t), i < j
          PROVE  Before(Tail(t)[i], Tail(t)[j])
      <3>1. i + 1 < j + 1
        BY <2>1, <1>1
      <3> QED BY <3>1, <1>3, <1>7 DEF InOrder
    <2>2. ASSUME NEW f, In(f, Tail(t))
          PROVE  Before(Head(t), f)
      <3>1. PICK i \in DOMAIN Tail(t) : Tail(t)[i] = f
        BY <2>2 DEF In
      <3>2. Before(t[1], t[i + 1])
        BY <1>3, <1>2, <1>7 DEF InOrder
      <3> QED BY <3>1, <3>2, <1>1, <1>3
    <2> QED BY <2>1, <2>2 DEF InOrder
  <1> QED BY <1>1, <1>2, <1>5, <1>6, <1>7

LEMMA CatFacts ==
    ASSUME NEW a \in Seq(Frame), NEW t \in Seq(Frame)
    PROVE  /\ a \o t \in Seq(Frame)
           /\ \A f : In(f, a \o t) <=> In(f, a) \/ In(f, t)
           /\ InOrder(a) /\ InOrder(t) /\ (\A f, g : In(f, a) /\ In(g, t) => Before(f, g)) =>
                 InOrder(a \o t)
  <1> DEFINE c == a \o t
             m == Len(a)
  <1>1. /\ c \in Seq(Frame) /\ m \in Nat /\ Len(t) \in Nat /\ DOMAIN c = 1 .. m + Len(t)
        /\ DOMAIN a = 1 .. m /\ DOMAIN t = 1 .. Len(t)
        /\ \A i \in 1 .. m : c[i] = a[i]
        /\ \A i \in m + 1 .. m + Len(t) : c[i] = t[i - m]
    OBVIOUS
  <1> HIDE DEF c, m
  <1>2. \A i \in DOMAIN c : (i \in DOMAIN a /\ c[i] = a[i]) \/ (i - m \in DOMAIN t /\ c[i] = t[i - m])
    BY <1>1
  <1>3. \A i \in DOMAIN a : i \in DOMAIN c /\ c[i] = a[i]
    BY <1>1
  <1>4. \A i \in DOMAIN t : i + m \in DOMAIN c /\ c[i + m] = t[i]
    <2> TAKE i \in DOMAIN t
    <2>1. i + m \in m + 1 .. m + Len(t) /\ i + m - m = i /\ i + m \in DOMAIN c
      BY <1>1
    <2> QED BY <2>1, <1>1
  <1>5. \A f : In(f, c) <=> In(f, a) \/ In(f, t)
    BY <1>2, <1>3, <1>4 DEF In
  <1>6. ASSUME InOrder(a), InOrder(t), \A f, g : In(f, a) /\ In(g, t) => Before(f, g),
               NEW i \in DOMAIN c, NEW j \in DOMAIN c, i < j
        PROVE  Before(c[i], c[j])
    <2>1. CASE j \in DOMAIN a
      <3>1. i \in DOMAIN a
        BY <2>1, <1>1, <1>6
      <3> QED BY <3>1, <2>1, <1>3, <1>6 DEF InOrder
    <2>2. CASE i \in DOMAIN a /\ j \notin DOMAIN a
      <3>1. c[i] = a[i] /\ j - m \in DOMAIN t /\ c[j] = t[j - m]
        BY <2>2, <1>2, <1>3
      <3> QED BY <3>1, <2>2, <1>6 DEF In
    <2>3. CASE i \notin DOMAIN a
      <3>1. j \notin DOMAIN a
        BY <2>3, <1>1, <1>6
      <3>2. i - m \in DOMAIN t /\ c[i] = t[i - m] /\ j - m \in DOMAIN t /\ c[j] = t[j - m]
        BY <2>3, <3>1, <1>2
      <3>3. i - m < j - m
        BY <1>1, <1>6
      <3> QED BY <3>2, <3>3, <1>6 DEF InOrder
    <2> QED BY <2>1, <2>2, <2>3
  <1> QED BY <1>1, <1>5, <1>6 DEF c, InOrder

LEMMA EmptyFacts == <<>> \in Seq(Frame) /\ InOrder(<<>>) /\ \A f : ~ In(f, <<>>)
  BY DEF InOrder, In

LEMMA OneFacts ==
    ASSUME NEW f \in Frame
    PROVE  <<f>> \in Seq(Frame) /\ InOrder(<<f>>) /\ \A g : In(g, <<f>>) <=> g = f
  <1>1. <<f>> \in Seq(Frame) /\ DOMAIN <<f>> = 1 .. 1 /\ <<f>>[1] = f
    OBVIOUS
  <1>2. \A i \in 1 .. 1 : i = 1
    OBVIOUS
  <1> QED BY <1>1, <1>2 DEF InOrder, In

LEMMA TwoFacts ==
    ASSUME NEW f \in Frame, NEW g \in Frame
    PROVE  /\ <<f, g>> \in Seq(Frame) /\ \A h : In(h, <<f, g>>) <=> h = f \/ h = g
           /\ Before(f, g) => InOrder(<<f, g>>)
  <1>1. <<f, g>> \in Seq(Frame) /\ DOMAIN <<f, g>> = 1 .. 2 /\ <<f, g>>[1] = f /\ <<f, g>>[2] = g
    OBVIOUS
  <1>2. \A i \in 1 .. 2 : i = 1 \/ i = 2
    OBVIOUS
  <1>3. \A h : In(h, <<f, g>>) <=> h = f \/ h = g
    BY <1>1, <1>2 DEF In
  <1>4. ASSUME Before(f, g), NEW i \in 1 .. 2, NEW j \in 1 .. 2, i < j
        PROVE  Before(<<f, g>>[i], <<f, g>>[j])
    <2>1. i = 1 /\ j = 2
      BY <1>4
    <2> QED BY <2>1, <1>1, <1>4
  <1> QED BY <1>1, <1>3, <1>4 DEF InOrder

LEMMA PairCat ==
    ASSUME NEW f, NEW g
    PROVE  <<f>> \o <<g>> = <<f, g>>
  <1>1. <<f>> \in Seq({f, g}) /\ <<g>> \in Seq({f, g}) /\ <<f, g>> \in Seq({f, g})
    OBVIOUS
  <1>2. Len(<<f>> \o <<g>>) = 2 /\ (<<f>> \o <<g>>)[1] = f /\ (<<f>> \o <<g>>)[2] = g
    BY <1>1
  <1>3. <<f>> \o <<g>> \in Seq({f, g})
    BY <1>1
  <1>4. PICK c : c = <<f>> \o <<g>>
    OBVIOUS
  <1>5. c \in Seq({f, g}) /\ Len(c) = 2 /\ c[1] = f /\ c[2] = g
    BY <1>2, <1>3, <1>4
  <1>6. c = <<f, g>>
    BY <1>5, <1>1, SeqEqual
  <1> QED BY <1>4, <1>6

\* The steps that work on a bank; the others only decide what comes next.
Working == OnBank \cup {"BankState", "Append", "Mark"}

LEMMA OnlyDecisions ==
    ASSUME NEW f, NEW g, Before(f, g),
           f[1] \notin {"AddBank", "Scan", "BankState", "Data", "Append", "Mark", "ResetSequence"} \cup Clearing
    PROVE  g[1] \notin Working
  BY DEF Before, Working, OnBank, Clearing, Changing, Updating

LEMMA PendingFacts ==
    /\ \A op, b : Pending(op, b) <=> \E f : In(f, todo) /\ f[1] = op /\ f[2] = b
    /\ Steps <=> InOrder(todo) /\ \A f : In(f, todo) => StepOK(f)
  BY DEF Pending, Steps, In

LEMMA PendingFactsPrime ==
    /\ \A op, b : Pending(op, b)' <=> \E f : In(f, todo') /\ f[1] = op /\ f[2] = b
    /\ Steps' <=> InOrder(todo') /\ \A f : In(f, todo') => StepOK(f)'
  BY DEF Pending, Steps, In

\* The step that is due, and those behind it.
LEMMA Top ==
    ASSUME IInv, NEW op, Doing(op)
    PROVE  /\ todo \in Seq(Frame) /\ todo # <<>> /\ Tail(todo) \in Seq(Frame) /\ InOrder(Tail(todo))
           /\ In(Head(todo), todo) /\ Head(todo) \in Frame /\ Head(todo)[1] = op /\ StepOK(Head(todo))
           /\ \A f : In(f, Tail(todo)) =>
                 f \in Frame /\ StepOK(f) /\ Before(Head(todo), f) /\ In(f, todo)
           /\ \A f : In(f, todo) => f = Head(todo) \/ In(f, Tail(todo))
  <1>1. todo \in Seq(Frame) /\ InOrder(todo) /\ todo # <<>> /\ Head(todo)[1] = op
    BY DEF IInv, Types, Steps, Doing
  <1>2. \A f : In(f, todo) => StepOK(f)
    BY PendingFacts DEF IInv
  <1>3. /\ Head(todo) \in Frame /\ Head(todo) = todo[1] /\ 1 \in DOMAIN todo /\ Tail(todo) \in Seq(Frame)
        /\ \A f : In(f, Tail(todo)) => In(f, todo) /\ f \in Frame
        /\ \A f : In(f, todo) => f = Head(todo) \/ In(f, Tail(todo))
        /\ InOrder(Tail(todo)) /\ \A f : In(f, Tail(todo)) => Before(Head(todo), f)
    BY <1>1, TailFacts
  <1>4. In(Head(todo), todo)
    BY <1>3 DEF In
  <1> QED BY <1>1, <1>2, <1>3, <1>4

\* Then puts its steps before the others.
LEMMA ThenFacts ==
    ASSUME IInv, NEW op, Doing(op), NEW steps \in Seq(Frame), InOrder(steps), Then(steps),
           \A f, g : In(f, steps) /\ In(g, Tail(todo)) => Before(f, g)
    PROVE  /\ todo' \in Seq(Frame) /\ InOrder(todo')
           /\ \A f : In(f, todo') <=> In(f, steps) \/ In(f, Tail(todo))
  <1>1. Tail(todo) \in Seq(Frame) /\ InOrder(Tail(todo))
    BY Top
  <1>2. PICK t : t = Tail(todo)
    OBVIOUS
  <1>3. todo' = steps \o t
    BY <1>2 DEF Then
  <1>4. /\ steps \o t \in Seq(Frame) /\ InOrder(steps \o t)
        /\ \A f : In(f, steps \o t) <=> In(f, steps) \/ In(f, t)
    BY <1>1, <1>2, CatFacts
  <1> QED BY <1>2, <1>3, <1>4

LEMMA ThenNothing ==
    ASSUME IInv, NEW op, Doing(op), Then(<<>>)
    PROVE  /\ todo' \in Seq(Frame) /\ InOrder(todo')
           /\ \A f : In(f, todo') <=> In(f, Tail(todo))
  BY ThenFacts, EmptyFacts

LEMMA ThenOne ==
    ASSUME IInv, NEW op, Doing(op), NEW f \in Frame, Then(<<f>>),
           \A g : In(g, Tail(todo)) => Before(f, g)
    PROVE  /\ todo' \in Seq(Frame) /\ InOrder(todo')
           /\ \A g : In(g, todo') <=> g = f \/ In(g, Tail(todo))
  <1>1. PICK s : s = <<f>>
    OBVIOUS
  <1>2. s \in Seq(Frame) /\ InOrder(s) /\ \A g : In(g, s) <=> g = f
    BY <1>1, OneFacts
  <1>3. Then(s)
    BY <1>1
  <1> QED BY <1>2, <1>3, ThenFacts

\* A bank that a step leaves alone stays in step with the device.
LEMMA SyncKept ==
    ASSUME NEW c, HeaderOK(c), LogOK(c), nv'[c] = nv[c], Bank'[c] = Bank[c],
           \A op \in {"AddBank", "Scan", "Data", "NewHeader"} : Pending(op, c) => Pending(op, c)',
           Used(c)' => Used(c)
    PROVE  HeaderOK(c)' /\ LogOK(c)'
  <1>1. Kept(c)' => Kept(c)
    BY DEF Kept
  <1>2. HeaderOK(c)'
    BY <1>1 DEF HeaderOK
  <1>3. LogOK(c)'
    BY <1>1 DEF LogOK
  <1> QED BY <1>2, <1>3

LEMMA StoreFacts ==
    /\ BankNo = 1 .. Len(StoreOf) /\ Len(StoreOf) \in Nat
    /\ \A b \in BankNo : StoreOf[b] \in Store /\ b # NoBank /\ b \in Nat
  <1>1. StoreOf \in Seq(Store)
    BY StoreAssumption
  <1>2. BankNo = 1 .. Len(StoreOf) /\ Len(StoreOf) \in Nat
    BY <1>1 DEF BankNo
  <1>3. \A b \in BankNo : StoreOf[b] \in Store
    BY <1>1 DEF BankNo
  <1>4. \A b \in BankNo : b # NoBank /\ b \in Nat
    BY <1>2 DEF NoBank
  <1> QED BY <1>2, <1>3, <1>4

LEMMA HeaderFacts ==
    /\ NoHeader \in Header /\ Blank \in Image /\ Blank.Header = NoHeader /\ Blank.Log = <<>>
    /\ \A img \in Image : img.Header \in Header /\ img.Log \in Seq(Entry)
  <1>1. NoHeader \in Header
    BY StoreAssumption DEF NoHeader, Header
  <1>2. Blank.Header = NoHeader /\ Blank.Log = <<>>
    BY DEF Blank
  <1>3. Blank \in Image
    BY <1>1 DEF Blank, Image
  <1> QED BY <1>1, <1>2, <1>3 DEF Image

LEMMA ImageFacts ==
    ASSUME NEW img \in Image
    PROVE  /\ \A h \in Header : LET new == [img EXCEPT !.Header = h]
                                IN  new \in Image /\ new.Header = h /\ new.Log = img.Log
           /\ \A log \in Seq(Entry) : LET new == [img EXCEPT !.Log = log]
                                      IN  new \in Image /\ new.Header = img.Header /\ new.Log = log
  BY DEF Image

\* The copies of a bank in memory.
RecordOf(h, log, n, e) == [Header |-> h, Log |-> log, InUse |-> n, Gap |-> 0, DeviceError |-> e]

LEMMA RecordOfFacts ==
    ASSUME NEW h \in Header, NEW log \in Seq(Entry), NEW n, NEW e \in BOOLEAN
    PROVE  /\ IsRecord(RecordOf(h, log, n, e)) /\ RecordOf(h, log, n, e).Header = h
           /\ RecordOf(h, log, n, e).Log = log /\ RecordOf(h, log, n, e).DeviceError = e
           /\ RecordOf(h, log, n, e).InUse = n /\ RecordOf(h, log, n, e).Gap = 0
  BY DEF IsRecord, RecordOf

LEMMA RecordFacts ==
    ASSUME NEW r, IsRecord(r)
    PROVE  /\ r.Header \in Header /\ r.Log \in Seq(Entry) /\ r.DeviceError \in BOOLEAN /\ r.Gap = 0
           /\ r = RecordOf(r.Header, r.Log, r.InUse, r.DeviceError)
  BY DEF IsRecord, RecordOf

LEMMA HeaderRecord ==
    ASSUME NEW r, IsRecord(r), NEW h \in Header
    PROVE  LET new == [r EXCEPT !.Header = h]
           IN  /\ IsRecord(new) /\ new.Header = h /\ new.Log = r.Log /\ new.DeviceError = r.DeviceError
               /\ new.InUse = r.InUse
  <1>1. PICK H, L, U, E : H = r.Header /\ L = r.Log /\ U = r.InUse /\ E = r.DeviceError
    OBVIOUS
  <1>0. r = RecordOf(H, L, U, E)
    BY <1>1, RecordFacts
  <1>2. [r EXCEPT !.Header = h] = RecordOf(h, L, U, E)
    BY <1>0 DEF RecordOf
  <1>3. L \in Seq(Entry) /\ E \in BOOLEAN
    BY <1>1, RecordFacts
  <1> QED BY <1>1, <1>2, <1>3, RecordOfFacts

WithLog(r, log, n) == [r EXCEPT !.Log = log, !.InUse = n]

LEMMA LogRecord ==
    ASSUME NEW r, IsRecord(r), NEW log \in Seq(Entry), NEW n
    PROVE  /\ IsRecord(WithLog(r, log, n)) /\ WithLog(r, log, n).Header = r.Header
           /\ WithLog(r, log, n).Log = log /\ WithLog(r, log, n).DeviceError = r.DeviceError
           /\ WithLog(r, log, n).InUse = n
  <1>1. PICK H, L, U, E : H = r.Header /\ L = r.Log /\ U = r.InUse /\ E = r.DeviceError
    OBVIOUS
  <1>0. r = RecordOf(H, L, U, E)
    BY <1>1, RecordFacts
  <1>2. WithLog(r, log, n) = RecordOf(H, log, n, E)
    <2>1. PICK q : q = RecordOf(H, log, U, E)
      OBVIOUS
    <2>2. [r EXCEPT !.Log = log] = q
      BY <1>0, <2>1 DEF RecordOf
    <2>3. [q EXCEPT !.InUse = n] = RecordOf(H, log, n, E)
      BY <2>1 DEF RecordOf
    <2>4. WithLog(r, log, n) = [[r EXCEPT !.Log = log] EXCEPT !.InUse = n]
      BY DEF WithLog
    <2> QED BY <2>2, <2>3, <2>4
  <1>3. H \in Header /\ E \in BOOLEAN
    BY <1>1, RecordFacts
  <1> QED BY <1>1, <1>2, <1>3, RecordOfFacts

LEMMA ErrorRecord ==
    ASSUME NEW r, IsRecord(r)
    PROVE  LET new == [r EXCEPT !.DeviceError = TRUE]
           IN  /\ IsRecord(new) /\ new.Header = r.Header /\ new.Log = r.Log /\ new.DeviceError = TRUE
               /\ new.InUse = r.InUse
  <1>1. PICK H, L, U, E : H = r.Header /\ L = r.Log /\ U = r.InUse /\ E = r.DeviceError
    OBVIOUS
  <1>0. r = RecordOf(H, L, U, E)
    BY <1>1, RecordFacts
  <1>2. PICK x \in BOOLEAN : x = TRUE
    OBVIOUS
  <1>3. [r EXCEPT !.DeviceError = x] = RecordOf(H, L, U, x)
    BY <1>0 DEF RecordOf
  <1>4. H \in Header /\ L \in Seq(Entry)
    BY <1>1, RecordFacts
  <1>5. PICK q : q = [r EXCEPT !.DeviceError = x]
    OBVIOUS
  <1>6. IsRecord(q) /\ q.Header = r.Header /\ q.Log = r.Log /\ q.DeviceError = x /\ q.InUse = r.InUse
    BY <1>1, <1>3, <1>4, <1>5, RecordOfFacts
  <1>7. q = [r EXCEPT !.DeviceError = TRUE]
    BY <1>2, <1>5, Zenon
  <1> QED BY <1>2, <1>6, <1>7, Zenon

LEMMA NewRecordFacts ==
    ASSUME NEW img \in Image
    PROVE  /\ IsRecord(NewBankRecord(img)) /\ NewBankRecord(img).Header = img.Header
           /\ NewBankRecord(img).Log = <<>> /\ NewBankRecord(img).DeviceError = FALSE
           /\ NewBankRecord(img).InUse = FIRST_VARIABLE_OFFSET
  <1>1. img.Header \in Header /\ <<>> \in Seq(Entry)
    BY HeaderFacts
  <1> QED BY <1>1 DEF NewBankRecord, IsRecord

LEMMA TypeFacts ==
    ASSUME Types, NEW b \in BankNo
    PROVE  /\ nv[b] \in Image /\ nv[b].Header \in Header /\ nv[b].Log \in Seq(Entry)
           /\ IsRecord(Bank[b]) /\ Bank[b].Header \in Header /\ Bank[b].Log \in Seq(Entry)
           /\ Bank[b].DeviceError \in BOOLEAN /\ Bank[b].Gap = 0
           /\ StoreOf[b] \in Store /\ Active[StoreOf[b]] \in Seq(BankNo)
  BY HeaderFacts, RecordFacts, StoreFacts DEF Types

\* A write changes one bank, and if the bank keeps working the device has it.
LEMMA WriteFacts ==
    ASSUME Types, NEW b \in BankNo, NEW r, IsRecord(r), NEW img \in Image, Write(b, r, img)
    PROVE  /\ nv' \in [BankNo -> Image] /\ DOMAIN Bank' = BankNo /\ \A c \in BankNo : IsRecord(Bank'[c])
           /\ \A c \in BankNo : c # b => nv'[c] = nv[c] /\ Bank'[c] = Bank[c]
           /\ Bank'[b].Header = r.Header /\ Bank'[b].Log = r.Log /\ Bank'[b].InUse = r.InUse
           /\ nv'[b] = nv[b] \/ (nv'[b] = img /\ StoreOf[b] \in NonVolatile /\ ~ r.DeviceError)
           /\ Kept(b)' => nv'[b] = img /\ ~ r.DeviceError
  <1>0. nv \in [BankNo -> Image] /\ DOMAIN Bank = BankNo /\ \A c \in BankNo : IsRecord(Bank[c])
    BY DEF Types
  <1>1. CASE /\ Bank' = [Bank EXCEPT ![b] = r]
             /\ nv' = IF r.DeviceError \/ StoreOf[b] \notin NonVolatile THEN nv
                      ELSE [nv EXCEPT ![b] = img]
    <2>1. Bank'[b] = r /\ DOMAIN Bank' = BankNo /\ \A c \in BankNo : c # b => Bank'[c] = Bank[c]
      BY <1>0, <1>1
    <2>2. CASE r.DeviceError \/ StoreOf[b] \notin NonVolatile
      <3>1. nv' = nv
        BY <1>1, <2>2
      <3>2. ~ Kept(b)'
        BY <2>1, <2>2 DEF Kept
      <3> QED BY <1>0, <2>1, <3>1, <3>2
    <2>3. CASE ~ (r.DeviceError \/ StoreOf[b] \notin NonVolatile)
      <3>1. nv' = [nv EXCEPT ![b] = img]
        BY <1>1, <2>3
      <3>2. nv' \in [BankNo -> Image] /\ nv'[b] = img /\ \A c \in BankNo : c # b => nv'[c] = nv[c]
        BY <3>1, <1>0
      <3> QED BY <1>0, <2>1, <2>3, <3>2
    <2> QED BY <2>2, <2>3
  <1>2. CASE Bank' = [Bank EXCEPT ![b] = [r EXCEPT !.DeviceError = TRUE]] /\ nv' = nv
    <2>1. PICK q : q = [r EXCEPT !.DeviceError = TRUE]
      OBVIOUS
    <2>2. IsRecord(q) /\ q.Header = r.Header /\ q.Log = r.Log /\ q.DeviceError = TRUE /\ q.InUse = r.InUse
      BY <2>1, ErrorRecord, Zenon
    <2>3. Bank' = [Bank EXCEPT ![b] = q]
      BY <1>2, <2>1, Zenon
    <2>4. Bank'[b] = q /\ DOMAIN Bank' = BankNo /\ \A c \in BankNo : c # b => Bank'[c] = Bank[c]
      BY <1>0, <2>3
    <2>5. ~ Kept(b)'
      BY <2>2, <2>4 DEF Kept
    <2> QED BY <1>0, <1>2, <2>2, <2>4, <2>5
  <1> QED BY <1>1, <1>2 DEF Write

Clears == \A b \in BankNo : OnlyClears(nv[b], nv'[b])

\* Writing the same entries again, and more of them, clears bits only.
LEMMA ClearsLog ==
    ASSUME NEW old \in Image, NEW new \in Image, new.Header = old.Header,
           Len(old.Log) <= Len(new.Log),
           \A i \in DOMAIN old.Log : \/ new.Log[i] = Dead(old.Log[i].size)
                                     \/ new.Log[i] = old.Log[i]
                                     \/ new.Log[i] = Marked(old.Log[i], "trans")
    PROVE  OnlyClears(old, new)
  BY DEF OnlyClears

LEMMA ClearsHeader ==
    ASSUME NEW old \in Image, NEW new \in Image, new.Log = old.Log,
           old.Header.Signature = new.Header.Signature, old.Header.State \subseteq new.Header.State,
           new.Header.Sequence \in {0, old.Header.Sequence}
    PROVE  OnlyClears(old, new)
  <1>1. old.Log \in Seq(Entry)
    BY HeaderFacts
  <1>2. Len(old.Log) <= Len(new.Log)
    BY <1>1
  <1> QED BY <1>2 DEF OnlyClears

LEMMA ClearsSame ==
    ASSUME NEW old \in Image
    PROVE  OnlyClears(old, old)
  BY ClearsHeader

LEMMA ClearsBlank ==
    ASSUME NEW old, old.Header = NoHeader, old.Log = <<>>, NEW new \in Image
    PROVE  OnlyClears(old, new)
  <1>1. Len(new.Log) \in Nat
    BY HeaderFacts
  <1>2. Len(old.Log) = 0 /\ DOMAIN old.Log = {}
    OBVIOUS
  <1>3. Len(old.Log) <= Len(new.Log)
    BY <1>1, <1>2
  <1> QED BY <1>2, <1>3 DEF OnlyClears

\* Only the bank that is written to has to be looked at.
LEMMA ClearsOne ==
    ASSUME Types, NEW b \in BankNo, \A c \in BankNo : c # b => nv'[c] = nv[c],
           nv'[b] = nv[b] \/ OnlyClears(nv[b], nv'[b])
    PROVE  Clears
  <1> SUFFICES ASSUME NEW c \in BankNo PROVE OnlyClears(nv[c], nv'[c])
    BY DEF Clears
  <1>1. nv[c] \in Image
    BY TypeFacts
  <1>2. CASE nv'[c] = nv[c]
    BY <1>1, <1>2, ClearsSame
  <1> QED BY <1>2

LEMMA ClearsNone ==
    ASSUME Types, nv' = nv
    PROVE  Clears
  <1> SUFFICES ASSUME NEW c \in BankNo PROVE OnlyClears(nv[c], nv'[c])
    BY DEF Clears
  <1>1. nv[c] \in Image
    BY TypeFacts
  <1> QED BY <1>1, ClearsSame

-----------------------------------------------------------------------------
(* Steps that decide what comes next *)

ListedBanks == {b \in BankNo : Listed(b)}

LEMMA ActiveListed ==
    ASSUME Types, Lists, NEW s \in Store
    PROVE  Active[s] \in Seq(ListedBanks) /\ \A k \in DOMAIN Active[s] : Active[s][k] \in ListedBanks
  <1>1. Active[s] \in Seq(BankNo)
    BY DEF Types
  <1>2. \A k \in DOMAIN Active[s] : Active[s][k] \in BankNo /\ StoreOf[Active[s][k]] = s
    BY <1>1 DEF Lists
  <1>3. \A k \in DOMAIN Active[s] : Active[s][k] \in ListedBanks
    BY <1>2 DEF ListedBanks, Listed
  <1> PICK q : q = Active[s]
    OBVIOUS
  <1>4. q \in Seq(BankNo) /\ \A k \in DOMAIN q : q[k] \in ListedBanks
    BY <1>1, <1>3
  <1>5. q \in Seq(ListedBanks)
    BY <1>4
  <1> QED BY <1>5, <1>3

LEMMA FirstBankFacts ==
    ASSUME Types, Lists, NEW s \in Store, NEW banks, FirstBank(s, banks) # NoBank
    PROVE  FirstBank(s, banks) \in BankNo /\ Listed(FirstBank(s, banks)) /\ FirstBank(s, banks) \in banks
  <1> DEFINE good == {k \in DOMAIN Active[s] : Active[s][k] \in banks}
  <1>1. good # {} /\ FirstBank(s, banks) = Active[s][Min(good)]
    BY DEF FirstBank
  <1>2. Active[s] \in Seq(BankNo)
    BY DEF Types
  <1>3. DOMAIN Active[s] \subseteq Nat
    BY <1>2
  <1>4. good \in SUBSET Nat
    BY <1>3
  <1>5. Min(good) \in good
    BY <1>1, <1>4, MinFacts
  <1>6. Active[s][Min(good)] \in ListedBanks
    BY <1>5, ActiveListed
  <1> QED BY <1>1, <1>5, <1>6 DEF ListedBanks

LEMMA FreeBankFacts ==
    ASSUME Types, Lists, NEW s \in Store, NEW size, FreeBank(s, size) # NoBank
    PROVE  /\ FreeBank(s, size) \in BankNo /\ Listed(FreeBank(s, size))
           /\ DataTail(FreeBank(s, size)) + size < BankSize
  BY FirstBankFacts DEF FreeBank

LEMMA CollectableFacts ==
    ASSUME Types, Lists, NEW s \in Store, Collectable(s) # NoBank
    PROVE  Collectable(s) \in BankNo /\ Listed(Collectable(s))
  BY FirstBankFacts DEF Collectable

LEMMA VisibleFacts ==
    ASSUME Types, Lists
    PROVE  VisibleBanks \in Seq(ListedBanks)
  <1> DEFINE Of(s) == IF EfiAtRuntime /\ s \notin RuntimeStore THEN <<>> ELSE Active[s]
  <1>1. \A s \in Store : Of(s) \in Seq(ListedBanks)
    BY ActiveListed
  <1>2. VisibleBanks = Of("BS") \o Of("NV+BS") \o Of("BS+RT") \o Of("NV+BS+RT")
    <2>1. VisibleBanks = VariableStore([s \in Store |-> Of(s)])
      BY DEF VisibleBanks
    <2> HIDE DEF Of
    <2>2. /\ "BS" \in Store /\ "NV+BS" \in Store /\ "BS+RT" \in Store /\ "NV+BS+RT" \in Store
      BY DEF Store
    <2> QED BY <2>1, <2>2, Zenon DEF VariableStore
  <1>3. \A s \in {"BS", "NV+BS", "BS+RT", "NV+BS+RT"} : Of(s) \in Seq(ListedBanks)
    BY <1>1 DEF Store
  <1> HIDE DEF Of
  <1>4. /\ Of("BS") \in Seq(ListedBanks) /\ Of("NV+BS") \in Seq(ListedBanks)
        /\ Of("BS+RT") \in Seq(ListedBanks) /\ Of("NV+BS+RT") \in Seq(ListedBanks)
    BY <1>3
  <1> QED BY <1>2, <1>4

LEMMA FindFacts ==
    ASSUME Types, Lists, NEW n, RtVarFind(n) # NotFound
    PROVE  /\ RtVarFind(n).bank \in BankNo /\ Listed(RtVarFind(n).bank)
           /\ RtVarFind(n).index \in Nat /\ RtVarFind(n).index \in DOMAIN Bank[RtVarFind(n).bank].Log
           /\ EntryAt(RtVarFind(n)).state = "added"
  <1> DEFINE Hits(b) == {i \in DOMAIN Bank[b].Log :
                           /\ Bank[b].Log[i].state = "added" /\ Bank[b].Log[i].name = n
                           /\ EfiAtRuntime => Bank[b].Log[i].rt}
             hits == {k \in DOMAIN VisibleBanks : Hits(VisibleBanks[k]) # {}}
             b == VisibleBanks[Min(hits)]
  <1>1. hits # {} /\ RtVarFind(n) = [bank |-> b, index |-> Min(Hits(b))]
    BY DEF RtVarFind
  <1>2. VisibleBanks \in Seq(ListedBanks)
    BY VisibleFacts
  <1>3. DOMAIN VisibleBanks \subseteq Nat
    BY <1>2
  <1>4. hits \in SUBSET Nat
    BY <1>3
  <1>5. Min(hits) \in hits
    BY <1>1, <1>4, MinFacts
  <1>6. b \in ListedBanks /\ Hits(b) # {}
    <2>1. Min(hits) \in DOMAIN VisibleBanks /\ Hits(VisibleBanks[Min(hits)]) # {}
      BY <1>5
    <2> HIDE DEF Hits, hits
    <2> QED BY <1>2, <2>1
  <1>7. b \in BankNo /\ Listed(b)
    BY <1>6 DEF ListedBanks
  <1>8. DOMAIN Bank[b].Log \subseteq Nat
    <2> HIDE DEF b
    <2>1. Bank[b].Log \in Seq(Entry)
      BY <1>7, TypeFacts
    <2> QED BY <2>1
  <1>9. Hits(b) \in SUBSET Nat
    BY <1>8
  <1>10. Min(Hits(b)) \in Hits(b)
    BY <1>6, <1>9, MinFacts
  <1> HIDE DEF hits, b
  <1>11. Min(Hits(b)) \in DOMAIN Bank[b].Log /\ Min(Hits(b)) \in Nat /\ Bank[b].Log[Min(Hits(b))].state = "added"
    BY <1>10, <1>9
  <1> HIDE DEF Hits
  <1> QED BY <1>1, <1>7, <1>11 DEF EntryAt

\* Nothing is under way.
Idle == \A f : In(f, todo) => f[1] \notin Working

LEMMA IdleFacts ==
    ASSUME IInv, NEW op, Doing(op), op \notin Working
    PROVE  Idle /\ \A f : In(f, Tail(todo)) => f[1] \notin Working
  <1>1. /\ Head(todo)[1] = op /\ \A f : In(f, Tail(todo)) => Before(Head(todo), f)
        /\ \A f : In(f, todo) => f = Head(todo) \/ In(f, Tail(todo))
    BY Top
  <1>2. op \notin {"AddBank", "Scan", "BankState", "Data", "Append", "Mark", "ResetSequence"} \cup Clearing
    BY DEF Working, OnBank, Clearing
  <1>3. \A f : In(f, Tail(todo)) => f[1] \notin Working
    BY <1>1, <1>2, OnlyDecisions
  <1> QED BY <1>1, <1>3 DEF Idle

LEMMA DecisionKept ==
    ASSUME NEW f, StepOK(f), f[1] \notin Working, request' = request
    PROVE  StepOK(f)'
  BY DEF StepOK, Working, OnBank, Clearing

LEMMA DecisionInv ==
    ASSUME IInv, Idle, UNCHANGED <<nv, Bank, Active, TBank, Sequence>>,
           todo' \in Seq(Frame), InOrder(todo'), \A f : In(f, todo') => StepOK(f)',
           \A f : In(f, todo') => f[1] # "Activate"
    PROVE  IInv' /\ Clears
  <1>0. UNCHANGED <<nv, Bank, Active, TBank, Sequence>> /\ Types /\ Lists /\ Synced
    BY DEF IInv
  <1>1. Types'
    BY <1>0 DEF Types, IsRecord
  <1>2. Lists'
    BY <1>0 DEF Lists
  <1>3. Steps'
    BY PendingFactsPrime
  <1>4. \A op \in Working : \A b : ~ Pending(op, b)
    BY PendingFacts DEF Idle
  <1>6. Synced'
    <2> SUFFICES ASSUME NEW c \in BankNo PROVE HeaderOK(c)' /\ LogOK(c)'
      BY DEF Synced
    <2>1. HeaderOK(c) /\ LogOK(c) /\ nv'[c] = nv[c] /\ Bank'[c] = Bank[c]
      BY <1>0 DEF Synced
    <2>2. \A op \in {"AddBank", "Scan", "Data", "NewHeader"} : ~ Pending(op, c)
      BY <1>4 DEF Working, OnBank
    <2>3. ~ Pending("Activate", c)'
      BY PendingFactsPrime
    <2>4. Used(c)' => Used(c)
      BY <2>3, <1>0 DEF Used, Listed, IsTBank
    <2> QED BY <2>1, <2>2, <2>4, SyncKept
  <1>7. Clears
    BY <1>0, ClearsNone
  <1> QED BY <1>1, <1>2, <1>3, <1>6, <1>7 DEF IInv

LEMMA BeforeDecision ==
    ASSUME NEW f, NEW g, g[1] \notin Working
    PROVE  Before(f, g)
  BY DEF Before, Working, OnBank, Clearing, Updating

LEMMA StepSame ==
    ASSUME UNCHANGED <<nv, Bank, Active, TBank, request>>, NEW f, StepOK(f)
    PROVE  StepOK(f)'
  <1>1. /\ \A b : IsTBank(b)' <=> IsTBank(b)
        /\ \A b : Listed(b)' <=> Listed(b)
        /\ \A b : Kept(b)' <=> Kept(b)
    BY DEF IsTBank, Listed, Kept
  <1> QED BY <1>1 DEF StepOK

\* A decision puts steps before those that are left.
LEMMA DecisionPush ==
    ASSUME IInv, Idle, UNCHANGED <<nv, Bank, Active, TBank, Sequence, request>>,
           NEW steps \in Seq(Frame), InOrder(steps),
           \A f : In(f, steps) => StepOK(f) /\ f[1] # "Activate",
           NEW t \in Seq(Frame), InOrder(t), \A f : In(f, t) => In(f, todo),
           todo' = steps \o t
    PROVE  IInv' /\ Clears
  <1>1. \A f : In(f, t) => f[1] \notin Working /\ StepOK(f)
    BY PendingFacts DEF Idle, IInv
  <1>2. \A f, g : In(f, steps) /\ In(g, t) => Before(f, g)
    BY <1>1, BeforeDecision
  <1>3. /\ todo' \in Seq(Frame) /\ InOrder(todo')
        /\ \A f : In(f, todo') <=> In(f, steps) \/ In(f, t)
    BY <1>2, CatFacts
  <1>4. \A f : In(f, todo') => StepOK(f) /\ f[1] # "Activate"
    BY <1>1, <1>3 DEF Working, OnBank
  <1>5. \A f : In(f, todo') => StepOK(f)'
    BY <1>4, StepSame
  <1> QED BY <1>3, <1>4, <1>5, DecisionInv

LEMMA DecisionThen ==
    ASSUME IInv, NEW op, Doing(op), op \notin Working,
           UNCHANGED <<nv, Bank, Active, TBank, Sequence, request>>,
           NEW steps \in Seq(Frame), InOrder(steps),
           \A f : In(f, steps) => StepOK(f) /\ f[1] # "Activate", Then(steps)
    PROVE  IInv' /\ Clears
  <1>1. PICK t : t = Tail(todo)
    OBVIOUS
  <1>2. t \in Seq(Frame) /\ InOrder(t) /\ \A f : In(f, t) => In(f, todo)
    BY <1>1, Top
  <1>3. Idle
    BY IdleFacts
  <1>4. todo' = steps \o t
    BY <1>1 DEF Then
  <1> QED BY <1>2, <1>3, <1>4, DecisionPush

LEMMA DecisionOnly ==
    ASSUME IInv, NEW op, Doing(op), op \notin Working,
           UNCHANGED <<nv, Bank, Active, TBank, Sequence, request>>,
           NEW steps \in Seq(Frame), InOrder(steps),
           \A f : In(f, steps) => StepOK(f) /\ f[1] # "Activate", todo' = steps
    PROVE  IInv' /\ Clears
  <1>1. PICK t : t = << >>
    OBVIOUS
  <1>2. t \in Seq(Frame) /\ InOrder(t) /\ \A f : In(f, t) => In(f, todo)
    BY <1>1, EmptyFacts
  <1>3. Idle
    BY IdleFacts
  <1>4. todo' = steps \o t
    BY <1>1
  <1> QED BY <1>2, <1>3, <1>4, DecisionPush

\* The steps of an update, and what comes behind them.
Updates(t) ==
    /\ t \in Seq(Frame) /\ InOrder(t)
    /\ \A f : In(f, t) => StepOK(f) /\ (f[1] \in Updating \/ f[1] \notin Working)

OnlyUpdates(t) == Updates(t) /\ \A f : In(f, t) => f[1] \in Updating

LEMMA UpdatesFacts ==
    ASSUME NEW t, Updates(t)
    PROVE  /\ t \in Seq(Frame) /\ InOrder(t)
           /\ \A f : In(f, t) => StepOK(f) /\ f[1] # "Activate"
  BY DEF Updates, Updating, Working, OnBank

LEMMA UpdatesCat ==
    ASSUME NEW a, NEW t, OnlyUpdates(a), Updates(t)
    PROVE  Updates(a \o t) /\ (OnlyUpdates(t) => OnlyUpdates(a \o t))
  <1>1. a \in Seq(Frame) /\ t \in Seq(Frame) /\ InOrder(a) /\ InOrder(t)
    BY DEF Updates, OnlyUpdates
  <1>2. ASSUME NEW f, NEW g, In(f, a), In(g, t)
        PROVE  Before(f, g)
    <2>1. f[1] \in Updating
      BY <1>2 DEF OnlyUpdates
    <2>2. CASE g[1] \in Updating
      BY <2>1, <2>2 DEF Before, Updating, Clearing
    <2>3. CASE g[1] \notin Working
      BY <2>3, BeforeDecision
    <2> QED BY <2>2, <2>3, <1>2 DEF Updates
  <1>3. /\ a \o t \in Seq(Frame) /\ InOrder(a \o t)
        /\ \A f : In(f, a \o t) <=> In(f, a) \/ In(f, t)
    BY <1>1, <1>2, CatFacts
  <1> QED BY <1>3 DEF Updates, OnlyUpdates

LEMMA UpdatesOne ==
    ASSUME NEW f \in Frame, StepOK(f)
    PROVE  /\ f[1] \in Updating => OnlyUpdates(<<f>>) /\ Updates(<<f>>)
           /\ f[1] \notin Working => Updates(<<f>>)
  <1>1. <<f>> \in Seq(Frame) /\ InOrder(<<f>>) /\ \A g : In(g, <<f>>) <=> g = f
    BY OneFacts
  <1>2. PICK t : t = <<f>>
    OBVIOUS
  <1> QED BY <1>1, <1>2 DEF Updates, OnlyUpdates

LEMMA MarkStep ==
    ASSUME NEW b \in BankNo, NEW i \in Nat, NEW st \in {"trans", "dead"}, Listed(b), i \in DOMAIN Bank[b].Log
    PROVE  OnlyUpdates(<< <<"Mark", b, i, st>> >>)
  <1>1. PICK f : f = <<"Mark", b, i, st>>
    OBVIOUS
  <1>2. f \in Frame
    BY <1>1, MarkFrame
  <1>3. f[1] = "Mark" /\ f[2] = b /\ f[3] = i
    BY <1>1
  <1>4. StepOK(f) /\ f[1] \in Updating
    BY <1>3 DEF StepOK, Clearing, Updating
  <1> QED BY <1>1, <1>2, <1>4, UpdatesOne

LEMMA AppendStep ==
    ASSUME NEW b \in BankNo, NEW e \in Entry, Listed(b)
    PROVE  OnlyUpdates(<< <<"Append", b, e>> >>)
  <1>1. PICK f : f = <<"Append", b, e>>
    OBVIOUS
  <1>2. f \in Frame
    BY <1>1, AppendFrame
  <1>3. f[1] = "Append" /\ f[2] = b
    BY <1>1
  <1>4. StepOK(f) /\ f[1] \in Updating
    BY <1>3 DEF StepOK, Clearing, Updating
  <1> QED BY <1>1, <1>2, <1>4, UpdatesOne

LEMMA DecisionStep ==
    ASSUME NEW f \in Frame, f[1] \notin Working, f[1] # "Replace"
    PROVE  StepOK(f) /\ Updates(<<f>>)
  <1>1. StepOK(f)
    BY DEF StepOK, Working, OnBank, Clearing
  <1> QED BY <1>1, UpdatesOne

LEMMA ReturnStep == Updates(Return("error")) /\ Updates(Return("success"))
  <1>1. PICK f, g : f = <<"Return", "error">> /\ g = <<"Return", "success">>
    OBVIOUS
  <1>2. f \in Frame /\ g \in Frame
    BY <1>1, OtherFrames
  <1>3. f[1] = "Return" /\ g[1] = "Return"
    BY <1>1
  <1>4. f[1] \notin Working /\ f[1] # "Replace" /\ g[1] \notin Working /\ g[1] # "Replace"
    BY <1>3 DEF Working, OnBank
  <1>5. Return("error") = <<f>> /\ Return("success") = <<g>>
    BY <1>1 DEF Return
  <1> QED BY <1>2, <1>4, <1>5, DecisionStep

LEMMA CheckStep ==
    ASSUME NEW s \in Store, NEW k \in Nat \ {0}, NEW i \in Nat \ {0}
    PROVE  Updates(<< <<"Check", s, k, i>> >>)
  <1>1. PICK f : f = <<"Check", s, k, i>>
    OBVIOUS
  <1>2. f \in Frame
    BY <1>1, CheckFrame
  <1>3. f[1] = "Check"
    BY <1>1
  <1>4. f[1] \notin Working /\ f[1] # "Replace"
    BY <1>3 DEF Working, OnBank
  <1> QED BY <1>1, <1>2, <1>4, DecisionStep

\* The step that is due decides; its store is one of the four.
LEMMA DecisionTop ==
    ASSUME IInv, NEW op \in {"Room", "Repair", "Check", "Delete", "Replace", "Return"}, Doing(op)
    PROVE  /\ op \notin Working /\ Idle /\ Head(todo) \in Frame /\ Head(todo)[1] = op /\ StepOK(Head(todo))
           /\ op \in {"Room", "Repair", "Check", "Replace"} => Head(todo)[2] \in Store
  <1>1. op \notin Working
    BY DEF Working, OnBank
  <1>2. Idle
    BY <1>1, IdleFacts
  <1>3. Head(todo) \in Frame /\ Head(todo)[1] = op /\ StepOK(Head(todo))
    BY Top
  <1>4. op \in {"Room", "Repair", "Check", "Replace"} => Head(todo)[2] \in Store
    BY <1>3, FrameFacts
  <1> QED BY <1>1, <1>2, <1>3, <1>4

LEMMA NoSteps == Updates(<<>>)
  BY EmptyFacts DEF Updates

LEMMA CollectStep ==
    ASSUME NEW b \in BankNo, Listed(b)
    PROVE  LET t == << <<"Collect", b>> >>
           IN  t \in Seq(Frame) /\ InOrder(t) /\ \A f : In(f, t) => StepOK(f) /\ f[1] # "Activate"
  <1>1. PICK f : f = <<"Collect", b>>
    OBVIOUS
  <1>2. f \in Frame /\ f[1] = "Collect" /\ f[2] = b
    BY <1>1, BankFrame DEF OnBank
  <1>3. StepOK(f)
    BY <1>2 DEF StepOK, Clearing
  <1>4. <<f>> \in Seq(Frame) /\ InOrder(<<f>>) /\ \A g : In(g, <<f>>) <=> g = f
    BY <1>2, OneFacts
  <1> QED BY <1>1, <1>2, <1>3, <1>4

LEMMA RoomKeeps ==
    ASSUME IInv, Room
    PROVE  IInv' /\ Clears
  <1>1. Doing("Room") /\ UNCHANGED <<nv, Bank, Active, TBank, Sequence, request>>
    BY DEF Room, memory, caller
  <1>2. PICK s : s = Head(todo)[2]
    OBVIOUS
  <1>3. "Room" \notin Working /\ Idle /\ s \in Store
    BY <1>1, <1>2, DecisionTop
  <1>4. \/ Collectable(s) # NoBank /\ todo' = << <<"Collect", Collectable(s)>> >> \o todo
        \/ Then(<<>>)
    BY <1>2, Zenon DEF Room, Arg
  <1>5. CASE Collectable(s) # NoBank /\ todo' = << <<"Collect", Collectable(s)>> >> \o todo
    <2>1. PICK b : b = Collectable(s)
      OBVIOUS
    <2>2. b \in BankNo /\ Listed(b)
      BY <1>3, <1>5, <2>1, CollectableFacts DEF IInv
    <2>3. PICK t : t = << <<"Collect", b>> >>
      OBVIOUS
    <2>4. t \in Seq(Frame) /\ InOrder(t) /\ \A f : In(f, t) => StepOK(f) /\ f[1] # "Activate"
      BY <2>2, <2>3, CollectStep
    <2>5. todo \in Seq(Frame) /\ InOrder(todo)
      BY DEF IInv, Types, Steps
    <2>6. todo' = t \o todo
      BY <1>5, <2>1, <2>3
    <2> QED BY <1>1, <1>3, <2>4, <2>5, <2>6, DecisionPush
  <1>6. CASE Then(<<>>)
    BY <1>1, <1>3, <1>6, NoSteps, UpdatesFacts, DecisionThen
  <1> QED BY <1>4, <1>5, <1>6

LEMMA ActiveFacts ==
    ASSUME IInv, NEW s \in Store, NEW b \in Range(Active[s])
    PROVE  b \in BankNo /\ Listed(b) /\ ~ IsTBank(b) /\ StoreOf[b] = s
  <1>1. PICK k \in DOMAIN Active[s] : Active[s][k] = b
    BY DEF Range
  <1>2. b \in ListedBanks
    BY <1>1, ActiveListed DEF IInv
  <1>3. StoreOf[b] = s /\ b # TBank[s]
    BY <1>1 DEF IInv, Lists
  <1> QED BY <1>2, <1>3 DEF ListedBanks, IsTBank

LEMMA ZeroStep ==
    ASSUME NEW b \in BankNo, ~ IsTBank(b)
    PROVE  /\ <<"Zero", b>> \in Frame /\ StepOK(<<"Zero", b>>) /\ <<"Zero", b>>[1] = "Zero"
  <1>1. PICK f : f = <<"Zero", b>>
    OBVIOUS
  <1>2. f \in Frame /\ f[1] = "Zero" /\ f[2] = b
    BY <1>1, BankFrame DEF OnBank
  <1>3. StepOK(f)
    BY <1>2 DEF StepOK, Clearing
  <1> QED BY <1>1, <1>2, <1>3

LEMMA StateStep ==
    ASSUME NEW b \in BankNo, NEW st \in BankState
    PROVE  /\ <<"BankState", b, st>> \in Frame /\ StepOK(<<"BankState", b, st>>)
           /\ <<"BankState", b, st>>[1] = "BankState"
  <1>1. PICK f : f = <<"BankState", b, st>>
    OBVIOUS
  <1>2. f \in Frame /\ f[1] = "BankState"
    BY <1>1, StateFrame
  <1>3. StepOK(f)
    BY <1>2 DEF StepOK, Clearing
  <1> QED BY <1>1, <1>2, <1>3

LEMMA RepairKeeps ==
    ASSUME IInv, Repair
    PROVE  IInv' /\ Clears
  <1>1. Doing("Repair") /\ UNCHANGED <<nv, Bank, Active, TBank, Sequence, request>>
    BY DEF Repair, memory, caller
  <1>2. PICK s : s = Head(todo)[2]
    OBVIOUS
  <1>3. "Repair" \notin Working /\ s \in Store
    BY <1>1, <1>2, DecisionTop
  <1> PICK old : old = CHOOSE b \in Obsoleted(s) : TRUE
    OBVIOUS
  <1> PICK new : new = CHOOSE b \in Arriving(s) : TRUE
    OBVIOUS
  <1>4. Obsoleted(s) # {} => old \in Range(Active[s])
    BY Zenon DEF Obsoleted
  <1>5. Arriving(s) # {} => new \in Range(Active[s])
    BY Zenon DEF Arriving
  <1>6. \/ Obsoleted(s) # {} /\ Then(<< <<"Collect", old>> >>)
        \/ Arriving(s) # {} /\ Obsoleted(s) # {} /\ Then(ClearStore(old) \o CommitArriving(new))
        \/ Arriving(s) # {} /\ Then(CommitArriving(new))
        \/ Then(<<>>)
    <2>1. CASE Arriving(s) = {} /\ Obsoleted(s) # {}
      BY <1>2, <2>1 DEF Repair, Arg
    <2>2. CASE Arriving(s) # {} /\ Obsoleted(s) # {}
      BY <1>2, <2>2 DEF Repair, Arg
    <2>3. CASE Arriving(s) # {} /\ Obsoleted(s) = {}
      BY <1>2, <2>3 DEF Repair, Arg
    <2>4. CASE Arriving(s) = {} /\ Obsoleted(s) = {}
      BY <1>2, <2>4 DEF Repair, Arg
    <2> QED BY <2>1, <2>2, <2>3, <2>4
  <1>7. CASE Obsoleted(s) # {} /\ Then(<< <<"Collect", old>> >>)
    <2>1. old \in BankNo /\ Listed(old)
      BY <1>3, <1>4, <1>7, ActiveFacts
    <2>2. PICK t : t = << <<"Collect", old>> >>
      OBVIOUS
    <2>3. t \in Seq(Frame) /\ InOrder(t) /\ \A f : In(f, t) => StepOK(f) /\ f[1] # "Activate"
      BY <2>1, <2>2, CollectStep
    <2>4. Then(t)
      BY <1>7, <2>2
    <2> QED BY <1>1, <1>3, <2>3, <2>4, DecisionThen
  <1>8. CASE Arriving(s) # {} /\ Obsoleted(s) # {} /\ Then(ClearStore(old) \o CommitArriving(new))
    <2>1. old \in BankNo /\ ~ IsTBank(old) /\ new \in BankNo
      BY <1>3, <1>4, <1>5, <1>8, ActiveFacts
    <2>2. PICK f, g : f = <<"Zero", old>> /\ g = <<"BankState", new, "INUSE">>
      OBVIOUS
    <2>3. f \in Frame /\ StepOK(f) /\ f[1] = "Zero"
      BY <2>1, <2>2, ZeroStep
    <2>4. g \in Frame /\ StepOK(g) /\ g[1] = "BankState"
      BY <2>1, <2>2, StateStep DEF BankState
    <2>5. Before(f, g)
      BY <2>3, <2>4 DEF Before, Clearing, Changing, Updating
    <2>6. PICK t : t = <<f, g>>
      OBVIOUS
    <2>7. t \in Seq(Frame) /\ InOrder(t) /\ \A h : In(h, t) => h = f \/ h = g
      BY <2>3, <2>4, <2>5, <2>6, TwoFacts
    <2>8. \A h : In(h, t) => StepOK(h) /\ h[1] # "Activate"
      BY <2>3, <2>4, <2>7
    <2>9. t = ClearStore(old) \o CommitArriving(new)
      <3>1. ClearStore(old) = <<f>> /\ CommitArriving(new) = <<g>>
        BY <2>2 DEF ClearStore, CommitArriving
      <3>2. <<f>> \o <<g>> = <<f, g>>
        BY PairCat
      <3> QED BY <2>6, <3>1, <3>2
    <2>10. Then(t)
      BY <1>8, <2>9
    <2> QED BY <1>1, <1>3, <2>7, <2>8, <2>10, DecisionThen
  <1>9. CASE Arriving(s) # {} /\ Then(CommitArriving(new))
    <2>1. new \in BankNo
      BY <1>3, <1>5, <1>9, ActiveFacts
    <2>2. PICK g : g = <<"BankState", new, "INUSE">>
      OBVIOUS
    <2>4. g \in Frame /\ StepOK(g) /\ g[1] = "BankState"
      BY <2>1, <2>2, StateStep DEF BankState
    <2>6. PICK t : t = <<g>>
      OBVIOUS
    <2>7. t \in Seq(Frame) /\ InOrder(t) /\ \A h : In(h, t) => h = g
      BY <2>4, <2>6, OneFacts
    <2>8. \A h : In(h, t) => StepOK(h) /\ h[1] # "Activate"
      BY <2>4, <2>7
    <2>9. Then(t)
      BY <1>9, <2>2, <2>6 DEF CommitArriving
    <2> QED BY <1>1, <1>3, <2>7, <2>8, <2>9, DecisionThen
  <1>10. CASE Then(<<>>)
    BY <1>1, <1>3, <1>10, NoSteps, UpdatesFacts, DecisionThen
  <1> QED BY <1>6, <1>7, <1>8, <1>9, <1>10

LEMMA CheckKeeps ==
    ASSUME IInv, Check
    PROVE  IInv' /\ Clears
  <1>1. Doing("Check") /\ UNCHANGED <<nv, Bank, Active, TBank, Sequence, request>>
    BY DEF Check, memory, caller
  <1>2. PICK s, k, i0 : s = Head(todo)[2] /\ k = Head(todo)[3] /\ i0 = Head(todo)[4]
    OBVIOUS
  <1>3. "Check" \notin Working /\ s \in Store
    BY <1>1, <1>2, DecisionTop
  <1>4. k \in Nat \ {0} /\ i0 \in Nat \ {0}
    <2>1. Head(todo) \in Frame /\ Head(todo)[1] = "Check"
      BY <1>1, DecisionTop
    <2> QED BY <1>2, <2>1, FrameFacts
  <1> DEFINE b == Active[s][k]
             bad == {i \in i0 .. Len(Bank[b].Log) : Suspect(b, i)}
             i == Min(bad)
             e == Bank[b].Log[i]
             free == FreeBank(s, e.size)
             remove == << <<"Mark", b, i, "dead">>, <<"Check", s, k, i + 1>> >>
  <1>5. \/ Then(<<>>)
        \/ Then(<< <<"Check", s, k + 1, 1>> >>)
        \/ ~ (k > Len(Active[s])) /\ bad # {} /\ Then(remove)
        \/ /\ ~ (k > Len(Active[s])) /\ bad # {} /\ free # NoBank
           /\ Then(<< <<"Append", free, [e EXCEPT !.state = "added"]>> >> \o remove)
        \/ /\ ~ (k > Len(Active[s])) /\ bad # {}
           /\ Then(<< <<"Room", s, e.size>>, <<"Check", s, 1, 1>> >>)
    BY <1>2, Zenon DEF Check, Arg
  <1>6. CASE Then(<<>>)
    BY <1>1, <1>3, <1>6, NoSteps, UpdatesFacts, DecisionThen
  <1>7. CASE Then(<< <<"Check", s, k + 1, 1>> >>)
    <2>1. PICK t : t = << <<"Check", s, k + 1, 1>> >>
      OBVIOUS
    <2>2. k + 1 \in Nat \ {0} /\ 1 \in Nat \ {0}
      BY <1>4
    <2>3. Updates(t)
      BY <1>3, <2>1, <2>2, CheckStep
    <2>4. Then(t)
      BY <1>7, <2>1
    <2> QED BY <1>1, <1>3, <2>3, <2>4, UpdatesFacts, DecisionThen
  <1>8. ASSUME ~ (k > Len(Active[s])), bad # {}
        PROVE  /\ b \in BankNo /\ Listed(b) /\ i \in DOMAIN Bank[b].Log /\ i \in Nat \ {0} /\ e \in Entry
    <2>1. Active[s] \in Seq(BankNo)
      BY <1>3 DEF IInv, Types
    <2>2. k \in DOMAIN Active[s]
      BY <1>4, <1>8, <2>1
    <2>3. b \in ListedBanks
      BY <2>2, <1>3, ActiveListed DEF IInv
    <2>4. b \in BankNo /\ Listed(b)
      BY <2>3 DEF ListedBanks
    <2> HIDE DEF b
    <2>5. Bank[b].Log \in Seq(Entry)
      BY <2>4, TypeFacts DEF IInv
    <2>6. bad \in SUBSET Nat
      BY <1>4, <2>5
    <2>7. i \in bad
      BY <1>8, <2>6, MinFacts
    <2>8. i \in i0 .. Len(Bank[b].Log)
      BY <2>7
    <2> HIDE DEF i
    <2>9. i \in DOMAIN Bank[b].Log /\ i \in Nat \ {0} /\ Bank[b].Log[i] \in Entry
      BY <1>4, <2>5, <2>8
    <2> QED BY <2>4, <2>9
  <1>9. ASSUME ~ (k > Len(Active[s])), bad # {}
        PROVE  Updates(remove)
    <2>1. b \in BankNo /\ Listed(b) /\ i \in DOMAIN Bank[b].Log /\ i \in Nat \ {0}
      BY <1>8, <1>9
    <2> HIDE DEF b, i
    <2>2. OnlyUpdates(<< <<"Mark", b, i, "dead">> >>)
      BY <2>1, MarkStep
    <2>3. i + 1 \in Nat \ {0}
      BY <2>1
    <2>4. Updates(<< <<"Check", s, k, i + 1>> >>)
      BY <1>3, <1>4, <2>3, CheckStep
    <2>5. PICK f, g : f = <<"Mark", b, i, "dead">> /\ g = <<"Check", s, k, i + 1>>
      OBVIOUS
    <2>6. Updates(<<f>> \o <<g>>)
      BY <2>2, <2>4, <2>5, UpdatesCat
    <2>7. <<f>> \o <<g>> = <<f, g>>
      BY PairCat
    <2> QED BY <2>5, <2>6, <2>7
  <1>10. CASE ~ (k > Len(Active[s])) /\ bad # {} /\ Then(remove)
    <2>1. PICK t : t = remove
      OBVIOUS
    <2>2. Updates(t) /\ Then(t)
      BY <1>9, <1>10, <2>1, Zenon
    <2> QED BY <1>1, <1>3, <2>2, UpdatesFacts, DecisionThen
  <1>11. CASE /\ ~ (k > Len(Active[s])) /\ bad # {} /\ free # NoBank
              /\ Then(<< <<"Append", free, [e EXCEPT !.state = "added"]>> >> \o remove)
    <2>1. PICK t : t = remove
      OBVIOUS
    <2>2. Updates(t)
      BY <1>9, <1>11, <2>1, Zenon
    <2>3. e \in Entry
      BY <1>8, <1>11
    <2>4. PICK c, x : c = free /\ x = [e EXCEPT !.state = "added"]
      OBVIOUS
    <2>5. x \in Entry
      BY <2>3, <2>4, EntryFacts
    <2>6. c \in BankNo /\ Listed(c)
      BY <1>3, <1>11, <2>4, FreeBankFacts DEF IInv
    <2>7. OnlyUpdates(<< <<"Append", c, x>> >>)
      BY <2>5, <2>6, AppendStep
    <2>8. Updates(<< <<"Append", c, x>> >> \o t) /\ Then(<< <<"Append", c, x>> >> \o t)
      BY <1>11, <2>1, <2>2, <2>4, <2>7, UpdatesCat, Zenon
    <2> QED BY <1>1, <1>3, <2>8, UpdatesFacts, DecisionThen
  <1>12. CASE /\ ~ (k > Len(Active[s])) /\ bad # {}
              /\ Then(<< <<"Room", s, e.size>>, <<"Check", s, 1, 1>> >>)
    <2>1. e \in Entry
      BY <1>8, <1>12
    <2>2. PICK f, g : f = <<"Room", s, e.size>> /\ g = <<"Check", s, 1, 1>>
      OBVIOUS
    <2>3. e.size \in Nat
      BY <2>1, EntryFacts
    <2>4. f \in Frame /\ f[1] = "Room"
      BY <1>3, <2>2, <2>3, RoomFrame
    <2>5. 1 \in Nat \ {0}
      OBVIOUS
    <2>6. g \in Frame /\ g[1] = "Check"
      BY <1>3, <2>2, <2>5, CheckFrame
    <2>7. /\ f[1] \notin Working /\ f[1] # "Replace" /\ g[1] \notin Working /\ g[1] # "Replace"
          /\ f[1] # "Activate" /\ g[1] # "Activate"
      BY <2>4, <2>6 DEF Working, OnBank
    <2>8. StepOK(f) /\ StepOK(g) /\ Before(f, g)
      BY <2>4, <2>6, <2>7, DecisionStep, BeforeDecision
    <2>9. PICK t : t = <<f, g>>
      OBVIOUS
    <2>10. t \in Seq(Frame) /\ InOrder(t) /\ \A h : In(h, t) => h = f \/ h = g
      BY <2>4, <2>6, <2>8, <2>9, TwoFacts
    <2>11. \A h : In(h, t) => StepOK(h) /\ h[1] # "Activate"
      BY <2>7, <2>8, <2>10
    <2>12. Then(t)
      BY <1>12, <2>2, <2>9, Zenon
    <2> QED BY <1>1, <1>3, <2>10, <2>11, <2>12, DecisionThen
  <1> QED BY <1>5, <1>6, <1>7, <1>10, <1>11, <1>12

LEMMA DeleteKeeps ==
    ASSUME IInv, Delete
    PROVE  IInv' /\ Clears
  <1>1. Doing("Delete") /\ UNCHANGED <<nv, Bank, Active, TBank, Sequence, request>>
    BY DEF Delete, memory, caller
  <1>2. "Delete" \notin Working
    BY <1>1, DecisionTop
  <1>3. PICK old : old = RtVarFind(request.name)
    OBVIOUS
  <1>4. CASE old = NotFound
    <2>1. todo' = Return("error")
      BY <1>3, <1>4, Zenon DEF Delete
    <2> QED BY <1>1, <1>2, <2>1, ReturnStep, UpdatesFacts, DecisionOnly
  <1>5. CASE old # NotFound
    <2>1. todo' = << <<"Mark", old.bank, old.index, "dead">> >> \o Return("success")
      BY <1>3, <1>5, Zenon DEF Delete
    <2>2. /\ old.bank \in BankNo /\ Listed(old.bank) /\ old.index \in Nat
          /\ old.index \in DOMAIN Bank[old.bank].Log
      BY <1>3, <1>5, FindFacts DEF IInv
    <2>3. OnlyUpdates(<< <<"Mark", old.bank, old.index, "dead">> >>)
      BY <2>2, MarkStep
    <2>4. Updates(todo')
      BY <2>1, <2>3, ReturnStep, UpdatesCat
    <2>5. PICK t : t = todo'
      OBVIOUS
    <2> QED BY <1>1, <1>2, <2>4, <2>5, UpdatesFacts, DecisionOnly
  <1> QED BY <1>4, <1>5

LEMMA ReplaceKeeps ==
    ASSUME IInv, Replace, SizesTold
    PROVE  IInv' /\ Clears
  <1>1. Doing("Replace") /\ UNCHANGED <<nv, Bank, Active, TBank, Sequence, request>>
    BY DEF Replace, memory, caller
  <1>2. PICK s, rt, n, v : s = Head(todo)[2] /\ rt = Head(todo)[3] /\ n = request.name /\ v = request.val
    OBVIOUS
  <1>3. "Replace" \notin Working /\ s \in Store
    BY <1>1, <1>2, DecisionTop
  <1>4. rt \in BOOLEAN /\ n \in Name /\ v \in Val
    <2>1. Head(todo) \in Frame /\ Head(todo)[1] = "Replace" /\ StepOK(Head(todo))
      BY <1>1, DecisionTop
    <2>2. rt \in BOOLEAN
      BY <1>2, <2>1, FrameFacts
    <2>3. n \in Name /\ v \in Val
      BY <1>2, <2>1 DEF StepOK
    <2> QED BY <2>2, <2>3
  <1>5. PICK free, old, e : free = FreeBank(s, VarSize[n][v]) /\ old = RtVarFind(n) /\ e = Added(n, v, rt)
    OBVIOUS
  <1> DEFINE add == << <<"Append", free, e>> >>
  <1>6. \/ todo' = Return("error")
        \/ todo' = Return("success")
        \/ free # NoBank /\ todo' = add \o Return("success")
        \/ /\ free # NoBank /\ old # NotFound
           /\ todo' = << <<"Mark", old.bank, old.index, "trans">> >> \o add
                        \o Supersede(old) \o Return("success")
    BY <1>2, <1>5, Zenon DEF Replace, Arg
  <1>7. CASE todo' = Return("error") \/ todo' = Return("success")
    BY <1>1, <1>3, <1>7, ReturnStep, UpdatesFacts, DecisionOnly
  <1>8. ASSUME free # NoBank
        PROVE  OnlyUpdates(add)
    <2>1. free \in BankNo /\ Listed(free)
      BY <1>3, <1>5, <1>8, FreeBankFacts DEF IInv
    <2>2. e \in Entry
      BY <1>4, <1>5, AddedFacts
    <2> QED BY <2>1, <2>2, AppendStep
  <1>9. CASE free # NoBank /\ todo' = add \o Return("success")
    <2>1. Updates(todo')
      BY <1>8, <1>9, ReturnStep, UpdatesCat
    <2>2. PICK t : t = todo'
      OBVIOUS
    <2> QED BY <1>1, <1>3, <2>1, <2>2, UpdatesFacts, DecisionOnly
  <1>10. CASE /\ free # NoBank /\ old # NotFound
              /\ todo' = << <<"Mark", old.bank, old.index, "trans">> >> \o add
                           \o Supersede(old) \o Return("success")
    <2>1. /\ old.bank \in BankNo /\ Listed(old.bank) /\ old.index \in Nat
          /\ old.index \in DOMAIN Bank[old.bank].Log
      BY <1>5, <1>10, FindFacts DEF IInv
    <2>2. PICK m, a, d : m = << <<"Mark", old.bank, old.index, "trans">> >> /\ a = add /\ d = Supersede(old)
      OBVIOUS
    <2>3. OnlyUpdates(m) /\ OnlyUpdates(d)
      BY <2>1, <2>2, MarkStep DEF Supersede
    <2>4. OnlyUpdates(a)
      BY <1>8, <1>10, <2>2
    <2>5. todo' = m \o a \o d \o Return("success")
      BY <1>10, <2>2
    <2>6. OnlyUpdates(m \o a)
      BY <2>3, <2>4, UpdatesCat DEF OnlyUpdates
    <2>7. OnlyUpdates(m \o a \o d)
      BY <2>3, <2>6, UpdatesCat DEF OnlyUpdates
    <2>8. Updates(todo')
      BY <2>5, <2>7, ReturnStep, UpdatesCat
    <2>9. PICK t : t = todo'
      OBVIOUS
    <2> QED BY <1>1, <1>3, <2>8, <2>9, UpdatesFacts, DecisionOnly
  <1> QED BY <1>6, <1>7, <1>9, <1>10

LEMMA ReturnKeeps ==
    ASSUME IInv, ReturnStatus
    PROVE  IInv' /\ Clears
  <1>1. Doing("Return") /\ UNCHANGED <<nv, Bank, Active, TBank, Sequence>> /\ todo' = <<>>
    BY DEF ReturnStatus, memory
  <1>2. Idle
    BY <1>1, DecisionTop
  <1>3. todo' \in Seq(Frame) /\ InOrder(todo') /\ \A f : ~ In(f, todo')
    BY <1>1, EmptyFacts
  <1> QED BY <1>1, <1>2, <1>3, DecisionInv

LEMMA ExitKeeps ==
    ASSUME IInv, ExitBootServices
    PROVE  IInv' /\ Clears
  <1>1. UNCHANGED <<nv, Bank, Active, TBank, Sequence>> /\ todo' = <<>> /\ todo = <<>>
    BY DEF ExitBootServices
  <1>2. Idle
    BY <1>1, EmptyFacts DEF Idle
  <1>3. todo' \in Seq(Frame) /\ InOrder(todo') /\ \A f : ~ In(f, todo')
    BY <1>1, EmptyFacts
  <1> QED BY <1>1, <1>2, <1>3, DecisionInv

LEMMA SetKeeps ==
    ASSUME IInv, NEW c \in Calls, SetVariable(c[1], c[2], c[3])
    PROVE  IInv' /\ Clears
  <1>1. PICK n, v, attr : n = c[1] /\ v = c[2] /\ attr = c[3]
    OBVIOUS
  <1>2. n \in Name /\ v \in Val \cup {None} /\ attr \in Store
    BY <1>1, StoreAssumption
  <1>3. PICK s : s = StoreFor(attr)
    OBVIOUS
  <1>4. s \in Store
    BY <1>2, <1>3 DEF StoreFor, Store
  <1>5. PICK kept : kept = IF s \in NonVolatile THEN v ELSE None
    OBVIOUS
  <1>6. /\ UNCHANGED <<nv, Bank, Active, TBank, Sequence>> /\ todo = <<>>
        /\ request' = [name |-> n, val |-> v, kept |-> kept]
        /\ todo' = IF v = None THEN << <<"Delete">> >>
                   ELSE << <<"Room", s, VarSize[n][v]>>, <<"Replace", s, attr \in RuntimeStore>> >>
    BY <1>1, <1>3, <1>5, Zenon DEF SetVariable, memory
  <1>7. Idle
    BY <1>6, EmptyFacts DEF Idle
  <1>8. CASE v = None
    <2>1. PICK f : f = <<"Delete">>
      OBVIOUS
    <2>2. f \in Frame /\ f[1] = "Delete"
      BY <2>1, OtherFrames
    <2>3. todo' = <<f>>
      BY <1>6, <1>8, <2>1
    <2>4. todo' \in Seq(Frame) /\ InOrder(todo') /\ \A g : In(g, todo') <=> g = f
      BY <2>2, <2>3, OneFacts
    <2>5. StepOK(f)'
      BY <2>2 DEF StepOK, Clearing
    <2> QED BY <1>6, <1>7, <2>2, <2>4, <2>5, DecisionInv
  <1>9. CASE v # None
    <2>1. PICK rt : rt = (attr \in RuntimeStore)
      OBVIOUS
    <2>2. PICK f, g : f = <<"Room", s, VarSize[n][v]>> /\ g = <<"Replace", s, rt>>
      OBVIOUS
    <2>3. v \in Val
      BY <1>2, <1>9
    <2>4. VarSize[n][v] \in Nat
      BY <1>2, <2>3, StoreAssumption
    <2>5. f \in Frame /\ f[1] = "Room"
      BY <1>4, <2>2, <2>4, RoomFrame
    <2>6. rt \in BOOLEAN
      BY <2>1
    <2>7. g \in Frame /\ g[1] = "Replace"
      BY <1>4, <2>2, <2>6, ReplaceFrame
    <2>8. todo' = <<f, g>>
      BY <1>6, <1>9, <2>1, <2>2, Zenon
    <2>9. Before(f, g)
      BY <2>7, BeforeDecision DEF Working, OnBank
    <2>10. todo' \in Seq(Frame) /\ InOrder(todo') /\ \A h : In(h, todo') <=> h = f \/ h = g
      BY <2>5, <2>7, <2>8, <2>9, TwoFacts
    <2>11. StepOK(f)'
      BY <2>5 DEF StepOK, Clearing
    <2>12. request'.name \in Name /\ request'.val \in Val
      BY <1>2, <1>6, <2>3
    <2>13. StepOK(g)'
      BY <2>7, <2>12 DEF StepOK, Clearing
    <2> QED BY <1>6, <1>7, <2>5, <2>7, <2>10, <2>11, <2>13, DecisionInv
  <1> QED BY <1>8, <1>9

-----------------------------------------------------------------------------
(* Steps that work on a bank *)

SameBank(c) == nv'[c] = nv[c] /\ Bank'[c] = Bank[c]

StillPending(c) == \A op \in {"AddBank", "Scan", "Data", "NewHeader"} : Pending(op, c) => Pending(op, c)'

\* A step works on one bank and leaves the others alone.
LEMMA BankInv ==
    ASSUME IInv, NEW b, Types', Lists', InOrder(todo'),
           \A f : In(f, todo') => StepOK(f)',
           \A c \in BankNo : c # b => SameBank(c) /\ StillPending(c) /\ (Used(c)' => Used(c)),
           b \in BankNo => HeaderOK(b)' /\ LogOK(b)' /\ (nv'[b] = nv[b] \/ OnlyClears(nv[b], nv'[b]))
    PROVE  IInv' /\ Clears
  <1>1. Steps'
    BY PendingFactsPrime
  <1>2. ASSUME NEW c \in BankNo
        PROVE  HeaderOK(c)' /\ LogOK(c)' /\ OnlyClears(nv[c], nv'[c])
    <2>1. nv[c] \in Image
      BY TypeFacts DEF IInv
    <2>2. OnlyClears(nv[c], nv[c])
      BY <2>1, ClearsSame
    <2>3. CASE c = b
      BY <1>2, <2>2, <2>3
    <2>4. CASE c # b
      <3>1. SameBank(c) /\ StillPending(c) /\ (Used(c)' => Used(c)) /\ HeaderOK(c) /\ LogOK(c)
        BY <1>2, <2>4 DEF IInv, Synced
      <3>2. nv'[c] = nv[c] /\ Bank'[c] = Bank[c]
        BY <3>1 DEF SameBank
      <3>3. \A op \in {"AddBank", "Scan", "Data", "NewHeader"} : Pending(op, c) => Pending(op, c)'
        BY <3>1 DEF StillPending
      <3>4. HeaderOK(c)' /\ LogOK(c)'
        BY <3>1, <3>2, <3>3, SyncKept
      <3> QED BY <2>2, <3>2, <3>4
    <2> QED BY <2>3, <2>4
  <1>3. Synced'
    BY <1>2 DEF Synced
  <1>4. Clears
    BY <1>2 DEF Clears
  <1> QED BY <1>1, <1>3, <1>4 DEF IInv

\* What may come behind a step.
LEMMA Behind ==
    ASSUME NEW f, NEW g, Before(f, g)
    PROVE  /\ f[1] = "BankState" =>
                 g[1] \in {"BankState", "Data", "Zero", "Activate"} \/ g[1] \notin Working
           /\ f[1] = "Data" => g[1] \in {"BankState", "Zero", "Activate"} \/ g[1] \notin Working
           /\ f[1] \in Clearing =>
                 g[1] \in {"AddBank", "Scan", "BankState", "Activate"} \/ g[1] \notin Working
           /\ f[1] = "ResetSequence" => g[1] = "ResetSequence" \/ g[1] \notin Working
           /\ f[1] \in Updating => g[1] \in Updating \/ g[1] \notin Working
           /\ f[1] \in {"AddBank", "Scan"} => g[1] = "AddBank" \/ g[1] \notin Working
           /\ f[1] \in {"Collect", "Activate"} => g[1] \notin Working
  BY DEF Before, Working, OnBank, Clearing, Changing, Updating

\* Steps that rely on nothing but the transaction bank.
LEMMA PlainKept ==
    ASSUME NEW g, StepOK(g), TBank' = TBank, request' = request,
           g[1] \in {"AddBank", "Scan", "Zero", "BankState", "Activate", "ResetSequence"} \/ g[1] \notin Working
    PROVE  StepOK(g)'
  <1>1. \A c : IsTBank(c)' <=> IsTBank(c)
    BY DEF IsTBank
  <1>2. CASE g[1] \in {"AddBank", "Scan", "Zero", "BankState", "Activate", "ResetSequence"}
    BY <1>1, <1>2 DEF StepOK, Clearing
  <1>3. CASE g[1] \notin Working
    BY <1>3, DecisionKept
  <1> QED BY <1>2, <1>3

\* What is pending behind the step that is due.
LEMMA PendingBehind ==
    ASSUME IInv, NEW op, Doing(op), \A f : In(f, Tail(todo)) => In(f, todo')
    PROVE  \A x, c : Pending(x, c) => Pending(x, c)' \/ (x = op /\ c = Head(todo)[2])
  <1>1. Head(todo)[1] = op /\ \A f : In(f, todo) => f = Head(todo) \/ In(f, Tail(todo))
    BY Top
  <1> QED BY <1>1, PendingFacts, PendingFactsPrime

LEMMA NotPending ==
    ASSUME IInv, NEW op, Doing(op), NEW x, x # op, \A f : In(f, Tail(todo)) => f[1] # x, NEW c
    PROVE  ~ Pending(x, c)
  <1>1. Head(todo)[1] = op /\ \A f : In(f, todo) => f = Head(todo) \/ In(f, Tail(todo))
    BY Top
  <1> QED BY <1>1, PendingFacts

\* The lists stay as they are and no collection starts.
LEMMA UsedKept ==
    ASSUME IInv, NEW op, Doing(op), Active' = Active, TBank' = TBank,
           \A f : In(f, todo') => In(f, todo) \/ f[1] # "Activate", NEW c
    PROVE  Used(c)' => Used(c)
  <1>1. Pending("Activate", c)' => Pending("Activate", c)
    BY PendingFacts, PendingFactsPrime
  <1> QED BY <1>1 DEF Used, Listed, IsTBank

\* The frame of a step that works on a bank.
LEMMA BankTop ==
    ASSUME IInv, NEW op \in Working, Doing(op)
    PROVE  /\ Head(todo)[2] \in BankNo /\ Head(todo)[1] = op /\ StepOK(Head(todo)) /\ Head(todo) \in Frame
  <1>1. Head(todo) \in Frame /\ Head(todo)[1] = op /\ StepOK(Head(todo))
    BY Top
  <1>2. Head(todo)[2] \in BankNo
    BY <1>1, FrameFacts DEF Working
  <1> QED BY <1>1, <1>2

LEMMA WriteTypes ==
    ASSUME Types, NEW b \in BankNo, NEW r, IsRecord(r), NEW img \in Image, Write(b, r, img),
           Active' \in [Store -> Seq(BankNo)], TBank' = TBank,
           Sequence' \in [Store -> 0 .. VARH_MAX_SEQUENCE], todo' \in Seq(Frame)
    PROVE  Types'
  <1>1. nv' \in [BankNo -> Image] /\ DOMAIN Bank' = BankNo /\ \A c \in BankNo : IsRecord(Bank'[c])
    BY WriteFacts
  <1>2. TBank' \in [Store -> BankNo \cup {NoBank}]
    BY DEF Types
  <1> QED BY <1>1, <1>2 DEF Types, IsRecord

LEMMA ListsKept ==
    ASSUME IInv, NEW b \in BankNo, \A c \in BankNo : c # b => Bank'[c] = Bank[c],
           ~ IsTBank(b) \/ Bank'[b].Log = Bank[b].Log \/ Bank'[b].Log = <<>>, TBank' = TBank,
           \A s \in Store : \A k \in DOMAIN Active'[s] :
               \/ \E j \in DOMAIN Active[s] : Active'[s][k] = Active[s][j]
               \/ Active'[s][k] = b /\ StoreOf[b] = s /\ ~ IsTBank(b)
    PROVE  Lists'
  <1>0. TBank \in [Store -> BankNo \cup {NoBank}]
    BY DEF IInv, Types
  <1> SUFFICES ASSUME NEW s \in Store
               PROVE  /\ \A k \in DOMAIN Active'[s] : StoreOf[Active'[s][k]] = s /\ Active'[s][k] # TBank'[s]
                      /\ TBank'[s] # NoBank => StoreOf[TBank'[s]] = s /\ Bank'[TBank'[s]].Log = <<>>
    BY DEF Lists
  <1>1. /\ \A k \in DOMAIN Active[s] : StoreOf[Active[s][k]] = s /\ Active[s][k] # TBank[s]
        /\ TBank[s] # NoBank => StoreOf[TBank[s]] = s /\ Bank[TBank[s]].Log = <<>>
    BY DEF IInv, Lists
  <1>2. ASSUME NEW k \in DOMAIN Active'[s]
        PROVE  StoreOf[Active'[s][k]] = s /\ Active'[s][k] # TBank'[s]
    <2>1. CASE \E j \in DOMAIN Active[s] : Active'[s][k] = Active[s][j]
      BY <1>1, <2>1
    <2>2. CASE Active'[s][k] = b /\ StoreOf[b] = s /\ ~ IsTBank(b)
      BY <2>2 DEF IsTBank
    <2> QED BY <1>2, <2>1, <2>2
  <1>3. ASSUME TBank'[s] # NoBank
        PROVE  StoreOf[TBank'[s]] = s /\ Bank'[TBank'[s]].Log = <<>>
    <2>1. TBank[s] \in BankNo /\ StoreOf[TBank[s]] = s /\ Bank[TBank[s]].Log = <<>>
      BY <1>0, <1>1, <1>3
    <2>2. CASE TBank[s] # b
      BY <2>1, <2>2
    <2>3. CASE TBank[s] = b
      <3>1. IsTBank(b)
        BY <2>1, <2>3 DEF IsTBank
      <3> QED BY <2>1, <2>3, <3>1
    <2> QED BY <2>2, <2>3
  <1> QED BY <1>2, <1>3

\* RtVarUpdateBankState and the reset of the sequence numbers.
LEMMA HeaderWrite ==
    ASSUME IInv, NEW op \in {"BankState", "ResetSequence"}, Doing(op), NEW b, b = Head(todo)[2],
           NEW h \in Header, WriteHeader(b, h), h.Signature = Bank[b].Header.Signature,
           Bank[b].Header.State \subseteq h.State, h.Sequence \in {0, Bank[b].Header.Sequence},
           Then(<<>>), UNCHANGED <<Active, TBank, Sequence, request>>
    PROVE  IInv' /\ Clears
  <1>0. op \in Working /\ op \notin {"AddBank", "Scan", "Data", "NewHeader"}
    BY DEF Working, OnBank
  <1>1. b \in BankNo /\ Types
    BY <1>0, BankTop DEF IInv
  <1>2. todo' \in Seq(Frame) /\ InOrder(todo') /\ \A f : In(f, todo') <=> In(f, Tail(todo))
    BY ThenNothing
  <1>3. PICK r : r = [Bank[b] EXCEPT !.Header = h]
    OBVIOUS
  <1>4. PICK img : img = [nv[b] EXCEPT !.Header = h]
    OBVIOUS
  <1>5. IsRecord(Bank[b]) /\ nv[b] \in Image
    BY <1>1, TypeFacts
  <1>6. IsRecord(r) /\ r.Header = h /\ r.Log = Bank[b].Log /\ r.DeviceError = Bank[b].DeviceError
    BY <1>3, <1>5, HeaderRecord
  <1>7. img \in Image /\ img.Header = h /\ img.Log = nv[b].Log
    BY <1>4, <1>5, ImageFacts
  <1>8. Write(b, r, img)
    BY <1>3, <1>4 DEF WriteHeader
  <1>9. Types'
    <2>1. Active' \in [Store -> Seq(BankNo)] /\ Sequence' \in [Store -> 0 .. VARH_MAX_SEQUENCE] /\ TBank' = TBank
      BY <1>1 DEF Types
    <2> QED BY <1>1, <1>2, <1>6, <1>7, <1>8, <2>1, WriteTypes
  <1>10. /\ \A c \in BankNo : c # b => nv'[c] = nv[c] /\ Bank'[c] = Bank[c]
         /\ Bank'[b].Header = h /\ Bank'[b].Log = Bank[b].Log
         /\ nv'[b] = nv[b] \/ (nv'[b] = img /\ StoreOf[b] \in NonVolatile /\ ~ r.DeviceError)
         /\ Kept(b)' => nv'[b] = img /\ ~ r.DeviceError
    BY <1>1, <1>6, <1>7, <1>8, WriteFacts
  <1>11. Lists'
    <2>1. \A s \in Store : \A k \in DOMAIN Active'[s] : \E j \in DOMAIN Active[s] : Active'[s][k] = Active[s][j]
      OBVIOUS
    <2>2. Bank'[b].Log = Bank[b].Log /\ \A c \in BankNo : c # b => Bank'[c] = Bank[c]
      BY <1>10
    <2> QED BY <1>1, <2>1, <2>2, ListsKept
  <1>12. \A f : In(f, Tail(todo)) => StepOK(f) /\ Before(Head(todo), f) /\ In(f, todo)
    BY Top
  <1>13. Head(todo)[1] = op
    BY Top
  <1>14. ASSUME NEW f, In(f, Tail(todo))
         PROVE  f[1] \in {"Data", "Zero", "BankState", "Activate", "ResetSequence"} \/ f[1] \notin Working
    BY <1>12, <1>13, <1>14, Behind
  <1>15. ASSUME NEW f, In(f, todo')
         PROVE  StepOK(f)'
    <2>1. StepOK(f) /\ In(f, Tail(todo)) /\ f \in Frame
      BY <1>2, <1>12, <1>15, Top
    <2>2. CASE f[1] = "Data"
      <3>1. ~ IsTBank(f[2]) /\ (Kept(f[2]) => nv[f[2]].Log = <<>>)
        BY <2>1, <2>2 DEF StepOK
      <3>2. ~ IsTBank(f[2])'
        BY <3>1 DEF IsTBank
      <3>3. Kept(f[2])' => nv'[f[2]].Log = <<>>
        <4>1. f[2] \in BankNo
          BY <2>1, <2>2, FrameFacts DEF OnBank
        <4>2. CASE f[2] # b
          BY <3>1, <4>1, <4>2, <1>10 DEF Kept
        <4>3. CASE f[2] = b
          BY <3>1, <4>3, <1>6, <1>7, <1>10 DEF Kept
        <4> QED BY <4>2, <4>3
      <3> QED BY <2>2, <3>2, <3>3 DEF StepOK, Clearing
    <2>3. CASE f[1] # "Data"
      BY <2>1, <2>3, <1>14, PlainKept
    <2> QED BY <2>2, <2>3
  <1>16. \A x, c : Pending(x, c) => Pending(x, c)' \/ (x = op /\ c = Head(todo)[2])
    BY <1>2, PendingBehind
  <1>17. \A c : StillPending(c)
    BY <1>0, <1>16 DEF StillPending
  <1>18. \A c : Used(c)' => Used(c)
    BY <1>2, <1>12, UsedKept
  <1>19. ~ Pending("AddBank", b) /\ ~ Pending("NewHeader", b)
    <2>1. \A f : In(f, Tail(todo)) => f[1] # "AddBank" /\ f[1] # "NewHeader"
      BY <1>14 DEF Working, OnBank
    <2> QED BY <1>0, <2>1, NotPending
  <1>20. HeaderOK(b)'
    BY <1>7, <1>10 DEF HeaderOK
  <1>21. LogOK(b)'
    <2>1. LogOK(b) /\ (Kept(b)' => Kept(b) /\ nv'[b].Log = nv[b].Log)
      BY <1>1, <1>6, <1>7, <1>10 DEF IInv, Synced, Kept
    <2>2. StillPending(b) /\ (Used(b)' => Used(b)) /\ Bank'[b].Log = Bank[b].Log
      BY <1>10, <1>17, <1>18
    <2> QED BY <1>1, <2>1, <2>2 DEF LogOK, StillPending
  <1>22. nv'[b] = nv[b] \/ OnlyClears(nv[b], nv'[b])
    <2> SUFFICES ASSUME nv'[b] # nv[b] PROVE OnlyClears(nv[b], nv'[b])
      OBVIOUS
    <2>1. nv'[b] = img /\ Kept(b)
      BY <1>6, <1>10 DEF Kept
    <2>2. nv[b].Header = Bank[b].Header
      BY <1>1, <1>19, <2>1 DEF IInv, Synced, HeaderOK
    <2> QED BY <1>5, <1>7, <2>1, <2>2, ClearsHeader
  <1>23. \A c \in BankNo : c # b => SameBank(c) /\ StillPending(c) /\ (Used(c)' => Used(c))
    BY <1>10, <1>17, <1>18 DEF SameBank
  <1> QED BY <1>1, <1>2, <1>9, <1>11, <1>15, <1>20, <1>21, <1>22, <1>23, BankInv

LEMMA BankStateKeeps ==
    ASSUME IInv, UpdateBankState
    PROVE  IInv' /\ Clears
  <1>1. /\ Doing("BankState") /\ Then(<<>>) /\ UNCHANGED <<Active, TBank, Sequence, request>>
        /\ WriteHeader(Arg(2), [Bank[Arg(2)].Header EXCEPT !.State = @ \cup {Arg(3)}])
    BY DEF UpdateBankState, caller
  <1>2. PICK b, st : b = Head(todo)[2] /\ st = Head(todo)[3]
    OBVIOUS
  <1>3. "BankState" \in Working
    BY DEF Working
  <1>4. b \in BankNo /\ st \in BankState
    BY <1>1, <1>2, <1>3, BankTop, FrameFacts
  <1>5. Bank[b].Header \in Header
    BY <1>4, TypeFacts DEF IInv
  <1>6. PICK h : h = [Bank[b].Header EXCEPT !.State = @ \cup {st}]
    OBVIOUS
  <1>7. PICK g : g = Bank[b].Header
    OBVIOUS
  <1>8. h \in Header /\ h.Signature = g.Signature /\ g.State \subseteq h.State /\ h.Sequence = g.Sequence
    <2>1. g \in [Signature : BOOLEAN, Sequence : 0 .. VARH_MAX_SEQUENCE, State : SUBSET BankState]
      BY <1>5, <1>7 DEF Header
    <2>2. h = [g EXCEPT !.State = g.State \cup {st}]
      BY <1>6, <1>7
    <2>3. g.State \cup {st} \in SUBSET BankState
      BY <1>4, <2>1
    <2>4. PICK S : S = g.State \cup {st}
      OBVIOUS
    <2>5. h = [g EXCEPT !.State = S] /\ S \in SUBSET BankState
      BY <2>2, <2>3, <2>4
    <2>6. h \in Header /\ h.Signature = g.Signature /\ h.State = S /\ h.Sequence = g.Sequence
      BY <2>1, <2>5 DEF Header
    <2> QED BY <2>4, <2>6
  <1>9. WriteHeader(b, h)
    BY <1>1, <1>2, <1>6 DEF Arg
  <1> QED BY <1>1, <1>2, <1>7, <1>8, <1>9, HeaderWrite

LEMMA ResetKeeps ==
    ASSUME IInv, ResetSequence
    PROVE  IInv' /\ Clears
  <1>1. /\ Doing("ResetSequence") /\ Then(<<>>) /\ UNCHANGED <<Active, TBank, Sequence, request>>
        /\ WriteHeader(Arg(2), [Bank[Arg(2)].Header EXCEPT !.Sequence = 0])
    BY DEF ResetSequence, caller
  <1>2. PICK b : b = Head(todo)[2]
    OBVIOUS
  <1>3. "ResetSequence" \in Working
    BY DEF Working, OnBank
  <1>4. b \in BankNo
    BY <1>1, <1>2, <1>3, BankTop
  <1>5. Bank[b].Header \in Header
    BY <1>4, TypeFacts DEF IInv
  <1>6. PICK g : g = Bank[b].Header
    OBVIOUS
  <1>7. PICK h : h = [g EXCEPT !.Sequence = 0]
    OBVIOUS
  <1>8. h \in Header /\ h.Signature = g.Signature /\ g.State = h.State /\ h.Sequence = 0
    <2>1. 0 \in 0 .. VARH_MAX_SEQUENCE
      BY StoreAssumption
    <2>2. g \in Header
      BY <1>5, <1>6
    <2> QED BY <1>7, <2>1, <2>2 DEF Header
  <1>9. WriteHeader(b, h)
    BY <1>1, <1>2, <1>6, <1>7 DEF Arg
  <1>10. g.State \subseteq h.State /\ h.Sequence \in {0, g.Sequence}
    BY <1>8
  <1> QED BY <1>1, <1>2, <1>6, <1>8, <1>9, <1>10, HeaderWrite

LEMMA DataKeeps ==
    ASSUME IInv, Data
    PROVE  IInv' /\ Clears
  <1>1. /\ Doing("Data") /\ Then(<<>>) /\ UNCHANGED <<Active, TBank, Sequence, request>>
        /\ Write(Arg(2), Bank[Arg(2)], [Header |-> Bank[Arg(2)].Header, Log |-> Bank[Arg(2)].Log])
    BY DEF Data, caller
  <1>2. PICK b : b = Head(todo)[2]
    OBVIOUS
  <1>3. "Data" \in Working
    BY DEF Working, OnBank
  <1>4. b \in BankNo /\ Types /\ StepOK(Head(todo)) /\ Head(todo)[1] = "Data"
    BY <1>1, <1>2, <1>3, BankTop DEF IInv
  <1>5. ~ IsTBank(b) /\ (Kept(b) => nv[b].Log = <<>>)
    BY <1>2, <1>4 DEF StepOK
  <1>6. todo' \in Seq(Frame) /\ InOrder(todo') /\ \A f : In(f, todo') <=> In(f, Tail(todo))
    BY <1>1, ThenNothing
  <1>7. PICK img : img = [Header |-> Bank[b].Header, Log |-> Bank[b].Log]
    OBVIOUS
  <1>8. IsRecord(Bank[b]) /\ Bank[b].Header \in Header /\ Bank[b].Log \in Seq(Entry) /\ nv[b] \in Image
    BY <1>4, TypeFacts
  <1>9. img \in Image /\ img.Header = Bank[b].Header /\ img.Log = Bank[b].Log
    BY <1>7, <1>8 DEF Image
  <1>10. Write(b, Bank[b], img)
    BY <1>1, <1>2, <1>7 DEF Arg
  <1>11. Types'
    <2>1. Active' \in [Store -> Seq(BankNo)] /\ Sequence' \in [Store -> 0 .. VARH_MAX_SEQUENCE] /\ TBank' = TBank
      BY <1>1, <1>4 DEF Types
    <2> QED BY <1>4, <1>6, <1>8, <1>9, <1>10, <2>1, WriteTypes
  <1>12. /\ \A c \in BankNo : c # b => nv'[c] = nv[c] /\ Bank'[c] = Bank[c]
         /\ Bank'[b].Header = Bank[b].Header /\ Bank'[b].Log = Bank[b].Log
         /\ nv'[b] = nv[b] \/ (nv'[b] = img /\ StoreOf[b] \in NonVolatile /\ ~ Bank[b].DeviceError)
         /\ Kept(b)' => nv'[b] = img
    BY <1>4, <1>8, <1>9, <1>10, WriteFacts
  <1>13. Lists'
    <2>1. \A s \in Store : \A k \in DOMAIN Active'[s] : \E j \in DOMAIN Active[s] : Active'[s][k] = Active[s][j]
      BY <1>1
    <2>2. Bank'[b].Log = Bank[b].Log /\ \A c \in BankNo : c # b => Bank'[c] = Bank[c]
      BY <1>12
    <2> QED BY <1>1, <1>4, <2>1, <2>2, ListsKept
  <1>14. \A f : In(f, Tail(todo)) => StepOK(f) /\ Before(Head(todo), f) /\ In(f, todo)
    BY <1>1, Top
  <1>15. ASSUME NEW f, In(f, Tail(todo))
         PROVE  f[1] \in {"Zero", "BankState", "Activate"} \/ f[1] \notin Working
    BY <1>4, <1>14, <1>15, Behind
  <1>16. \A f : In(f, todo') => StepOK(f)'
    BY <1>1, <1>6, <1>14, <1>15, PlainKept
  <1>17. \A x, c : Pending(x, c) => Pending(x, c)' \/ (x = "Data" /\ c = b)
    BY <1>1, <1>2, <1>6, PendingBehind
  <1>18. \A c : c # b => StillPending(c)
    BY <1>17 DEF StillPending
  <1>19. \A c : Used(c)' => Used(c)
    BY <1>1, <1>6, <1>14, UsedKept
  <1>20. ~ Pending("AddBank", b) /\ ~ Pending("NewHeader", b)
    <2>1. \A f : In(f, Tail(todo)) => f[1] # "AddBank" /\ f[1] # "NewHeader"
      BY <1>15 DEF Working, OnBank
    <2> QED BY <1>1, <2>1, NotPending
  <1>21. HeaderOK(b)' /\ LogOK(b)'
    BY <1>9, <1>12 DEF HeaderOK, LogOK
  <1>22. nv'[b] = nv[b] \/ OnlyClears(nv[b], nv'[b])
    <2> SUFFICES ASSUME nv'[b] # nv[b] PROVE OnlyClears(nv[b], nv'[b])
      OBVIOUS
    <2>1. nv'[b] = img /\ Kept(b)
      BY <1>12 DEF Kept
    <2>2. nv[b].Header = Bank[b].Header
      BY <1>4, <1>20, <2>1 DEF IInv, Synced, HeaderOK
    <2>3. nv[b].Log = <<>> /\ Len(nv[b].Log) = 0 /\ DOMAIN nv[b].Log = {}
      BY <1>5, <2>1
    <2>4. Len(img.Log) \in Nat
      BY <1>8, <1>9
    <2>5. Len(nv[b].Log) <= Len(img.Log)
      BY <2>3, <2>4
    <2> QED BY <1>8, <1>9, <2>1, <2>2, <2>3, <2>5, ClearsLog
  <1>23. \A c \in BankNo : c # b => SameBank(c) /\ StillPending(c) /\ (Used(c)' => Used(c))
    BY <1>12, <1>18, <1>19 DEF SameBank
  <1> QED BY <1>4, <1>6, <1>11, <1>13, <1>16, <1>21, <1>22, <1>23, BankInv

LEMMA BehindClearing ==
    ASSUME IInv, NEW op \in Clearing, Doing(op)
    PROVE  /\ \A f : In(f, Tail(todo)) => /\ StepOK(f) /\ In(f, todo)
                                          /\ f[1] \in {"AddBank", "Scan", "BankState", "Activate"} \/ f[1] \notin Working
           /\ \A g, f : g[1] \in Clearing /\ In(f, Tail(todo)) => Before(g, f)
           /\ Head(todo)[2] \in BankNo /\ ~ IsTBank(Head(todo)[2])
           /\ Head(todo)[1] = op /\ StepOK(Head(todo))
  <1>1. op \in Working
    BY DEF Clearing, Working, OnBank
  <1>2. Head(todo)[2] \in BankNo /\ Head(todo)[1] = op /\ StepOK(Head(todo))
    BY <1>1, BankTop
  <1>3. ~ IsTBank(Head(todo)[2])
    BY <1>2 DEF StepOK
  <1>4. \A f : In(f, Tail(todo)) => StepOK(f) /\ In(f, todo) /\ Before(Head(todo), f)
    BY Top
  <1>5. \A f : In(f, Tail(todo)) =>
            f[1] \in {"AddBank", "Scan", "BankState", "Activate"} \/ f[1] \notin Working
    BY <1>2, <1>4, Behind
  <1>6. ASSUME NEW g, NEW f, g[1] \in Clearing, In(f, Tail(todo))
        PROVE  Before(g, f)
    <2>1. CASE f[1] \in {"AddBank", "Scan", "BankState", "Activate"}
      BY <2>1, <1>6 DEF Before, Clearing, Updating
    <2>2. CASE f[1] \notin Working
      BY <2>2, BeforeDecision
    <2> QED BY <2>1, <2>2, <1>5, <1>6
  <1> QED BY <1>2, <1>3, <1>4, <1>5, <1>6

LEMMA EraseKeeps ==
    ASSUME IInv, Erase
    PROVE  IInv' /\ Clears
  <1>1. /\ Doing("Erase") /\ UNCHANGED <<Active, TBank, Sequence, request>>
        /\ Write(Arg(2), Bank[Arg(2)], Blank)
        /\ Then(IF Bank'[Arg(2)].DeviceError THEN <<>> ELSE << <<"NewHeader", Arg(2)>> >>)
    BY DEF Erase, caller
  <1>2. PICK b : b = Head(todo)[2]
    OBVIOUS
  <1>3. "Erase" \in Clearing
    BY DEF Clearing
  <1>4. b \in BankNo /\ ~ IsTBank(b) /\ Types
    BY <1>1, <1>2, <1>3, BehindClearing DEF IInv
  <1>5. \A f : In(f, Tail(todo)) => /\ StepOK(f) /\ In(f, todo)
                                    /\ f[1] \in {"AddBank", "Scan", "BankState", "Activate"} \/ f[1] \notin Working
    BY <1>1, <1>3, BehindClearing
  <1>6. PICK n : n = <<"NewHeader", b>>
    OBVIOUS
  <1>7. n \in Frame /\ n[1] = "NewHeader" /\ n[2] = b
    BY <1>4, <1>6, BankFrame DEF OnBank
  <1>8. /\ todo' \in Seq(Frame) /\ InOrder(todo')
        /\ \A f : In(f, Tail(todo)) => In(f, todo')
        /\ \A f : In(f, todo') => In(f, Tail(todo)) \/ (f = n /\ ~ Bank'[b].DeviceError)
        /\ ~ Bank'[b].DeviceError => In(n, todo')
    <2>1. CASE Bank'[b].DeviceError
      <3>1. Then(<<>>)
        BY <1>1, <1>2, <2>1 DEF Arg
      <3> QED BY <1>1, <2>1, <3>1, ThenNothing
    <2>2. CASE ~ Bank'[b].DeviceError
      <3>1. Then(<<n>>)
        BY <1>1, <1>2, <1>6, <2>2 DEF Arg
      <3>2. \A f : In(f, Tail(todo)) => Before(n, f)
        BY <1>1, <1>3, <1>7, BehindClearing DEF Clearing
      <3> QED BY <1>1, <1>7, <2>2, <3>1, <3>2, ThenOne
    <2> QED BY <2>1, <2>2
  <1>9. IsRecord(Bank[b]) /\ nv[b] \in Image /\ Blank \in Image
    BY <1>4, TypeFacts, HeaderFacts
  <1>10. Write(b, Bank[b], Blank)
    BY <1>1, <1>2 DEF Arg
  <1>11. Types'
    <2>1. Active' \in [Store -> Seq(BankNo)] /\ Sequence' \in [Store -> 0 .. VARH_MAX_SEQUENCE] /\ TBank' = TBank
      BY <1>1, <1>4 DEF Types
    <2> QED BY <1>4, <1>8, <1>9, <1>10, <2>1, WriteTypes
  <1>12. /\ \A c \in BankNo : c # b => nv'[c] = nv[c] /\ Bank'[c] = Bank[c]
         /\ Bank'[b].Header = Bank[b].Header /\ Bank'[b].Log = Bank[b].Log
         /\ nv'[b] = nv[b] \/ nv'[b] = Blank
         /\ Kept(b)' => nv'[b] = Blank
    BY <1>4, <1>9, <1>10, WriteFacts
  <1>13. Lists'
    <2>1. \A s \in Store : \A k \in DOMAIN Active'[s] : \E j \in DOMAIN Active[s] : Active'[s][k] = Active[s][j]
      BY <1>1
    <2>2. \A c \in BankNo : c # b => Bank'[c] = Bank[c]
      BY <1>12
    <2> QED BY <1>1, <1>4, <2>1, <2>2, ListsKept
  <1>14. ASSUME NEW f, In(f, todo')
         PROVE  StepOK(f)'
    <2>1. CASE In(f, Tail(todo))
      BY <1>1, <1>5, <2>1, PlainKept
    <2>2. CASE f = n /\ ~ Bank'[b].DeviceError
      <3>1. ~ IsTBank(b)'
        BY <1>1, <1>4 DEF IsTBank
      <3>2. StoreOf[b] \in NonVolatile => nv'[b] = Blank
        BY <1>12, <2>2 DEF Kept
      <3> QED BY <1>7, <2>2, <3>1, <3>2 DEF StepOK, Clearing
    <2> QED BY <1>8, <1>14, <2>1, <2>2
  <1>15. \A x, c : Pending(x, c) => Pending(x, c)' \/ (x = "Erase" /\ c = b)
    BY <1>1, <1>2, <1>8, PendingBehind
  <1>16. \A c : StillPending(c)
    BY <1>15 DEF StillPending
  <1>17. \A f : In(f, todo') => In(f, todo) \/ f[1] # "Activate"
    BY <1>5, <1>7, <1>8
  <1>18. \A c : Used(c)' => Used(c)
    BY <1>1, <1>17, UsedKept
  <1>19. Kept(b)' => Pending("NewHeader", b)'
    BY <1>7, <1>8, PendingFactsPrime DEF Kept
  <1>20. HeaderOK(b)' /\ LogOK(b)'
    BY <1>19 DEF HeaderOK, LogOK
  <1>21. nv'[b] = nv[b] \/ OnlyClears(nv[b], nv'[b])
    BY <1>12 DEF OnlyClears
  <1>22. \A c \in BankNo : c # b => SameBank(c) /\ StillPending(c) /\ (Used(c)' => Used(c))
    BY <1>12, <1>16, <1>18 DEF SameBank
  <1> QED BY <1>4, <1>8, <1>11, <1>13, <1>14, <1>20, <1>21, <1>22, BankInv

\* A list holds nothing but what it held, and b.
Extends(b) ==
    \A s \in Store : \A k \in DOMAIN Active'[s] :
        \/ \E j \in DOMAIN Active[s] : Active'[s][k] = Active[s][j]
        \/ Active'[s][k] = b /\ StoreOf[b] = s

Shrinks == \A s \in Store : \A k \in DOMAIN Active'[s] : \E j \in DOMAIN Active[s] : Active'[s][k] = Active[s][j]

LEMMA RemoveFacts ==
    ASSUME Types, NEW s \in Store, NEW b, Active' = [Active EXCEPT ![s] = Without(@, b)]
    PROVE  /\ Active' \in [Store -> Seq(BankNo)] /\ Shrinks
           /\ \A c \in BankNo : Listed(c)' => Listed(c)
           /\ \A k \in DOMAIN Active'[s] : Active'[s][k] # b
  <1>1. Active \in [Store -> Seq(BankNo)] /\ Active[s] \in Seq(BankNo)
    BY DEF Types
  <1>2. PICK new : new = Without(Active[s], b)
    OBVIOUS
  <1>3. /\ new \in Seq(BankNo)
        /\ \A i \in DOMAIN new : new[i] # b /\ \E j \in DOMAIN Active[s] : new[i] = Active[s][j]
    BY <1>1, <1>2, WithoutFacts
  <1>4. Active' = [Active EXCEPT ![s] = new]
    BY <1>2
  <1>5. Active' \in [Store -> Seq(BankNo)] /\ Active'[s] = new /\ \A t \in Store : t # s => Active'[t] = Active[t]
    BY <1>1, <1>3, <1>4
  <1>6. Shrinks
    <2> SUFFICES ASSUME NEW t \in Store, NEW k \in DOMAIN Active'[t]
                 PROVE  \E j \in DOMAIN Active[t] : Active'[t][k] = Active[t][j]
      BY DEF Shrinks
    <2>1. CASE t = s
      BY <1>3, <1>5, <2>1
    <2>2. CASE t # s
      BY <1>5, <2>2
    <2> QED BY <2>1, <2>2
  <1>7. \A c \in BankNo : Listed(c)' => Listed(c)
    BY <1>6, StoreFacts DEF Shrinks, Listed
  <1> QED BY <1>3, <1>5, <1>6, <1>7

AddsOnly(new, q, b) == \A k \in DOMAIN new : new[k] = b \/ \E j \in DOMAIN q : new[k] = q[j]

LEMMA AddFacts ==
    ASSUME Types, NEW b \in BankNo, NEW s, s = StoreOf[b], NEW new \in Seq(BankNo),
           AddsOnly(new, Active[s], b), Active' = [Active EXCEPT ![s] = new]
    PROVE  /\ Active' \in [Store -> Seq(BankNo)] /\ Extends(b)
           /\ \A c \in BankNo : c # b /\ Listed(c)' => Listed(c)
  <1>1. Active \in [Store -> Seq(BankNo)] /\ s \in Store
    BY StoreFacts DEF Types
  <1>2. Active' \in [Store -> Seq(BankNo)] /\ Active'[s] = new /\ \A t \in Store : t # s => Active'[t] = Active[t]
    BY <1>1
  <1>3. Extends(b)
    <2> SUFFICES ASSUME NEW t \in Store, NEW k \in DOMAIN Active'[t]
                 PROVE  \/ \E j \in DOMAIN Active[t] : Active'[t][k] = Active[t][j]
                        \/ Active'[t][k] = b /\ StoreOf[b] = t
      BY DEF Extends
    <2>1. CASE t = s
      BY <1>2, <2>1 DEF AddsOnly
    <2>2. CASE t # s
      BY <1>2, <2>2
    <2> QED BY <2>1, <2>2
  <1>4. \A c \in BankNo : c # b /\ Listed(c)' => Listed(c)
    BY <1>3, StoreFacts DEF Extends, Listed
  <1> QED BY <1>2, <1>3, <1>4

LEMMA AppendFacts ==
    ASSUME NEW S, NEW q \in Seq(S), NEW b \in S
    PROVE  /\ Append(q, b) \in Seq(S) /\ AddsOnly(Append(q, b), q, b)
           /\ <<b>> \o q \in Seq(S) /\ AddsOnly(<<b>> \o q, q, b)
  <1>1. Append(q, b) \in Seq(S) /\ AddsOnly(Append(q, b), q, b)
    BY DEF AddsOnly
  <1>2. <<b>> \in Seq(S) /\ Len(<<b>>) = 1 /\ <<b>>[1] = b
    OBVIOUS
  <1>3. PICK a, n : a = <<b>> \o q /\ n = Len(q)
    OBVIOUS
  <1>4. n \in Nat /\ DOMAIN q = 1 .. n
    BY <1>3
  <1>5. a \in Seq(S) /\ Len(a) = 1 + n /\ a[1] = b /\ \A k \in 2 .. 1 + n : a[k] = q[k - 1]
    BY <1>2, <1>3
  <1>6. DOMAIN a = 1 .. 1 + n
    BY <1>5
  <1>7. ASSUME NEW k \in DOMAIN a, k # 1
        PROVE  \E j \in DOMAIN q : a[k] = q[j]
    <2>1. k \in 2 .. 1 + n /\ k - 1 \in 1 .. n
      BY <1>4, <1>6, <1>7
    <2> QED BY <1>4, <1>5, <2>1
  <1>8. AddsOnly(a, q, b)
    BY <1>5, <1>7 DEF AddsOnly
  <1> QED BY <1>1, <1>3, <1>5, <1>8

LEMMA ListedFacts ==
    ASSUME IInv, NEW b \in BankNo, Extends(b), ~ IsTBank(b), TBank' = TBank,
           \A c \in BankNo : c # b => Bank'[c] = Bank[c]
    PROVE  Lists'
  BY ListsKept DEF Extends

LEMMA UsedLess ==
    ASSUME TBank' = TBank, NEW c, Listed(c)' => Listed(c), Pending("Activate", c)' => Pending("Activate", c)
    PROVE  Used(c)' => Used(c)
  BY DEF Used, IsTBank

LEMMA ZeroKeeps ==
    ASSUME IInv, Zero
    PROVE  IInv' /\ Clears
  <1>1. PICK b, s : b = Head(todo)[2] /\ s = StoreOf[b]
    OBVIOUS
  <1>2. /\ Doing("Zero") /\ UNCHANGED <<TBank, Sequence, request>>
        /\ Active' = [Active EXCEPT ![s] = Without(@, b)]
        /\ IF Bank[b].DeviceError THEN Then(<<>>) /\ UNCHANGED <<nv, Bank, errors>>
           ELSE IF Bank[b].Header.Signature
           THEN /\ WriteHeader(b, NoHeader)
                /\ Then(IF Bank'[b].DeviceError THEN <<>> ELSE AfterZero(b))
           ELSE Then(AfterZero(b)) /\ UNCHANGED <<nv, Bank, errors>>
    BY <1>1, Zenon DEF Zero, caller, Arg
  <1>3. "Zero" \in Clearing
    BY DEF Clearing
  <1>4. b \in BankNo /\ ~ IsTBank(b) /\ Types /\ s \in Store
    BY <1>1, <1>2, <1>3, BehindClearing, StoreFacts DEF IInv
  <1>5. \A f : In(f, Tail(todo)) => /\ StepOK(f) /\ In(f, todo)
                                    /\ f[1] \in {"AddBank", "Scan", "BankState", "Activate"} \/ f[1] \notin Working
    BY <1>2, <1>3, BehindClearing
  <1>6. /\ Active' \in [Store -> Seq(BankNo)] /\ Shrinks /\ \A c \in BankNo : Listed(c)' => Listed(c)
    BY <1>2, <1>4, RemoveFacts
  <1>7. PICK n : n = <<"Erase", b>>
    OBVIOUS
  <1>8. n \in Frame /\ n[1] = "Erase" /\ n[2] = b
    BY <1>4, <1>7, BankFrame DEF OnBank
  <1>9. /\ todo' \in Seq(Frame) /\ InOrder(todo')
        /\ \A f : In(f, Tail(todo)) => In(f, todo')
        /\ \A f : In(f, todo') => In(f, Tail(todo)) \/ f = n
    <2>1. Then(<<>>) \/ Then(AfterZero(b))
      BY <1>2
    <2>2. CASE Then(<<>>)
      BY <1>2, <2>2, ThenNothing
    <2>3. CASE Then(AfterZero(b))
      <3>1. Then(<<n>>)
        BY <1>7, <2>3 DEF AfterZero
      <3>2. \A f : In(f, Tail(todo)) => Before(n, f)
        BY <1>2, <1>3, <1>8, BehindClearing DEF Clearing
      <3> QED BY <1>2, <1>8, <3>1, <3>2, ThenOne
    <2> QED BY <2>1, <2>2, <2>3
  <1>10. ASSUME NEW f, In(f, todo')
         PROVE  StepOK(f)'
    <2>1. CASE In(f, Tail(todo))
      BY <1>2, <1>5, <2>1, PlainKept
    <2>2. CASE f = n
      <3>1. ~ IsTBank(b)'
        BY <1>2, <1>4 DEF IsTBank
      <3> QED BY <1>8, <2>2, <3>1 DEF StepOK, Clearing
    <2> QED BY <1>9, <1>10, <2>1, <2>2
  <1>11. \A x, c : Pending(x, c) => Pending(x, c)' \/ (x = "Zero" /\ c = b)
    BY <1>1, <1>2, <1>9, PendingBehind
  <1>12. \A c : StillPending(c)
    BY <1>11 DEF StillPending
  <1>13. \A f : In(f, todo') => In(f, todo) \/ f[1] # "Activate"
    BY <1>5, <1>8, <1>9
  <1>14. \A c \in BankNo : Used(c)' => Used(c)
    <2>1. \A c : Pending("Activate", c)' => Pending("Activate", c)
      BY <1>13, PendingFacts, PendingFactsPrime
    <2> QED BY <1>2, <1>6, <2>1, UsedLess
  <1>15. HeaderOK(b) /\ LogOK(b)
    BY <1>4 DEF IInv, Synced
  <1>16. CASE nv' = nv /\ Bank' = Bank
    <2>1. Types'
      BY <1>2, <1>4, <1>6, <1>9, <1>16 DEF Types, IsRecord
    <2>2. \A c \in BankNo : SameBank(c)
      BY <1>16 DEF SameBank
    <2>3. Lists'
      <3>1. Bank'[b].Log = Bank[b].Log /\ \A c \in BankNo : c # b => Bank'[c] = Bank[c]
        BY <1>16
      <3> QED BY <1>2, <1>4, <1>6, <3>1, ListsKept DEF Shrinks
    <2>4. HeaderOK(b)' /\ LogOK(b)'
      <3>1. nv'[b] = nv[b] /\ Bank'[b] = Bank[b] /\ (Used(b)' => Used(b))
        BY <1>4, <1>14, <1>16
      <3>2. \A op \in {"AddBank", "Scan", "Data", "NewHeader"} : Pending(op, b) => Pending(op, b)'
        BY <1>12 DEF StillPending
      <3> QED BY <1>4, <1>15, <3>1, <3>2, SyncKept
    <2>5. nv'[b] = nv[b]
      BY <1>16
    <2> QED BY <1>4, <1>9, <1>10, <1>12, <1>14, <2>1, <2>2, <2>3, <2>4, <2>5, BankInv
  <1>17. CASE WriteHeader(b, NoHeader) /\ ~ Bank[b].DeviceError
    <2>1. PICK r, img : r = [Bank[b] EXCEPT !.Header = NoHeader] /\ img = [nv[b] EXCEPT !.Header = NoHeader]
      OBVIOUS
    <2>2. IsRecord(Bank[b]) /\ nv[b] \in Image /\ NoHeader \in Header
      BY <1>4, TypeFacts, HeaderFacts
    <2>3. IsRecord(r) /\ r.Header = NoHeader /\ r.Log = Bank[b].Log
      BY <2>1, <2>2, HeaderRecord
    <2>4. img \in Image /\ img.Header = NoHeader /\ img.Log = nv[b].Log
      BY <2>1, <2>2, ImageFacts
    <2>5. Write(b, r, img)
      BY <1>17, <2>1 DEF WriteHeader
    <2>6. Types'
      <3>1. Sequence' \in [Store -> 0 .. VARH_MAX_SEQUENCE] /\ TBank' = TBank
        BY <1>2, <1>4 DEF Types
      <3> QED BY <1>4, <1>6, <1>9, <2>3, <2>4, <2>5, <3>1, WriteTypes
    <2>7. /\ \A c \in BankNo : c # b => nv'[c] = nv[c] /\ Bank'[c] = Bank[c]
          /\ Bank'[b].Header = NoHeader /\ Bank'[b].Log = Bank[b].Log
          /\ nv'[b] = nv[b] \/ nv'[b] = img
          /\ Kept(b)' => nv'[b] = img
      BY <1>4, <2>3, <2>4, <2>5, WriteFacts
    <2>8. Lists'
      <3>1. Bank'[b].Log = Bank[b].Log /\ \A c \in BankNo : c # b => Bank'[c] = Bank[c]
        BY <2>7
      <3> QED BY <1>2, <1>4, <1>6, <3>1, ListsKept DEF Shrinks
    <2>9. HeaderOK(b)'
      BY <2>4, <2>7 DEF HeaderOK
    <2>10. LogOK(b)'
      <3>1. Kept(b)' => Kept(b) /\ nv'[b].Log = nv[b].Log
        BY <1>17, <2>4, <2>7 DEF Kept
      <3>2. StillPending(b) /\ (Used(b)' => Used(b)) /\ Bank'[b].Log = Bank[b].Log
        BY <1>4, <1>12, <1>14, <2>7
      <3> QED BY <1>4, <1>15, <3>1, <3>2 DEF LogOK, StillPending
    <2>11. nv'[b] = nv[b] \/ OnlyClears(nv[b], nv'[b])
      BY <2>4, <2>7 DEF OnlyClears
    <2>12. \A c \in BankNo : c # b => SameBank(c) /\ StillPending(c) /\ (Used(c)' => Used(c))
      BY <1>12, <1>14, <2>7 DEF SameBank
    <2> QED BY <1>4, <1>9, <1>10, <2>6, <2>8, <2>9, <2>10, <2>11, <2>12, BankInv
  <1> QED BY <1>2, <1>16, <1>17

LEMMA NewHeaderKeeps ==
    ASSUME IInv, NewHeader
    PROVE  IInv' /\ Clears
  <1>1. PICK b, s : b = Head(todo)[2] /\ s = StoreOf[b]
    OBVIOUS
  <1>2. PICK q : q = NextSequence(Sequence[s])
    OBVIOUS
  <1>3. PICK h : h = [Signature |-> TRUE, Sequence |-> q, State |-> {}]
    OBVIOUS
  <1>4. PICK r, img : r = NewBankRecord([Blank EXCEPT !.Header = h]) /\ img = [nv[b] EXCEPT !.Header = h]
    OBVIOUS
  <1>5. /\ Doing("NewHeader") /\ Then(<<>>) /\ TBank' = TBank /\ request' = request
        /\ Sequence' = [Sequence EXCEPT ![s] = q]
        /\ Write(b, r, img)
        /\ Active' = IF Bank'[b].DeviceError THEN Active ELSE [Active EXCEPT ![s] = Append(@, b)]
    BY <1>1, <1>2, <1>3, <1>4, Zenon DEF NewHeader, caller, Arg
  <1>6. "NewHeader" \in Clearing
    BY DEF Clearing
  <1>7. b \in BankNo /\ ~ IsTBank(b) /\ Types /\ s \in Store
    BY <1>1, <1>5, <1>6, BehindClearing, StoreFacts DEF IInv
  <1>8. StoreOf[b] \in NonVolatile => nv[b] = Blank
    <2>1. StepOK(Head(todo)) /\ Head(todo)[1] = "NewHeader"
      BY <1>5, <1>6, BehindClearing
    <2> QED BY <1>1, <2>1 DEF StepOK
  <1>9. \A f : In(f, Tail(todo)) => /\ StepOK(f) /\ In(f, todo)
                                    /\ f[1] \in {"AddBank", "Scan", "BankState", "Activate"} \/ f[1] \notin Working
    BY <1>5, <1>6, BehindClearing
  <1>10. todo' \in Seq(Frame) /\ InOrder(todo') /\ \A f : In(f, todo') <=> In(f, Tail(todo))
    BY <1>5, ThenNothing
  <1>11. Sequence' \in [Store -> 0 .. VARH_MAX_SEQUENCE] /\ q \in 0 .. VARH_MAX_SEQUENCE
    <2>1. Sequence \in [Store -> 0 .. VARH_MAX_SEQUENCE] /\ Sequence[s] \in 0 .. VARH_MAX_SEQUENCE
      BY <1>7 DEF Types
    <2>2. q \in 0 .. VARH_MAX_SEQUENCE
      BY <1>2, <2>1, StoreAssumption DEF NextSequence
    <2> QED BY <1>5, <2>1, <2>2
  <1>12. h \in Header
    <2>1. PICK x \in BOOLEAN : x = TRUE
      OBVIOUS
    <2>2. [Signature |-> x, Sequence |-> q, State |-> {}] \in Header
      BY <1>11 DEF Header
    <2> QED BY <1>3, <2>1, <2>2, Zenon
  <1>13. nv[b] \in Image /\ Blank \in Image
    BY <1>7, TypeFacts, HeaderFacts
  <1>14. img \in Image /\ img.Header = h /\ img.Log = nv[b].Log
    BY <1>4, <1>12, <1>13, ImageFacts
  <1>15. IsRecord(r) /\ r.Header = h /\ r.Log = <<>>
    <2>1. PICK i : i = [Blank EXCEPT !.Header = h]
      OBVIOUS
    <2>2. i \in Image /\ i.Header = h
      BY <2>1, <1>12, <1>13, ImageFacts
    <2> QED BY <1>4, <2>1, <2>2, NewRecordFacts
  <1>16. /\ Active' \in [Store -> Seq(BankNo)] /\ Extends(b)
         /\ \A c \in BankNo : c # b /\ Listed(c)' => Listed(c)
    <2>1. CASE Active' = Active
      BY <1>7, <2>1 DEF Types, Extends, Listed
    <2>2. CASE Active' = [Active EXCEPT ![s] = Append(@, b)]
      <3>1. PICK new : new = Append(Active[s], b)
        OBVIOUS
      <3>2. Active[s] \in Seq(BankNo)
        BY <1>7 DEF Types
      <3>3. new \in Seq(BankNo) /\ AddsOnly(new, Active[s], b)
        BY <1>7, <3>1, <3>2, AppendFacts
      <3>4. Active' = [Active EXCEPT ![s] = new]
        BY <2>2, <3>1
      <3> QED BY <1>1, <1>7, <3>3, <3>4, AddFacts
    <2> QED BY <1>5, <2>1, <2>2
  <1>17. Types'
    BY <1>5, <1>7, <1>10, <1>11, <1>14, <1>15, <1>16, WriteTypes
  <1>18. /\ \A c \in BankNo : c # b => nv'[c] = nv[c] /\ Bank'[c] = Bank[c]
         /\ Bank'[b].Header = h /\ Bank'[b].Log = <<>>
         /\ nv'[b] = nv[b] \/ (nv'[b] = img /\ StoreOf[b] \in NonVolatile)
         /\ Kept(b)' => nv'[b] = img
    BY <1>5, <1>7, <1>14, <1>15, WriteFacts
  <1>19. Lists'
    <2>1. \A c \in BankNo : c # b => Bank'[c] = Bank[c]
      BY <1>18
    <2> QED BY <1>5, <1>7, <1>16, <2>1, ListedFacts
  <1>20. \A f : In(f, todo') => StepOK(f)'
    BY <1>5, <1>9, <1>10, PlainKept
  <1>21. \A x, c : Pending(x, c) => Pending(x, c)' \/ (x = "NewHeader" /\ c = b)
    BY <1>1, <1>5, <1>10, PendingBehind
  <1>22. \A c : c # b => StillPending(c)
    BY <1>21 DEF StillPending
  <1>23. \A c \in BankNo : c # b => (Used(c)' => Used(c))
    <2>1. \A c : Pending("Activate", c)' => Pending("Activate", c)
      BY <1>9, <1>10, PendingFacts, PendingFactsPrime
    <2> QED BY <1>5, <1>16, <2>1, UsedLess
  <1>24. HeaderOK(b)'
    BY <1>14, <1>18 DEF HeaderOK
  <1>25. LogOK(b)'
    <2>1. Kept(b)' => nv'[b].Log = <<>>
      BY <1>8, <1>14, <1>18, HeaderFacts DEF Kept
    <2> QED BY <1>18, <2>1 DEF LogOK
  <1>26. nv'[b] = nv[b] \/ OnlyClears(nv[b], nv'[b])
    <2> SUFFICES ASSUME nv'[b] # nv[b] PROVE OnlyClears(nv[b], nv'[b])
      OBVIOUS
    <2>1. nv[b] = Blank /\ nv'[b] = img
      BY <1>8, <1>18
    <2>2. nv[b].Header = NoHeader /\ nv[b].Log = <<>>
      BY <2>1, HeaderFacts
    <2> QED BY <1>14, <2>1, <2>2, ClearsBlank
  <1>27. \A c \in BankNo : c # b => SameBank(c) /\ StillPending(c) /\ (Used(c)' => Used(c))
    BY <1>18, <1>22, <1>23 DEF SameBank
  <1> QED BY <1>7, <1>10, <1>17, <1>19, <1>20, <1>24, <1>25, <1>26, <1>27, BankInv

\* RtVarUpdateState and the writing of a new entry.
LEMMA LogWrite ==
    ASSUME IInv, NEW op \in Updating, Doing(op), NEW b, b = Head(todo)[2],
           NEW log \in Seq(Entry), NEW n,
           Write(b, [Bank[b] EXCEPT !.Log = log, !.InUse = n], [nv[b] EXCEPT !.Log = log]),
           Len(Bank[b].Log) <= Len(log),
           \A i \in DOMAIN Bank[b].Log : \/ log[i] = Dead(Bank[b].Log[i].size)
                                         \/ log[i] = Bank[b].Log[i]
                                         \/ log[i] = Marked(Bank[b].Log[i], "trans"),
           todo' = Return("error") \/ Then(<<>>), UNCHANGED <<Active, TBank, Sequence, request>>
    PROVE  IInv' /\ Clears
  <1>1. op \in Working /\ op \notin {"AddBank", "Scan", "Data", "NewHeader", "Activate"}
    BY DEF Working, OnBank, Updating
  <1>2. b \in BankNo /\ Types /\ Lists /\ StepOK(Head(todo)) /\ Head(todo)[1] = op
    BY <1>1, BankTop DEF IInv
  <1>3. Listed(b)
    BY <1>2 DEF StepOK, Updating
  <1>4. ~ IsTBank(b)
    BY <1>2, <1>3, StoreFacts DEF Lists, Listed, IsTBank
  <1>5. \A f : In(f, Tail(todo)) => /\ StepOK(f) /\ f \in Frame /\ In(f, todo)
                                    /\ f[1] \in Updating \/ f[1] \notin Working
    BY <1>2, Top, Behind
  <1>6. \A c : \A x \in {"AddBank", "Scan", "Data", "NewHeader", "Activate"} : ~ Pending(x, c)
    <2> SUFFICES ASSUME NEW c, NEW x \in {"AddBank", "Scan", "Data", "NewHeader", "Activate"}
                 PROVE  ~ Pending(x, c)
      OBVIOUS
    <2>1. \A f : In(f, Tail(todo)) => f[1] # x
      BY <1>5 DEF Updating, Working, OnBank
    <2> QED BY <1>1, <2>1, NotPending
  <1>7. /\ todo' \in Seq(Frame) /\ InOrder(todo')
        /\ \A f : In(f, todo') => In(f, Tail(todo)) \/ (f[1] \notin Working /\ StepOK(f))
    <2>1. CASE Then(<<>>)
      BY <2>1, ThenNothing
    <2>2. CASE todo' = Return("error")
      <3>1. PICK f : f = <<"Return", "error">>
        OBVIOUS
      <3>2. f \in Frame /\ f[1] = "Return"
        BY <3>1, OtherFrames
      <3>3. f[1] \notin Working /\ StepOK(f)
        BY <3>2, DecisionStep DEF Working, OnBank
      <3>4. todo' = <<f>>
        BY <2>2, <3>1 DEF Return
      <3> QED BY <3>2, <3>3, <3>4, OneFacts
    <2> QED BY <2>1, <2>2
  <1>8. PICK r, img : r = [Bank[b] EXCEPT !.Log = log, !.InUse = n] /\ img = [nv[b] EXCEPT !.Log = log]
    OBVIOUS
  <1>9. IsRecord(Bank[b]) /\ nv[b] \in Image /\ Bank[b].Log \in Seq(Entry)
    BY <1>2, TypeFacts
  <1>10. IsRecord(r) /\ r.Header = Bank[b].Header /\ r.Log = log /\ r.DeviceError = Bank[b].DeviceError
    <2>1. PICK o : o = Bank[b]
      OBVIOUS
    <2>2. IsRecord(o) /\ r = WithLog(o, log, n)
      BY <1>8, <1>9, <2>1 DEF WithLog
    <2>3. IsRecord(r) /\ r.Header = o.Header /\ r.Log = log /\ r.DeviceError = o.DeviceError
      BY <2>2, LogRecord
    <2> QED BY <2>1, <2>3
  <1>11. img \in Image /\ img.Header = nv[b].Header /\ img.Log = log
    BY <1>8, <1>9, ImageFacts
  <1>12. Write(b, r, img)
    BY <1>8
  <1>13. Types'
    <2>1. Active' \in [Store -> Seq(BankNo)] /\ Sequence' \in [Store -> 0 .. VARH_MAX_SEQUENCE] /\ TBank' = TBank
      BY <1>2 DEF Types
    <2> QED BY <1>2, <1>7, <1>10, <1>11, <1>12, <2>1, WriteTypes
  <1>14. /\ \A c \in BankNo : c # b => nv'[c] = nv[c] /\ Bank'[c] = Bank[c]
         /\ Bank'[b].Header = Bank[b].Header /\ Bank'[b].Log = log
         /\ nv'[b] = nv[b] \/ (nv'[b] = img /\ StoreOf[b] \in NonVolatile /\ ~ Bank[b].DeviceError)
         /\ Kept(b)' => nv'[b] = img /\ ~ Bank[b].DeviceError
    BY <1>2, <1>10, <1>11, <1>12, WriteFacts
  <1>15. Lists'
    <2>1. \A s \in Store : \A k \in DOMAIN Active'[s] : \E j \in DOMAIN Active[s] : Active'[s][k] = Active[s][j]
      OBVIOUS
    <2>2. \A c \in BankNo : c # b => Bank'[c] = Bank[c]
      BY <1>14
    <2> QED BY <1>2, <1>4, <2>1, <2>2, ListsKept
  <1>16. DOMAIN Bank[b].Log \subseteq DOMAIN log
    BY <1>9
  <1>17. ASSUME NEW f, In(f, todo')
         PROVE  StepOK(f)'
    <2>1. CASE f[1] \notin Working
      BY <1>5, <1>7, <1>17, <2>1, DecisionKept
    <2>2. CASE In(f, Tail(todo)) /\ f[1] \in Updating
      <3>1. StepOK(f) /\ f \in Frame /\ f[1] \in {"Append", "Mark"}
        BY <1>5, <2>2 DEF Updating
      <3>2. f[2] \in BankNo /\ Listed(f[2]) /\ (f[1] = "Mark" => f[3] \in DOMAIN Bank[f[2]].Log)
        BY <3>1, FrameFacts DEF StepOK
      <3>3. Listed(f[2])'
        BY <3>2 DEF Listed
      <3>4. f[1] = "Mark" => f[3] \in DOMAIN Bank'[f[2]].Log
        BY <1>14, <1>16, <3>2
      <3> QED BY <3>1, <3>3, <3>4 DEF StepOK, Clearing
    <2> QED BY <1>5, <1>7, <1>17, <2>1, <2>2
  <1>18. \A c : StillPending(c)
    BY <1>6 DEF StillPending
  <1>19. \A c : Used(c)' => Used(c)
    <2>1. \A f : In(f, todo') => In(f, todo) \/ f[1] # "Activate"
      BY <1>5, <1>7 DEF Working, OnBank
    <2> QED BY <2>1, UsedKept
  <1>20. Kept(b) => nv[b].Header = Bank[b].Header /\ nv[b].Log = Bank[b].Log
    <2>1. HeaderOK(b) /\ LogOK(b) /\ Used(b)
      BY <1>2, <1>3 DEF IInv, Synced, Used
    <2> QED BY <1>2, <1>6, <2>1 DEF HeaderOK, LogOK
  <1>21. HeaderOK(b)' /\ LogOK(b)'
    <2>1. Kept(b)' => Kept(b)
      BY <1>14 DEF Kept
    <2> QED BY <1>11, <1>14, <1>20, <2>1 DEF HeaderOK, LogOK
  <1>22. nv'[b] = nv[b] \/ OnlyClears(nv[b], nv'[b])
    <2> SUFFICES ASSUME nv'[b] # nv[b] PROVE OnlyClears(nv[b], nv'[b])
      OBVIOUS
    <2>1. nv'[b] = img /\ Kept(b)
      BY <1>14 DEF Kept
    <2>2. nv[b].Log = Bank[b].Log
      BY <1>20, <2>1
    <2>3. PICK old, new : old = nv[b] /\ new = nv'[b]
      OBVIOUS
    <2>4. old \in Image /\ new \in Image /\ new.Header = old.Header /\ new.Log = log /\ old.Log = Bank[b].Log
      BY <1>9, <1>11, <2>1, <2>2, <2>3
    <2>5. Len(old.Log) <= Len(new.Log)
      BY <2>4
    <2>6. \A i \in DOMAIN old.Log : \/ new.Log[i] = Dead(old.Log[i].size)
                                    \/ new.Log[i] = old.Log[i]
                                    \/ new.Log[i] = Marked(old.Log[i], "trans")
      BY <2>4
    <2>7. OnlyClears(old, new)
      BY <2>4, <2>5, <2>6, ClearsLog
    <2> QED BY <2>3, <2>7
  <1>23. \A c \in BankNo : c # b => SameBank(c) /\ StillPending(c) /\ (Used(c)' => Used(c))
    BY <1>14, <1>18, <1>19 DEF SameBank
  <1> QED BY <1>2, <1>7, <1>13, <1>15, <1>17, <1>21, <1>22, <1>23, BankInv

\* An entry is appended where it can be found.
LEMMA AppendDone ==
    ASSUME IInv, AppendEntry
    PROVE  \E b, e, log, n :
              /\ b \in BankNo /\ e \in Entry
              /\ b = Head(todo)[2] /\ e = Head(todo)[3]
              /\ log = Append(Bank[b].Log, e) /\ n = Bank[b].InUse + e.size
              /\ Doing("Append") /\ UNCHANGED <<Active, TBank, Sequence, EfiAtRuntime, caller>>
              /\ Write(b, [Bank[b] EXCEPT !.Log = log, !.InUse = n], [nv[b] EXCEPT !.Log = log])
              /\ todo' = Return("error") \/ Then(<<>>)
  <1>1. PICK b, e : b = Head(todo)[2] /\ e = Head(todo)[3]
    OBVIOUS
  <1>2. Doing("Append") /\ "Append" \in Working
    BY DEF AppendEntry, Working
  <1>3. b \in BankNo /\ e \in Entry
    BY <1>1, <1>2, BankTop, FrameFacts
  <1>4. PICK log, n, r : /\ log = Append(Bank[b].Log, e) /\ n = Bank[b].InUse + e.size
                         /\ r = [Bank[b] EXCEPT !.Log = log, !.InUse = n]
    OBVIOUS
  <1>5. Bank[b].Gap = 0 /\ IsRecord(Bank[b]) /\ Bank[b].Log \in Seq(Entry)
    BY <1>3, TypeFacts DEF IInv
  <1>6. log \in Seq(Entry)
    BY <1>3, <1>4, <1>5
  <1>7. WithEntry(b, e) = r
    <2>1. WithEntry(b, e) = [Bank[b] EXCEPT !.Log = Append(@, e), !.InUse = @ + e.size]
      BY <1>5, Zenon DEF WithEntry
    <2>2. PICK H, L, U, E : H = Bank[b].Header /\ L = Bank[b].Log /\ U = Bank[b].InUse /\ E = Bank[b].DeviceError
      OBVIOUS
    <2>3. log = Append(Bank[b].Log, e) /\ n = Bank[b].InUse + e.size
      BY <1>4
    <2>4. Bank[b] = [Header |-> H, Log |-> L, InUse |-> U, Gap |-> 0, DeviceError |-> E]
      BY <1>5, <2>2, RecordFacts DEF RecordOf
    <2>5. PICK q : q = Bank[b]
      OBVIOUS
    <2>6. [q EXCEPT !.Log = Append(@, e), !.InUse = @ + e.size]
              = [q EXCEPT !.Log = Append(q.Log, e), !.InUse = q.InUse + e.size]
      <3>1. q = [Header |-> H, Log |-> L, InUse |-> U, Gap |-> 0, DeviceError |-> E]
        BY <2>4, <2>5
      <3>2. PICK y : y = [q EXCEPT !.Log = Append(q.Log, e)]
        OBVIOUS
      <3>3. y.InUse = q.InUse
        BY <3>1, <3>2
      <3> QED BY <3>1, <3>2, <3>3
    <2> QED BY <1>4, <2>1, <2>3, <2>5, <2>6, Zenon
  <1>8. r.Log = log
    <2>1. PICK o : o = Bank[b]
      OBVIOUS
    <2>2. IsRecord(o) /\ r = WithLog(o, log, n)
      BY <1>4, <1>5, <2>1 DEF WithLog
    <2> QED BY <1>6, <2>2, LogRecord
  <1>9. ~ (e.size > VAR_SIZE_MASK)
    <2>1. e.size \in 1 .. VAR_SIZE_MASK /\ VAR_SIZE_MASK \in Nat
      BY <1>3, EntryFacts, StoreAssumption
    <2> QED BY <2>1
  <1>10. /\ Write(b, r, [nv[b] EXCEPT !.Log = log]) /\ (todo' = Return("error") \/ Then(<<>>))
         /\ UNCHANGED <<Active, TBank, Sequence, EfiAtRuntime, caller>>
    BY <1>1, <1>7, <1>8, <1>9, Zenon DEF AppendEntry, Arg
  <1> QED BY <1>1, <1>2, <1>3, <1>4, <1>10

LEMMA AppendKeeps ==
    ASSUME IInv, AppendEntry
    PROVE  IInv' /\ Clears
  <1>1. PICK b, e, log, n :
              /\ b \in BankNo /\ e \in Entry
              /\ b = Head(todo)[2] /\ e = Head(todo)[3]
              /\ log = Append(Bank[b].Log, e) /\ n = Bank[b].InUse + e.size
              /\ Doing("Append") /\ UNCHANGED <<Active, TBank, Sequence, EfiAtRuntime, caller>>
              /\ Write(b, [Bank[b] EXCEPT !.Log = log, !.InUse = n], [nv[b] EXCEPT !.Log = log])
              /\ todo' = Return("error") \/ Then(<<>>)
    BY AppendDone, Zenon
  <1>3. UNCHANGED <<Active, TBank, Sequence, request>>
    BY <1>1 DEF caller
  <1>4. "Append" \in Updating
    BY DEF Updating
  <1>6. Bank[b].Log \in Seq(Entry)
    BY <1>1, TypeFacts DEF IInv
  <1>7. PICK q : q = Bank[b].Log
    OBVIOUS
  <1>8. log \in Seq(Entry) /\ Len(q) <= Len(log) /\ \A i \in DOMAIN q : log[i] = q[i]
    <2>1. e \in Entry /\ q \in Seq(Entry) /\ log = Append(q, e)
      BY <1>1, <1>6, <1>7
    <2> QED BY <2>1
  <1> QED BY <1>1, <1>3, <1>4, <1>7, <1>8, LogWrite

\* No bank is corrupt, so none is cut off.
LEMMA NotTruncated ==
    ASSUME IInv
    PROVE  ~ Doing("Truncate") /\ ~ Doing("Misread")
  <1> SUFFICES ASSUME NEW op \in {"Truncate", "Misread"}, Doing(op) PROVE FALSE
    OBVIOUS
  <1>1. Head(todo) \in Frame /\ Head(todo)[1] = op
    BY Top
  <1> QED BY <1>1 DEF Frame, OnBank

LEMMA MarkKeeps ==
    ASSUME IInv, Mark
    PROVE  IInv' /\ Clears
  <1>1. PICK b, i, st : b = Head(todo)[2] /\ i = Head(todo)[3] /\ st = Head(todo)[4]
    OBVIOUS
  <1>2. PICK e, n : e = Bank[b].Log[i] /\ n = Bank[b].InUse - Freed(Bank[b].Log[i], st)
    OBVIOUS
  <1>3. PICK log : log = [Bank[b].Log EXCEPT ![i] = Marked(e, st)]
    OBVIOUS
  <1>4. /\ Doing("Mark") /\ UNCHANGED <<Active, TBank, Sequence, request>>
        /\ Write(b, [Bank[b] EXCEPT !.Log = log, !.InUse = n], [nv[b] EXCEPT !.Log = log])
        /\ todo' = Return("error") \/ Then(<<>>)
    BY <1>1, <1>2, <1>3, Zenon DEF Mark, caller, Arg
  <1>5. "Mark" \in Working /\ "Mark" \in Updating
    BY DEF Working, Updating
  <1>6. b \in BankNo /\ i \in Nat /\ st \in {"trans", "dead"} /\ i \in DOMAIN Bank[b].Log
    <2>1. Head(todo)[2] \in BankNo /\ Head(todo)[1] = "Mark" /\ StepOK(Head(todo)) /\ Head(todo) \in Frame
      BY <1>4, <1>5, BankTop
    <2>2. i \in Nat /\ st \in {"trans", "dead"}
      BY <1>1, <2>1, FrameFacts
    <2>3. i \in DOMAIN Bank[b].Log
      BY <1>1, <2>1 DEF StepOK
    <2> QED BY <1>1, <2>1, <2>2, <2>3
  <1>7. PICK q : q = Bank[b].Log
    OBVIOUS
  <1>8. q \in Seq(Entry) /\ e \in Entry
    BY <1>2, <1>6, <1>7, TypeFacts DEF IInv
  <1>9. PICK m : m = Marked(e, st)
    OBVIOUS
  <1>10. m \in Entry
    BY <1>6, <1>8, <1>9, EntryFacts
  <1>11. log = [q EXCEPT ![i] = m]
    BY <1>3, <1>7, <1>9
  <1>12. log \in Seq(Entry) /\ Len(q) <= Len(log) /\ log[i] = m /\ \A j \in DOMAIN q : j # i => log[j] = q[j]
    BY <1>6, <1>7, <1>8, <1>10, <1>11
  <1>13. m = Dead(q[i].size) \/ m = Marked(q[i], "trans")
    BY <1>2, <1>6, <1>7, <1>9 DEF Marked
  <1>14. \A j \in DOMAIN q : \/ log[j] = Dead(q[j].size)
                             \/ log[j] = q[j]
                             \/ log[j] = Marked(q[j], "trans")
    BY <1>12, <1>13
  <1> QED BY <1>1, <1>4, <1>5, <1>7, <1>12, <1>14, LogWrite

LEMMA FourFacts ==
    ASSUME NEW f \in Frame, NEW g \in Frame, NEW h \in Frame, NEW k \in Frame
    PROVE  /\ <<f, g, h, k>> \in Seq(Frame)
           /\ \A x : In(x, <<f, g, h, k>>) <=> x = f \/ x = g \/ x = h \/ x = k
           /\ (/\ Before(f, g) /\ Before(f, h) /\ Before(f, k)
               /\ Before(g, h) /\ Before(g, k) /\ Before(h, k)) => InOrder(<<f, g, h, k>>)
  <1>1. /\ <<f, g, h, k>> \in Seq(Frame) /\ DOMAIN <<f, g, h, k>> = 1 .. 4 /\ <<f, g, h, k>>[1] = f
        /\ <<f, g, h, k>>[2] = g /\ <<f, g, h, k>>[3] = h /\ <<f, g, h, k>>[4] = k
    OBVIOUS
  <1>2. \A i \in 1 .. 4 : i = 1 \/ i = 2 \/ i = 3 \/ i = 4
    OBVIOUS
  <1>3. PICK t : t = <<f, g, h, k>>
    OBVIOUS
  <1>4. t \in Seq(Frame) /\ DOMAIN t = 1 .. 4 /\ t[1] = f /\ t[2] = g /\ t[3] = h /\ t[4] = k
    BY <1>1, <1>3
  <1>5. \A x : In(x, t) <=> x = f \/ x = g \/ x = h \/ x = k
    BY <1>2, <1>4 DEF In
  <1>6. ASSUME Before(f, g), Before(f, h), Before(f, k), Before(g, h), Before(g, k), Before(h, k),
               NEW i \in 1 .. 4, NEW j \in 1 .. 4, i < j
        PROVE  Before(t[i], t[j])
    <2>1. \/ i = 1 /\ j \in {2, 3, 4}
          \/ i = 2 /\ j \in {3, 4}
          \/ i = 3 /\ j = 4
      BY <1>6
    <2>2. CASE i = 1 /\ j \in {2, 3, 4}
      BY <2>2, <1>4, <1>6
    <2>3. CASE i = 2 /\ j \in {3, 4}
      BY <2>3, <1>4, <1>6
    <2>4. CASE i = 3 /\ j = 4
      BY <2>4, <1>4, <1>6
    <2> QED BY <2>1, <2>2, <2>3, <2>4
  <1>7. ASSUME Before(f, g), Before(f, h), Before(f, k), Before(g, h), Before(g, k), Before(h, k)
        PROVE  InOrder(t)
    <2>1. \A i \in 1 .. 4 : \A j \in 1 .. 4 : i < j => Before(t[i], t[j])
      BY <1>6, <1>7
    <2> QED BY <1>4, <2>1 DEF InOrder
  <1> QED BY <1>3, <1>4, <1>5, <1>7

\* The steps of a change-over.
LEMMA OverFacts ==
    ASSUME NEW old \in BankNo, NEW new \in BankNo
    PROVE  /\ ChangeOver(old, new) \in Seq(Frame) /\ InOrder(ChangeOver(old, new))
           /\ \A f : In(f, ChangeOver(old, new)) =>
                 \/ f[1] = "BankState" \/ f = <<"Zero", old>>
                 \/ f = <<"Data", new>> \/ f = <<"Activate", new>>
           /\ In(<<"Data", new>>, ChangeOver(old, new))
  <1>1. PICK a1, a2, a3, a4 : /\ a1 = <<"BankState", new, "ADD_TRANSITION">>
                              /\ a2 = <<"Data", new>>
                              /\ a3 = <<"BankState", old, "OBSOLETE_TRANSITION">>
                              /\ a4 = <<"BankState", new, "INUSE_TRANSITION">>
    OBVIOUS
  <1>2. PICK z, e1, e2 : /\ z = <<"Zero", old>>
                         /\ e1 = <<"BankState", new, "INUSE">>
                         /\ e2 = <<"Activate", new>>
    OBVIOUS
  <1>3. a1 \in Frame /\ a3 \in Frame /\ a4 \in Frame /\ e1 \in Frame
    BY <1>1, <1>2, StateFrame DEF BankState
  <1>4. a2 \in Frame /\ z \in Frame /\ e2 \in Frame
    BY <1>1, <1>2, BankFrame DEF OnBank
  <1>5. /\ a1[1] = "BankState" /\ a2[1] = "Data" /\ a3[1] = "BankState" /\ a4[1] = "BankState"
        /\ z[1] = "Zero" /\ e1[1] = "BankState" /\ e2[1] = "Activate"
    BY <1>1, <1>2
  <1>6. \A f, g : /\ f[1] \in {"BankState", "Data", "Zero"} /\ g[1] \in {"BankState", "Activate"} => Before(f, g)
                  /\ f[1] \in {"BankState", "Data"} /\ g[1] = "Zero" => Before(f, g)
                  /\ f[1] = "BankState" /\ g[1] = "Data" => Before(f, g)
    BY DEF Before, Clearing, Changing, Updating
  <1>7. PICK a, c, e : a = <<a1, a2, a3, a4>> /\ c = <<z>> /\ e = <<e1, e2>>
    OBVIOUS
  <1>8. a \in Seq(Frame) /\ \A f : In(f, a) <=> f = a1 \/ f = a2 \/ f = a3 \/ f = a4
    BY <1>3, <1>4, <1>7, FourFacts
  <1>9. InOrder(a)
    <2>1. /\ Before(a1, a2) /\ Before(a1, a3) /\ Before(a1, a4)
          /\ Before(a2, a3) /\ Before(a2, a4) /\ Before(a3, a4)
      BY <1>5, <1>6
    <2> QED BY <1>3, <1>4, <1>7, <2>1, FourFacts
  <1>10. c \in Seq(Frame) /\ InOrder(c) /\ \A f : In(f, c) <=> f = z
    BY <1>4, <1>7, OneFacts
  <1>11. e \in Seq(Frame) /\ InOrder(e) /\ \A f : In(f, e) <=> f = e1 \/ f = e2
    <2>1. Before(e1, e2)
      BY <1>5, <1>6
    <2> QED BY <1>3, <1>4, <1>7, <2>1, TwoFacts
  <1>12. PICK ac : ac = a \o c
    OBVIOUS
  <1>13. ac \in Seq(Frame) /\ InOrder(ac) /\ \A f : In(f, ac) <=> In(f, a) \/ In(f, c)
    <2>1. \A f, g : In(f, a) /\ In(g, c) => Before(f, g)
      BY <1>5, <1>6, <1>8, <1>10
    <2> QED BY <1>8, <1>9, <1>10, <1>12, <2>1, CatFacts
  <1>14. /\ ac \o e \in Seq(Frame) /\ InOrder(ac \o e)
         /\ \A f : In(f, ac \o e) <=> In(f, ac) \/ In(f, e)
    <2>1. \A f, g : In(f, ac) /\ In(g, e) => Before(f, g)
      <3>1. \A f : In(f, ac) => f[1] \in {"BankState", "Data", "Zero"}
        BY <1>5, <1>8, <1>10, <1>13
      <3>2. \A g : In(g, e) => g[1] \in {"BankState", "Activate"}
        BY <1>5, <1>11
      <3> QED BY <1>6, <3>1, <3>2
    <2> QED BY <1>11, <1>13, <2>1, CatFacts
  <1>15. ChangeOver(old, new) = ac \o e
    BY <1>1, <1>2, <1>7, <1>12 DEF ChangeOver, ClearStore
  <1>16. PICK t : t = ac \o e
    OBVIOUS
  <1>17. t \in Seq(Frame) /\ InOrder(t) /\ \A f : In(f, t) <=> f \in {a1, a2, a3, a4, z, e1, e2}
    BY <1>8, <1>10, <1>11, <1>13, <1>14, <1>16
  <1>18. \A f : In(f, t) => f[1] = "BankState" \/ f = z \/ f = a2 \/ f = e2
    BY <1>5, <1>17
  <1> QED BY <1>1, <1>2, <1>15, <1>16, <1>17, <1>18

\* RtVarGarbageCollectBank copies to the transaction bank in memory.
LEMMA CollectKeeps ==
    ASSUME IInv, Collect
    PROVE  IInv' /\ Clears
  <1>1. PICK old, s : old = Head(todo)[2] /\ s = StoreOf[old]
    OBVIOUS
  <1>2. PICK new : new = TBank[s]
    OBVIOUS
  <1>3. PICK log : log = Moved(old, new)
    OBVIOUS
  <1>4. /\ Doing("Collect") /\ UNCHANGED <<nv, Active, Sequence, request>>
        /\ TBank' = [TBank EXCEPT ![s] = NoBank]
        /\ IF new = NoBank THEN Then(<<>>) /\ UNCHANGED Bank
           ELSE /\ Bank' = [Bank EXCEPT ![new].Log = log, ![new].InUse = Tail_(log)]
                /\ Then(ChangeOver(old, new))
    BY <1>1, <1>2, <1>3, Zenon DEF Collect, caller, Arg
  <1>5. "Collect" \in Working
    BY DEF Working, OnBank
  <1>6. old \in BankNo /\ Types /\ Lists /\ s \in Store /\ Head(todo)[1] = "Collect"
    BY <1>1, <1>4, <1>5, BankTop, StoreFacts DEF IInv
  <1>7. \A f : In(f, Tail(todo)) => f[1] \notin Working /\ StepOK(f) /\ In(f, todo)
    BY <1>4, <1>6, Top, Behind
  <1>8. \A c : \A x \in {"AddBank", "Scan", "Data", "NewHeader", "Activate"} : ~ Pending(x, c)
    <2> SUFFICES ASSUME NEW c, NEW x \in {"AddBank", "Scan", "Data", "NewHeader", "Activate"}
                 PROVE  ~ Pending(x, c)
      OBVIOUS
    <2>1. x # "Collect" /\ \A f : In(f, Tail(todo)) => f[1] # x
      BY <1>7 DEF Working, OnBank
    <2> QED BY <1>4, <2>1, NotPending
  <1>9. \A c : StillPending(c)
    BY <1>8 DEF StillPending
  <1>10. TBank \in [Store -> BankNo \cup {NoBank}] /\ TBank' \in [Store -> BankNo \cup {NoBank}]
    BY <1>4, <1>6 DEF Types
  <1>11. TBank'[s] = NoBank /\ \A u \in Store : u # s => TBank'[u] = TBank[u]
    BY <1>4, <1>6, <1>10
  <1>12. \A c \in BankNo : IsTBank(c)' => IsTBank(c)
    BY <1>11, StoreFacts DEF IsTBank
  <1>13. CASE new = NoBank
    <2>1. nv' = nv /\ Bank' = Bank /\ Active' = Active /\ Sequence' = Sequence /\ Then(<<>>) /\ TBank' = TBank
      BY <1>2, <1>4, <1>6, <1>10, <1>13
    <2>2. todo' \in Seq(Frame) /\ InOrder(todo') /\ \A f : In(f, todo') <=> In(f, Tail(todo))
      BY <1>4, <2>1, ThenNothing
    <2>3. Types'
      BY <1>6, <2>1, <2>2 DEF Types, IsRecord
    <2>4. Lists'
      BY <1>6, <2>1 DEF Lists
    <2>5. \A f : In(f, todo') => StepOK(f)'
      BY <1>4, <1>7, <2>2, DecisionKept
    <2>6. \A c : Used(c)' => Used(c)
      BY <1>4, <1>7, <2>1, <2>2, UsedKept
    <2>7. \A c \in BankNo : SameBank(c)
      BY <2>1 DEF SameBank
    <2>8. NoBank \notin BankNo
      BY StoreFacts
    <2> QED BY <1>6, <1>9, <2>2, <2>3, <2>4, <2>5, <2>6, <2>7, <2>8, BankInv
  <1>14. CASE new # NoBank
    <2>1. new \in BankNo /\ IsTBank(new) /\ StoreOf[new] = s /\ Bank[new].Log = <<>>
      BY <1>2, <1>6, <1>10, <1>14 DEF Lists, IsTBank
    <2>2. Bank' = [Bank EXCEPT ![new].Log = log, ![new].InUse = Tail_(log)] /\ Then(ChangeOver(old, new))
      BY <1>4, <1>14
    <2>3. PICK over : over = ChangeOver(old, new)
      OBVIOUS
    <2>4. /\ over \in Seq(Frame) /\ InOrder(over)
          /\ \A f : In(f, over) => \/ f[1] = "BankState" \/ f = <<"Zero", old>>
                                   \/ f = <<"Data", new>> \/ f = <<"Activate", new>>
          /\ In(<<"Data", new>>, over)
      BY <1>6, <2>1, <2>3, OverFacts
    <2>5. \A f, g : In(f, over) /\ In(g, Tail(todo)) => Before(f, g)
      BY <1>7, BeforeDecision
    <2>6. /\ todo' \in Seq(Frame) /\ InOrder(todo')
          /\ \A f : In(f, todo') <=> In(f, over) \/ In(f, Tail(todo))
      <3>1. Then(over)
        BY <2>2, <2>3
      <3> QED BY <1>4, <2>4, <2>5, <3>1, ThenFacts
    <2>7. log \in Seq(Entry)
      <3>1. Bank[old].Log \in Seq(Entry) /\ Bank[new].Log \in Seq(Entry)
        BY <1>6, <2>1, TypeFacts
      <3> QED BY <1>3, <3>1, MovedFacts
    <2>8. /\ DOMAIN Bank' = BankNo /\ \A c \in BankNo : c # new => Bank'[c] = Bank[c]
          /\ Bank'[new] = WithLog(Bank[new], log, Tail_(log))
      <3>1. DOMAIN Bank = BankNo
        BY <1>6 DEF Types
      <3>2. PICK n : n = Tail_(log)
        OBVIOUS
      <3>3. PICK B : B = [Bank EXCEPT ![new].Log = log]
        OBVIOUS
      <3>4. DOMAIN B = BankNo /\ B[new] = [Bank[new] EXCEPT !.Log = log] /\ \A c \in BankNo : c # new => B[c] = Bank[c]
        BY <2>1, <3>1, <3>3
      <3>5. Bank' = [B EXCEPT ![new].InUse = n]
        BY <2>2, <3>2, <3>3
      <3>6. DOMAIN Bank' = BankNo /\ Bank'[new] = [B[new] EXCEPT !.InUse = n] /\ \A c \in BankNo : c # new => Bank'[c] = B[c]
        BY <2>1, <3>4, <3>5
      <3>7. Bank'[new] = WithLog(Bank[new], log, n)
        BY <3>4, <3>6 DEF WithLog
      <3> QED BY <3>2, <3>4, <3>6, <3>7
    <2>9. /\ IsRecord(Bank'[new]) /\ Bank'[new].Header = Bank[new].Header /\ Bank'[new].Log = log
          /\ Bank'[new].DeviceError = Bank[new].DeviceError
      <3>1. IsRecord(Bank[new])
        BY <1>6, <2>1, TypeFacts
      <3> QED BY <2>7, <2>8, <3>1, LogRecord
    <2>10. Types'
      <3>1. \A c \in BankNo : IsRecord(Bank'[c])
        BY <1>6, <2>8, <2>9, TypeFacts
      <3>2. nv' \in [BankNo -> Image] /\ Active' \in [Store -> Seq(BankNo)] /\ Sequence' \in [Store -> 0 .. VARH_MAX_SEQUENCE]
        BY <1>4, <1>6 DEF Types
      <3> QED BY <1>10, <2>6, <2>8, <3>1, <3>2 DEF Types, IsRecord
    <2>11. Lists'
      <3> SUFFICES ASSUME NEW u \in Store
                   PROVE  /\ \A k \in DOMAIN Active'[u] : StoreOf[Active'[u][k]] = u /\ Active'[u][k] # TBank'[u]
                          /\ TBank'[u] # NoBank => StoreOf[TBank'[u]] = u /\ Bank'[TBank'[u]].Log = <<>>
        BY DEF Lists
      <3>1. /\ \A k \in DOMAIN Active[u] : StoreOf[Active[u][k]] = u /\ Active[u][k] # TBank[u]
            /\ TBank[u] # NoBank => StoreOf[TBank[u]] = u /\ Bank[TBank[u]].Log = <<>>
        BY <1>6 DEF Lists
      <3>2. CASE u = s
        <4>1. \A k \in DOMAIN Active[u] : Active[u][k] # NoBank
          BY <1>6, StoreFacts DEF Types
        <4> QED BY <1>4, <1>11, <3>1, <3>2, <4>1
      <3>3. CASE u # s
        <4>1. TBank'[u] = TBank[u] /\ Active'[u] = Active[u]
          BY <1>4, <1>11, <3>3
        <4>2. TBank[u] # NoBank => TBank[u] # new /\ TBank[u] \in BankNo
          BY <1>10, <2>1, <3>1, <3>3
        <4> QED BY <2>8, <3>1, <4>1, <4>2
      <3> QED BY <3>2, <3>3
    <2>12. HeaderOK(new) /\ LogOK(new)
      BY <2>1 DEF IInv, Synced
    <2>13. Kept(new)' => nv'[new].Log = <<>> /\ nv'[new].Header = Bank'[new].Header
      <3>1. (Kept(new)' => Kept(new)) /\ nv'[new] = nv[new]
        BY <1>4, <2>9 DEF Kept
      <3>2. Used(new)
        BY <2>1 DEF Used
      <3>3. Kept(new) => nv[new].Log = <<>> /\ nv[new].Header = Bank[new].Header
        BY <1>6, <1>8, <2>1, <2>12, <3>2 DEF HeaderOK, LogOK
      <3> QED BY <2>9, <3>1, <3>3
    <2>14. ASSUME NEW f, In(f, todo')
           PROVE  StepOK(f)'
      <3>0. ~ IsTBank(old)' /\ ~ IsTBank(new)'
        BY <1>1, <1>6, <1>11, <2>1, StoreFacts DEF IsTBank
      <3>1. CASE In(f, Tail(todo))
        BY <1>4, <1>7, <3>1, DecisionKept
      <3>2. CASE f[1] = "BankState"
        BY <3>2 DEF StepOK, Clearing
      <3>3. CASE f = <<"Zero", old>>
        <4>1. f[1] = "Zero" /\ f[2] = old
          BY <3>3
        <4> QED BY <3>0, <4>1 DEF StepOK, Clearing
      <3>4. CASE f = <<"Data", new>>
        <4>1. f[1] = "Data" /\ f[2] = new
          BY <3>4
        <4> QED BY <2>13, <3>0, <4>1 DEF StepOK, Clearing
      <3>5. CASE f = <<"Activate", new>>
        <4>1. f[1] = "Activate" /\ f[2] = new
          BY <3>5
        <4> QED BY <3>0, <4>1 DEF StepOK, Clearing
      <3> QED BY <2>4, <2>6, <2>14, <3>1, <3>2, <3>3, <3>4, <3>5
    <2>15. \A c \in BankNo : c # new => (Used(c)' => Used(c))
      <3> SUFFICES ASSUME NEW c \in BankNo, c # new PROVE Used(c)' => Used(c)
        OBVIOUS
      <3>1. ASSUME NEW f, In(f, todo'), f[1] = "Activate", f[2] = c
            PROVE  FALSE
        <4>1. In(f, over)
          BY <1>7, <2>6, <3>1 DEF Working, OnBank
        <4>2. f = <<"Zero", old>> \/ f = <<"Data", new>> \/ f = <<"Activate", new>>
          BY <2>4, <3>1, <4>1
        <4> QED BY <3>1, <4>2
      <3>2. ~ Pending("Activate", c)'
        BY <3>1, PendingFactsPrime
      <3> QED BY <1>4, <1>12, <3>2 DEF Used, Listed
    <2>16. Pending("Data", new)'
      <3>1. PICK d : d = <<"Data", new>>
        OBVIOUS
      <3>2. In(d, todo') /\ d[1] = "Data" /\ d[2] = new
        BY <2>4, <2>6, <3>1
      <3> QED BY <3>2, PendingFactsPrime
    <2>17. HeaderOK(new)' /\ LogOK(new)'
      BY <2>13, <2>16 DEF HeaderOK, LogOK
    <2>18. nv'[new] = nv[new] /\ \A c \in BankNo : c # new => SameBank(c)
      BY <1>4, <2>8 DEF SameBank
    <2> QED BY <1>6, <1>9, <2>6, <2>10, <2>11, <2>14, <2>15, <2>17, <2>18, BankInv
  <1> QED BY <1>13, <1>14

\* The bank takes its place on the list.
LEMMA ActivateKeeps ==
    ASSUME IInv, Activate
    PROVE  IInv' /\ Clears
  <1>1. PICK b, s : b = Head(todo)[2] /\ s = StoreOf[b]
    OBVIOUS
  <1>2. PICK new, n : new = Append(Active[s], b) /\ n = <<"GetTBank", s>>
    OBVIOUS
  <1>3. /\ Doing("Activate") /\ UNCHANGED <<nv, Bank, TBank, Sequence, request>>
        /\ Active' = [Active EXCEPT ![s] = new] /\ Then(<<n>>)
    BY <1>1, <1>2, Zenon DEF Activate, Activated, caller, Arg
  <1>4. "Activate" \in Working
    BY DEF Working, OnBank
  <1>5. /\ b \in BankNo /\ Types /\ Lists /\ s \in Store
        /\ Head(todo)[1] = "Activate" /\ StepOK(Head(todo))
    BY <1>1, <1>3, <1>4, BankTop, StoreFacts DEF IInv
  <1>6. ~ IsTBank(b)
    BY <1>1, <1>5 DEF StepOK
  <1>7. \A f : In(f, Tail(todo)) => f[1] \notin Working /\ StepOK(f) /\ In(f, todo)
    BY <1>3, <1>5, Top, Behind
  <1>8. n \in Frame /\ n[1] = "GetTBank"
    BY <1>2, <1>5, StoreFrame
  <1>9. n[1] \notin Working /\ StepOK(n)
    BY <1>8, DecisionStep DEF Working, OnBank
  <1>10. todo' \in Seq(Frame) /\ InOrder(todo') /\ \A f : In(f, todo') <=> f = n \/ In(f, Tail(todo))
    BY <1>3, <1>7, <1>8, BeforeDecision, ThenOne
  <1>11. /\ Active' \in [Store -> Seq(BankNo)] /\ Extends(b)
         /\ \A c \in BankNo : c # b /\ Listed(c)' => Listed(c)
    <2>1. Active[s] \in Seq(BankNo)
      BY <1>5 DEF Types
    <2>2. new \in Seq(BankNo) /\ AddsOnly(new, Active[s], b)
      BY <1>2, <1>5, <2>1, AppendFacts
    <2> QED BY <1>1, <1>3, <1>5, <2>2, AddFacts
  <1>12. Types'
    BY <1>3, <1>5, <1>10, <1>11 DEF Types, IsRecord
  <1>13. Lists'
    <2>1. \A c \in BankNo : c # b => Bank'[c] = Bank[c]
      BY <1>3
    <2> QED BY <1>3, <1>5, <1>6, <1>11, <2>1, ListedFacts
  <1>14. \A f : In(f, todo') => StepOK(f)'
    BY <1>3, <1>7, <1>9, <1>10, DecisionKept
  <1>15. \A x, c : Pending(x, c) => Pending(x, c)' \/ (x = "Activate" /\ c = b)
    BY <1>1, <1>3, <1>10, PendingBehind
  <1>16. \A c : StillPending(c)
    BY <1>15 DEF StillPending
  <1>17. \A c : Pending("Activate", c)' => Pending("Activate", c)
    BY <1>7, <1>8, <1>10, PendingFacts, PendingFactsPrime
  <1>18. \A c \in BankNo : Used(c)' => Used(c)
    <2>1. Pending("Activate", b)
      BY <1>1, <1>3, <1>5, Top, PendingFacts
    <2>2. Used(b)
      BY <2>1 DEF Used
    <2> QED BY <1>3, <1>11, <1>17, <2>2, UsedLess
  <1>19. \A c \in BankNo : SameBank(c)
    BY <1>3 DEF SameBank
  <1>20. HeaderOK(b)' /\ LogOK(b)'
    <2>1. HeaderOK(b) /\ LogOK(b) /\ nv'[b] = nv[b] /\ Bank'[b] = Bank[b] /\ (Used(b)' => Used(b))
      BY <1>3, <1>5, <1>18 DEF IInv, Synced
    <2>2. \A op \in {"AddBank", "Scan", "Data", "NewHeader"} : Pending(op, b) => Pending(op, b)'
      BY <1>16 DEF StillPending
    <2> QED BY <1>5, <2>1, <2>2, SyncKept
  <1>21. nv'[b] = nv[b]
    BY <1>3
  <1> QED BY <1>5, <1>10, <1>12, <1>13, <1>14, <1>16, <1>18, <1>19, <1>20, <1>21, BankInv

\* The sequence numbers of every bank on a list are reset.
LEMMA ResetFacts ==
    ASSUME NEW list \in Seq(BankNo)
    PROVE  LET t == [k \in DOMAIN list |-> <<"ResetSequence", list[k]>>]
           IN  t \in Seq(Frame) /\ InOrder(t) /\ \A f : In(f, t) => StepOK(f) /\ f[1] = "ResetSequence"
  <1>1. PICK t : t = [k \in DOMAIN list |-> <<"ResetSequence", list[k]>>]
    OBVIOUS
  <1>2. DOMAIN list = 1 .. Len(list) /\ Len(list) \in Nat /\ DOMAIN t = 1 .. Len(list)
    BY <1>1
  <1>3. ASSUME NEW k \in DOMAIN t
        PROVE  t[k] \in Frame /\ t[k][1] = "ResetSequence" /\ StepOK(t[k])
    <2>1. PICK b : b = list[k]
      OBVIOUS
    <2>2. b \in BankNo /\ t[k] = <<"ResetSequence", b>>
      BY <1>1, <1>2, <1>3, <2>1
    <2>3. t[k] \in Frame /\ t[k][1] = "ResetSequence"
      BY <2>2, BankFrame DEF OnBank
    <2> QED BY <2>3 DEF StepOK, Clearing
  <1>4. t \in Seq(Frame)
    <2>1. t \in [1 .. Len(list) -> Frame]
      BY <1>1, <1>2, <1>3
    <2> QED BY <1>2, <2>1
  <1>5. InOrder(t)
    BY <1>3 DEF InOrder, Before, Clearing, Updating
  <1>6. \A f : In(f, t) => StepOK(f) /\ f[1] = "ResetSequence"
    BY <1>3 DEF In
  <1> QED BY <1>1, <1>4, <1>5, <1>6

LEMMA GetTBankKeeps ==
    ASSUME IInv, GetTBank
    PROVE  IInv' /\ Clears
  <1>1. PICK s : s = Head(todo)[2]
    OBVIOUS
  <1>2. PICK best : best = EmptyBank(s)
    OBVIOUS
  <1>3. /\ Doing("GetTBank") /\ UNCHANGED <<nv, Bank, request>>
        /\ IF Sequence[s] = VARH_MAX_SEQUENCE
           THEN /\ Sequence' = [Sequence EXCEPT ![s] = 0]
                /\ todo' = [k \in DOMAIN Active[s] |-> <<"ResetSequence", Active[s][k]>>] \o todo
                /\ UNCHANGED <<Active, TBank>>
           ELSE /\ TBank' = [TBank EXCEPT ![s] = best]
                /\ Active' = [Active EXCEPT ![s] = Without(@, best)]
                /\ Then(<<>>)
                /\ UNCHANGED Sequence
    BY <1>1, <1>2, Zenon DEF GetTBank, caller, Arg
  <1>4. "GetTBank" \notin Working
    BY DEF Working, OnBank
  <1>5. Head(todo) \in Frame /\ Head(todo)[1] = "GetTBank"
    BY <1>3, Top
  <1>6. s \in Store /\ Types /\ Lists
    BY <1>1, <1>5, FrameFacts DEF IInv, Doing
  <1>7. Idle /\ \A f : In(f, Tail(todo)) => f[1] \notin Working
    BY <1>3, <1>4, IdleFacts
  <1>8. \A f : In(f, todo) => f[1] \notin Working /\ StepOK(f)
    BY <1>7, PendingFacts DEF Idle, IInv
  <1>9. \A c : \A x \in Working : ~ Pending(x, c)
    BY <1>8, PendingFacts
  <1>10. \A c : StillPending(c)
    BY <1>9 DEF StillPending, Working, OnBank
  <1>11. \A c \in BankNo : SameBank(c)
    BY <1>3 DEF SameBank
  <1>12. NoBank \notin BankNo
    BY StoreFacts
  <1>13. CASE Sequence[s] = VARH_MAX_SEQUENCE
    <2>1. PICK t : t = [k \in DOMAIN Active[s] |-> <<"ResetSequence", Active[s][k]>>]
      OBVIOUS
    <2>2. Sequence' = [Sequence EXCEPT ![s] = 0] /\ todo' = t \o todo /\ Active' = Active /\ TBank' = TBank
      BY <1>3, <1>13, <2>1
    <2>3. t \in Seq(Frame) /\ InOrder(t) /\ \A f : In(f, t) => StepOK(f) /\ f[1] = "ResetSequence"
      <3>1. Active[s] \in Seq(BankNo)
        BY <1>6 DEF Types
      <3> QED BY <2>1, <3>1, ResetFacts
    <2>4. todo \in Seq(Frame) /\ InOrder(todo)
      BY DEF IInv, Types, Steps
    <2>5. \A f, g : In(f, t) /\ In(g, todo) => Before(f, g)
      BY <1>8, BeforeDecision
    <2>6. /\ todo' \in Seq(Frame) /\ InOrder(todo')
          /\ \A f : In(f, todo') <=> In(f, t) \/ In(f, todo)
      BY <2>2, <2>3, <2>4, <2>5, CatFacts
    <2>7. Sequence' \in [Store -> 0 .. VARH_MAX_SEQUENCE]
      <3>1. 0 \in 0 .. VARH_MAX_SEQUENCE
        BY StoreAssumption
      <3> QED BY <1>6, <2>2, <3>1 DEF Types
    <2>8. Types'
      BY <1>3, <1>6, <2>2, <2>6, <2>7 DEF Types, IsRecord
    <2>9. Lists'
      BY <1>3, <1>6, <2>2 DEF Lists
    <2>10. \A f : In(f, todo') => StepOK(f)'
      BY <1>3, <1>8, <2>2, <2>3, <2>6, StepSame
    <2>11. \A c : Used(c)' => Used(c)
      BY <1>3, <2>2, <2>3, <2>6, UsedKept
    <2> QED BY <1>6, <1>10, <1>11, <1>12, <2>6, <2>8, <2>9, <2>10, <2>11, BankInv
  <1>14. CASE Sequence[s] # VARH_MAX_SEQUENCE
    <2>1. /\ TBank' = [TBank EXCEPT ![s] = best] /\ Active' = [Active EXCEPT ![s] = Without(@, best)]
          /\ Then(<<>>) /\ Sequence' = Sequence
      BY <1>3, <1>14
    <2>2. best # NoBank => best \in BankNo /\ Listed(best) /\ Bank[best].Log = <<>> /\ StoreOf[best] = s
      <3> SUFFICES ASSUME best # NoBank
                   PROVE  best \in BankNo /\ Listed(best) /\ Bank[best].Log = <<>> /\ StoreOf[best] = s
        OBVIOUS
      <3>1. PICK empty : empty = {b \in BankNo : Bank[b].Log = <<>> /\ Bank[b].Gap = 0}
        OBVIOUS
      <3>2. best = FirstBank(s, empty)
        BY <1>2, <3>1 DEF EmptyBank
      <3>3. best \in BankNo /\ Listed(best) /\ best \in empty
        BY <1>6, <3>2, FirstBankFacts
      <3>4. best \in Range(Active[s])
        <4> DEFINE good == {k \in DOMAIN Active[s] : Active[s][k] \in empty}
        <4>1. good # {} /\ best = Active[s][Min(good)]
          BY <3>2 DEF FirstBank
        <4>2. Active[s] \in Seq(BankNo)
          BY <1>6 DEF Types
        <4>3. DOMAIN Active[s] \subseteq Nat
          BY <4>2
        <4>4. good \in SUBSET Nat
          BY <4>3
        <4>5. Min(good) \in good
          BY <4>1, <4>4, MinFacts
        <4>6. Min(good) \in DOMAIN Active[s]
          BY <4>5
        <4> HIDE DEF good
        <4> QED BY <4>1, <4>6 DEF Range
      <3>5. StoreOf[best] = s
        BY <1>6, <3>4, ActiveFacts
      <3> QED BY <3>1, <3>3, <3>5
    <2>3. /\ Active' \in [Store -> Seq(BankNo)] /\ Shrinks /\ \A c \in BankNo : Listed(c)' => Listed(c)
          /\ \A k \in DOMAIN Active'[s] : Active'[s][k] # best
      BY <1>6, <2>1, RemoveFacts
    <2>4. todo' \in Seq(Frame) /\ InOrder(todo') /\ \A f : In(f, todo') <=> In(f, Tail(todo))
      BY <1>3, <2>1, ThenNothing
    <2>5. TBank \in [Store -> BankNo \cup {NoBank}] /\ TBank' \in [Store -> BankNo \cup {NoBank}]
      BY <1>6, <2>1, <2>2 DEF Types
    <2>6. TBank'[s] = best /\ \A u \in Store : u # s => TBank'[u] = TBank[u]
      BY <1>6, <2>1, <2>5
    <2>7. Types'
      BY <1>3, <1>6, <2>1, <2>3, <2>4, <2>5 DEF Types, IsRecord
    <2>8. Lists'
      <3> SUFFICES ASSUME NEW u \in Store
                   PROVE  /\ \A k \in DOMAIN Active'[u] : StoreOf[Active'[u][k]] = u /\ Active'[u][k] # TBank'[u]
                          /\ TBank'[u] # NoBank => StoreOf[TBank'[u]] = u /\ Bank'[TBank'[u]].Log = <<>>
        BY DEF Lists
      <3>1. /\ \A k \in DOMAIN Active[u] : StoreOf[Active[u][k]] = u /\ Active[u][k] # TBank[u]
            /\ TBank[u] # NoBank => StoreOf[TBank[u]] = u /\ Bank[TBank[u]].Log = <<>>
        BY <1>6 DEF Lists
      <3>2. \A k \in DOMAIN Active'[u] : \E j \in DOMAIN Active[u] : Active'[u][k] = Active[u][j]
        BY <2>3 DEF Shrinks
      <3>3. CASE u = s
        BY <1>3, <2>2, <2>3, <2>6, <3>1, <3>2, <3>3
      <3>4. CASE u # s
        BY <1>3, <2>6, <3>1, <3>2, <3>4
      <3> QED BY <3>3, <3>4
    <2>9. \A f : In(f, todo') => In(f, todo) /\ StepOK(f)'
      BY <1>3, <1>7, <1>8, <2>4, Top, DecisionKept
    <2>10. \A c \in BankNo : Used(c)' => Used(c)
      <3> SUFFICES ASSUME NEW c \in BankNo, Used(c)' PROVE Used(c)
        OBVIOUS
      <3>1. CASE Listed(c)'
        BY <2>3, <3>1 DEF Used
      <3>2. CASE IsTBank(c)'
        <4>1. IsTBank(c) \/ c = best
          BY <2>6, <3>2, StoreFacts DEF IsTBank
        <4> QED BY <1>12, <2>2, <4>1 DEF Used
      <3>3. CASE Pending("Activate", c)'
        BY <2>9, <3>3, PendingFacts, PendingFactsPrime DEF Used
      <3> QED BY <3>1, <3>2, <3>3 DEF Used
    <2> QED BY <1>6, <1>10, <1>11, <1>12, <2>4, <2>7, <2>8, <2>9, <2>10, BankInv
  <1> QED BY <1>13, <1>14

\* VarStoreAddBank goes through the banks one after the other.
LEMMA BehindBoot ==
    ASSUME IInv, NEW op \in {"AddBank", "Scan"}, Doing(op)
    PROVE  /\ Head(todo)[2] \in BankNo /\ ~ IsTBank(Head(todo)[2])
           /\ \A f : In(f, Tail(todo)) => /\ StepOK(f) /\ In(f, todo)
                                          /\ f[1] = "AddBank" \/ f[1] \notin Working
           /\ \A c : \A x \in {"Scan", "Data", "NewHeader", "Activate"} : Pending(x, c) => x = op
  <1>1. op \in Working
    BY DEF Working, OnBank
  <1>2. Head(todo)[2] \in BankNo /\ Head(todo)[1] = op /\ StepOK(Head(todo))
    BY <1>1, BankTop
  <1>3. ~ IsTBank(Head(todo)[2])
    BY <1>2 DEF StepOK
  <1>4. \A f : In(f, Tail(todo)) => /\ StepOK(f) /\ In(f, todo)
                                    /\ f[1] = "AddBank" \/ f[1] \notin Working
    BY <1>2, Top, Behind
  <1>5. ASSUME NEW c, NEW x \in {"Scan", "Data", "NewHeader", "Activate"}, Pending(x, c), x # op
        PROVE  FALSE
    <2>1. \A f : In(f, Tail(todo)) => f[1] # x
      BY <1>4 DEF Working, OnBank
    <2> QED BY <1>5, <2>1, NotPending
  <1> QED BY <1>2, <1>3, <1>4, <1>5

LEMMA AddBankKeeps ==
    ASSUME IInv, AddBank
    PROVE  IInv' /\ Clears
  <1>1. PICK b, s : b = Head(todo)[2] /\ s = StoreOf[b]
    OBVIOUS
  <1>2. PICK h, r : h = nv[b].Header /\ r = NewBankRecord(nv[b])
    OBVIOUS
  <1>3. PICK z, n : z = <<"Zero", b>> /\ n = <<"Scan", b>>
    OBVIOUS
  <1>4. /\ Doing("AddBank") /\ UNCHANGED <<nv, TBank, request>>
        /\ Bank' = [Bank EXCEPT ![b] = r]
        /\ \/ Then(<<z>> \o <<n>>) /\ UNCHANGED <<Active, Sequence>>
           \/ Then(<<n>>) /\ Active' = [Active EXCEPT ![s] = Append(@, b)]
                          /\ Sequence' = [Sequence EXCEPT ![s] = h.Sequence]
           \/ Then(<<n>>) /\ Active' = [Active EXCEPT ![s] = <<b>> \o @] /\ UNCHANGED Sequence
    BY <1>1, <1>2, <1>3, Zenon DEF AddBank, ClearStore, caller, Arg
  <1>5. b \in BankNo /\ ~ IsTBank(b) /\ Types /\ s \in Store
    BY <1>1, <1>4, BehindBoot, StoreFacts DEF IInv
  <1>6. \A f : In(f, Tail(todo)) => /\ StepOK(f) /\ In(f, todo)
                                    /\ f[1] = "AddBank" \/ f[1] \notin Working
    BY <1>4, BehindBoot
  <1>7. z \in Frame /\ z[1] = "Zero" /\ z[2] = b /\ n \in Frame /\ n[1] = "Scan" /\ n[2] = b
    BY <1>3, <1>5, BankFrame DEF OnBank
  <1>8. \A f : In(f, Tail(todo)) => Before(z, f) /\ Before(n, f)
    <2> SUFFICES ASSUME NEW f, In(f, Tail(todo)) PROVE Before(z, f) /\ Before(n, f)
      OBVIOUS
    <2>1. CASE f[1] = "AddBank"
      BY <1>7, <2>1 DEF Before, Clearing, Updating
    <2>2. CASE f[1] \notin Working
      BY <2>2, BeforeDecision
    <2> QED BY <1>6, <2>1, <2>2
  <1>9. /\ todo' \in Seq(Frame) /\ InOrder(todo')
        /\ \A f : In(f, Tail(todo)) => In(f, todo')
        /\ \A f : In(f, todo') => In(f, Tail(todo)) \/ f = n \/ f = z
        /\ In(n, todo')
    <2>1. CASE Then(<<n>>)
      BY <1>4, <1>7, <1>8, <2>1, ThenOne
    <2>2. CASE Then(<<z>> \o <<n>>)
      <3>1. PICK t : t = <<z, n>>
        OBVIOUS
      <3>2. Before(z, n)
        BY <1>7 DEF Before, Clearing, Updating
      <3>3. t \in Seq(Frame) /\ InOrder(t) /\ \A f : In(f, t) <=> f = z \/ f = n
        BY <1>7, <3>1, <3>2, TwoFacts
      <3>4. Then(t)
        BY <2>2, <3>1, PairCat
      <3>5. \A f, g : In(f, t) /\ In(g, Tail(todo)) => Before(f, g)
        BY <1>8, <3>3
      <3>6. /\ todo' \in Seq(Frame) /\ InOrder(todo')
            /\ \A f : In(f, todo') <=> In(f, t) \/ In(f, Tail(todo))
        BY <1>4, <3>3, <3>4, <3>5, ThenFacts
      <3> QED BY <3>3, <3>6
    <2> QED BY <1>4, <2>1, <2>2
  <1>10. nv[b] \in Image /\ h \in Header /\ h.Sequence \in 0 .. VARH_MAX_SEQUENCE
    <2>1. nv[b] \in Image /\ h \in Header
      BY <1>2, <1>5, TypeFacts
    <2> QED BY <2>1 DEF Header
  <1>11. IsRecord(r) /\ r.Header = nv[b].Header /\ r.Log = <<>>
    BY <1>2, <1>10, NewRecordFacts
  <1>12. DOMAIN Bank' = BankNo /\ Bank'[b] = r /\ \A c \in BankNo : c # b => Bank'[c] = Bank[c]
    BY <1>4, <1>5 DEF Types
  <1>13. Sequence' \in [Store -> 0 .. VARH_MAX_SEQUENCE]
    <2>1. Sequence \in [Store -> 0 .. VARH_MAX_SEQUENCE]
      BY <1>5 DEF Types
    <2> QED BY <1>4, <1>10, <2>1
  <1>14. /\ Active' \in [Store -> Seq(BankNo)] /\ Extends(b)
         /\ \A c \in BankNo : c # b /\ Listed(c)' => Listed(c)
    <2>0. Active[s] \in Seq(BankNo)
      BY <1>5 DEF Types
    <2>1. CASE Active' = Active
      BY <1>5, <2>1 DEF Types, Extends, Listed
    <2>2. CASE Active' = [Active EXCEPT ![s] = Append(@, b)]
      <3>1. PICK new : new = Append(Active[s], b)
        OBVIOUS
      <3>2. new \in Seq(BankNo) /\ AddsOnly(new, Active[s], b)
        BY <1>5, <2>0, <3>1, AppendFacts
      <3>3. Active' = [Active EXCEPT ![s] = new]
        BY <2>2, <3>1
      <3> QED BY <1>1, <1>5, <3>2, <3>3, AddFacts
    <2>3. CASE Active' = [Active EXCEPT ![s] = <<b>> \o @]
      <3>1. PICK new : new = <<b>> \o Active[s]
        OBVIOUS
      <3>2. new \in Seq(BankNo) /\ AddsOnly(new, Active[s], b)
        BY <1>5, <2>0, <3>1, AppendFacts
      <3>3. Active' = [Active EXCEPT ![s] = new]
        BY <2>3, <3>1
      <3> QED BY <1>1, <1>5, <3>2, <3>3, AddFacts
    <2> QED BY <1>4, <2>1, <2>2, <2>3
  <1>15. Types'
    <2>1. \A c \in BankNo : IsRecord(Bank'[c])
      BY <1>5, <1>11, <1>12, TypeFacts
    <2>2. nv' \in [BankNo -> Image] /\ TBank' \in [Store -> BankNo \cup {NoBank}]
      BY <1>4, <1>5 DEF Types
    <2> QED BY <1>9, <1>12, <1>13, <1>14, <2>1, <2>2 DEF Types, IsRecord
  <1>16. Lists'
    <2>1. \A c \in BankNo : c # b => Bank'[c] = Bank[c]
      BY <1>12
    <2> QED BY <1>4, <1>5, <1>14, <2>1, ListedFacts
  <1>17. ASSUME NEW f, In(f, todo')
         PROVE  StepOK(f)'
    <2>1. CASE In(f, Tail(todo))
      BY <1>4, <1>6, <2>1, PlainKept
    <2>2. CASE f = z \/ f = n
      <3>1. ~ IsTBank(b)'
        BY <1>4, <1>5 DEF IsTBank
      <3> QED BY <1>7, <2>2, <3>1 DEF StepOK, Clearing
    <2> QED BY <1>9, <1>17, <2>1, <2>2
  <1>18. \A x, c : Pending(x, c) => Pending(x, c)' \/ (x = "AddBank" /\ c = b)
    BY <1>1, <1>4, <1>9, PendingBehind
  <1>19. \A c : c # b => StillPending(c)
    BY <1>18 DEF StillPending
  <1>20. \A c \in BankNo : c # b => (Used(c)' => Used(c))
    <2>1. \A c : Pending("Activate", c)' => Pending("Activate", c)
      BY <1>6, <1>7, <1>9, PendingFacts, PendingFactsPrime
    <2> QED BY <1>4, <1>14, <2>1, UsedLess
  <1>21. Pending("Scan", b)'
    BY <1>7, <1>9, PendingFactsPrime
  <1>22. HeaderOK(b)' /\ LogOK(b)'
    <2>1. nv'[b].Header = Bank'[b].Header
      BY <1>4, <1>11, <1>12
    <2> QED BY <1>21, <2>1 DEF HeaderOK, LogOK
  <1>23. nv'[b] = nv[b] /\ \A c \in BankNo : c # b => SameBank(c)
    BY <1>4, <1>12 DEF SameBank
  <1> QED BY <1>5, <1>9, <1>15, <1>16, <1>17, <1>19, <1>20, <1>22, <1>23, BankInv

EntriesRead(b, log, u) == Bank' = [Bank EXCEPT ![b].Log = log, ![b].InUse = u]

\* What is left to the reading of a bank that is not corrupt.
LEMMA ScanDone ==
    ASSUME IInv, Scan, NeverCorrupt
    PROVE  \E b, s, log, u :
              /\ b \in BankNo /\ s \in Store /\ log \in Seq(Entry)
              /\ b = Head(todo)[2] /\ s = StoreOf[b] /\ log = nv[b].Log /\ u = Live(log)
              /\ Tail_(log) <= BankSize
              /\ Doing("Scan") /\ UNCHANGED <<nv, TBank, Sequence, EfiAtRuntime, caller>> /\ Then(<<>>)
              /\ \/ Active' = [Active EXCEPT ![s] = Without(@, b)] /\ UNCHANGED Bank
                 \/ EntriesRead(b, log, u) /\ UNCHANGED Active
  <1>1. PICK b, s : b = Head(todo)[2] /\ s = StoreOf[b]
    OBVIOUS
  <1>2. PICK log, u : log = nv[b].Log /\ u = Live(log)
    OBVIOUS
  <1>3. Doing("Scan")
    BY DEF Scan
  <1>4. b \in BankNo /\ s \in Store
    BY <1>1, <1>3, BehindBoot, StoreFacts
  <1>5. log \in Seq(Entry)
    BY <1>2, <1>4, TypeFacts DEF IInv
  <1>6. Tail_(log) <= BankSize
    BY <1>1, <1>2, <1>3 DEF NeverCorrupt, Arg
  <1>7. CorruptEntry(log) = 0
    BY <1>5, <1>6, SoundFacts
  <1>8. /\ UNCHANGED <<nv, TBank, Sequence, EfiAtRuntime, caller>> /\ Then(<<>>)
        /\ \/ Active' = [Active EXCEPT ![s] = Without(@, b)] /\ UNCHANGED Bank
           \/ EntriesRead(b, log, u) /\ UNCHANGED Active
    <2>1. PICK steps : steps = ClearStore(b) \o << <<"Truncate", b, Upto(log, CorruptEntry(log) - 1)>> >>
      OBVIOUS
    <2>2. UNCHANGED <<nv, TBank, Sequence, EfiAtRuntime, caller>>
      BY DEF Scan
    <2>3. \/ Then(<<>>) /\ Active' = [Active EXCEPT ![s] = Without(@, b)] /\ UNCHANGED Bank
          \/ /\ IF CorruptEntry(log) # 0 THEN Then(steps) /\ UNCHANGED Bank
                ELSE EntriesRead(b, log, u) /\ Then(<<>>)
             /\ UNCHANGED Active
      BY <1>1, <1>2, <2>1, ZenonT(30) DEF Scan, Arg, EntriesRead
    <2>4. ~ (CorruptEntry(log) # 0)
      BY <1>7
    <2>5. \/ Then(<<>>) /\ Active' = [Active EXCEPT ![s] = Without(@, b)] /\ UNCHANGED Bank
          \/ EntriesRead(b, log, u) /\ Then(<<>>) /\ UNCHANGED Active
      BY <2>3, <2>4
    <2> QED BY <2>2, <2>5
  <1>9. /\ b \in BankNo /\ s \in Store /\ log \in Seq(Entry)
        /\ b = Head(todo)[2] /\ s = StoreOf[b] /\ log = nv[b].Log /\ u = Live(log)
        /\ Tail_(log) <= BankSize
        /\ Doing("Scan") /\ UNCHANGED <<nv, TBank, Sequence, EfiAtRuntime, caller>> /\ Then(<<>>)
        /\ \/ Active' = [Active EXCEPT ![s] = Without(@, b)] /\ UNCHANGED Bank
           \/ EntriesRead(b, log, u) /\ UNCHANGED Active
    BY <1>1, <1>2, <1>3, <1>4, <1>5, <1>6, <1>8
  <1> QED BY <1>9, Zenon

LEMMA ScanKeeps ==
    ASSUME IInv, Scan, NeverCorrupt
    PROVE  IInv' /\ Clears
  <1>1. PICK b, s, log, u :
              /\ b \in BankNo /\ s \in Store /\ log \in Seq(Entry)
              /\ b = Head(todo)[2] /\ s = StoreOf[b] /\ log = nv[b].Log /\ u = Live(log)
              /\ Tail_(log) <= BankSize
              /\ Doing("Scan") /\ UNCHANGED <<nv, TBank, Sequence, EfiAtRuntime, caller>> /\ Then(<<>>)
              /\ \/ Active' = [Active EXCEPT ![s] = Without(@, b)] /\ UNCHANGED Bank
                 \/ EntriesRead(b, log, u) /\ UNCHANGED Active
    BY ScanDone, Zenon
  <1>2. log = nv[b].Log
    BY <1>1
  <1>3. /\ Doing("Scan") /\ UNCHANGED <<nv, TBank, Sequence, request>>
        /\ \/ Active' = [Active EXCEPT ![s] = Without(@, b)] /\ Then(<<>>) /\ UNCHANGED Bank
           \/ Bank' = [Bank EXCEPT ![b].Log = log, ![b].InUse = u] /\ Then(<<>>) /\ UNCHANGED Active
    BY <1>1, Zenon DEF caller, EntriesRead
  <1>4. b \in BankNo /\ ~ IsTBank(b) /\ Types /\ s \in Store
    BY <1>1, <1>3, BehindBoot, StoreFacts DEF IInv
  <1>5. \A f : In(f, Tail(todo)) => /\ StepOK(f) /\ In(f, todo)
                                    /\ f[1] = "AddBank" \/ f[1] \notin Working
    BY <1>3, BehindBoot
  <1>6. HeaderOK(b)
    BY <1>4 DEF IInv, Synced
  <1>7. nv[b] \in Image /\ IsRecord(Bank[b]) /\ log \in Seq(Entry)
    BY <1>2, <1>4, TypeFacts
  <1>9. CASE Then(<<>>)
    <2>1. todo' \in Seq(Frame) /\ InOrder(todo') /\ \A f : In(f, todo') <=> In(f, Tail(todo))
      BY <1>3, <1>9, ThenNothing
    <2>2. \A f : In(f, todo') => StepOK(f)'
      BY <1>3, <1>5, <2>1, PlainKept
    <2>3. \A x, c : Pending(x, c) => Pending(x, c)' \/ (x = "Scan" /\ c = b)
      BY <1>1, <1>3, <2>1, PendingBehind
    <2>4. \A c : c # b => StillPending(c)
      BY <2>3 DEF StillPending
    <2>5. \A c : ~ Pending("Activate", c)'
      BY <1>5, <2>1, PendingFactsPrime DEF Working, OnBank
    <2>6. (Pending("AddBank", b) => Pending("AddBank", b)') /\ (Pending("NewHeader", b) => Pending("NewHeader", b)')
      BY <2>3
    <2>7. CASE Active' = [Active EXCEPT ![s] = Without(@, b)] /\ Bank' = Bank
      <3>1. /\ Active' \in [Store -> Seq(BankNo)] /\ Shrinks /\ \A c \in BankNo : Listed(c)' => Listed(c)
            /\ \A k \in DOMAIN Active'[s] : Active'[s][k] # b
        BY <1>4, <2>7, RemoveFacts
      <3>2. Types'
        BY <1>3, <1>4, <2>1, <2>7, <3>1 DEF Types, IsRecord
      <3>3. Lists'
        <4>1. Bank'[b].Log = Bank[b].Log /\ \A c \in BankNo : c # b => Bank'[c] = Bank[c]
          BY <2>7
        <4> QED BY <1>3, <1>4, <3>1, <4>1, ListsKept DEF Shrinks
      <3>4. \A c \in BankNo : Used(c)' => Used(c)
        BY <1>3, <2>5, <3>1, UsedLess
      <3>5. ~ Used(b)'
        <4>1. ~ IsTBank(b)'
          BY <1>3, <1>4 DEF IsTBank
        <4>2. ~ Listed(b)'
          BY <1>1, <3>1 DEF Listed
        <4> QED BY <2>5, <4>1, <4>2 DEF Used
      <3>6. HeaderOK(b)'
        <4>1. nv'[b] = nv[b] /\ Bank'[b] = Bank[b] /\ (Kept(b)' => Kept(b))
          BY <1>3, <2>7 DEF Kept
        <4> QED BY <1>4, <1>6, <2>6, <4>1 DEF HeaderOK
      <3>7. LogOK(b)'
        BY <3>5 DEF LogOK
      <3>8. nv'[b] = nv[b] /\ \A c \in BankNo : c # b => SameBank(c)
        BY <1>3, <2>7 DEF SameBank
      <3> QED BY <1>4, <2>1, <2>2, <2>4, <3>2, <3>3, <3>4, <3>6, <3>7, <3>8, BankInv
    <2>8. CASE Bank' = [Bank EXCEPT ![b].Log = log, ![b].InUse = u] /\ Active' = Active
      <3>1. /\ DOMAIN Bank' = BankNo /\ \A c \in BankNo : c # b => Bank'[c] = Bank[c]
            /\ Bank'[b] = WithLog(Bank[b], log, u)
        <4>1. DOMAIN Bank = BankNo
          BY <1>4 DEF Types
        <4>2. PICK B : B = [Bank EXCEPT ![b].Log = log]
          OBVIOUS
        <4>3. DOMAIN B = BankNo /\ B[b] = [Bank[b] EXCEPT !.Log = log] /\ \A c \in BankNo : c # b => B[c] = Bank[c]
          BY <1>4, <4>1, <4>2
        <4>4. Bank' = [B EXCEPT ![b].InUse = u]
          BY <2>8, <4>2
        <4>5. DOMAIN Bank' = BankNo /\ Bank'[b] = [B[b] EXCEPT !.InUse = u] /\ \A c \in BankNo : c # b => Bank'[c] = B[c]
          BY <1>4, <4>3, <4>4
        <4>6. Bank'[b] = WithLog(Bank[b], log, u)
          BY <4>3, <4>5 DEF WithLog
        <4> QED BY <4>3, <4>5, <4>6
      <3>2. /\ IsRecord(Bank'[b]) /\ Bank'[b].Header = Bank[b].Header /\ Bank'[b].Log = log
            /\ Bank'[b].DeviceError = Bank[b].DeviceError
        BY <1>7, <3>1, LogRecord
      <3>3. Types'
        <4>1. \A c \in BankNo : IsRecord(Bank'[c])
          BY <1>4, <3>1, <3>2, TypeFacts
        <4>2. /\ nv' \in [BankNo -> Image] /\ TBank' \in [Store -> BankNo \cup {NoBank}]
              /\ Active' \in [Store -> Seq(BankNo)] /\ Sequence' \in [Store -> 0 .. VARH_MAX_SEQUENCE]
          BY <1>3, <1>4, <2>8 DEF Types
        <4> QED BY <2>1, <3>1, <4>1, <4>2 DEF Types, IsRecord
      <3>4. Lists'
        <4>1. \A c \in BankNo : c # b => Bank'[c] = Bank[c]
          BY <3>1
        <4>2. \A t \in Store : \A k \in DOMAIN Active'[t] : \E j \in DOMAIN Active[t] : Active'[t][k] = Active[t][j]
          BY <2>8
        <4> QED BY <1>3, <1>4, <4>1, <4>2, ListsKept
      <3>5. \A c : Used(c)' => Used(c)
        BY <1>3, <1>5, <2>1, <2>8, UsedKept
      <3>6. HeaderOK(b)'
        <4>1. nv'[b] = nv[b] /\ Bank'[b].Header = Bank[b].Header /\ (Kept(b)' => Kept(b))
          BY <1>3, <3>2 DEF Kept
        <4> QED BY <1>4, <1>6, <2>6, <4>1 DEF HeaderOK
      <3>7. LogOK(b)'
        BY <1>2, <1>3, <3>2 DEF LogOK
      <3>8. nv'[b] = nv[b] /\ \A c \in BankNo : c # b => SameBank(c)
        BY <1>3, <3>1 DEF SameBank
      <3> QED BY <1>4, <2>1, <2>2, <2>4, <3>3, <3>4, <3>5, <3>6, <3>7, <3>8, BankInv
    <2> QED BY <1>3, <1>9, <2>7, <2>8
  <1> QED BY <1>3, <1>9

-----------------------------------------------------------------------------
(* Power failures and recovery *)

Decisions(t) ==
    t \in Seq(Frame) /\ \A f : In(f, t) => f[1] \notin Working /\ f[1] # "Replace"

LEMMA DecisionsCat ==
    ASSUME NEW a, NEW t, Decisions(a), Decisions(t)
    PROVE  Decisions(a \o t)
  BY CatFacts DEF Decisions

LEMMA DecisionsOrdered ==
    ASSUME NEW t, Decisions(t)
    PROVE  t \in Seq(Frame) /\ InOrder(t)
  BY BeforeDecision DEF Decisions, InOrder, In

LEMMA NoDecisions == Decisions(<<>>)
  BY EmptyFacts DEF Decisions

LEMMA CheckBanksFacts ==
    ASSUME NEW s \in Store
    PROVE  Decisions(<< <<"GetTBank", s>>, <<"Repair", s>> >>) /\ Decisions(<< <<"Check", s, 1, 1>> >>)
  <1>1. PICK f, g, h : f = <<"GetTBank", s>> /\ g = <<"Repair", s>> /\ h = <<"Check", s, 1, 1>>
    OBVIOUS
  <1>2. 1 \in Nat \ {0}
    OBVIOUS
  <1>3. f \in Frame /\ g \in Frame /\ h \in Frame
    BY <1>1, <1>2, StoreFrame, CheckFrame
  <1>4. f[1] = "GetTBank" /\ g[1] = "Repair" /\ h[1] = "Check"
    BY <1>1
  <1>5. \A x \in {f, g, h} : x[1] \notin Working /\ x[1] # "Replace"
    BY <1>4 DEF Working, OnBank
  <1>6. Decisions(<<f, g>>)
    BY <1>3, <1>5, TwoFacts DEF Decisions
  <1>7. Decisions(<<h>>)
    BY <1>3, <1>5, OneFacts DEF Decisions
  <1> QED BY <1>1, <1>6, <1>7

\* Recovery starts with VarStoreAddBank for every bank.
LEMMA BootFacts ==
    /\ Boot \in Seq(Frame) /\ InOrder(Boot)
    /\ \A b \in BankNo : In(<<"AddBank", b>>, Boot)
    /\ \A f : In(f, Boot) => (\E b \in BankNo : f = <<"AddBank", b>>) \/ (f[1] \notin Working /\ f[1] # "Replace")
  <1> DEFINE InUse(s) == \E b \in BankNo : StoreOf[b] = s
             CheckBanks == [s \in Store |-> IF InUse(s) THEN << <<"GetTBank", s>>, <<"Repair", s>> >> ELSE <<>>]
             CheckBank == [s \in Store |-> IF InUse(s) THEN << <<"Check", s, 1, 1>> >> ELSE <<>>]
  <1>1. \A s \in {"BS", "NV+BS", "BS+RT", "NV+BS+RT"} : Decisions(CheckBanks[s]) /\ Decisions(CheckBank[s])
    BY CheckBanksFacts, NoDecisions DEF Store
  <1>2. PICK adds : adds = [b \in BankNo |-> <<"AddBank", b>>]
    OBVIOUS
  <1>3. Boot = adds \o (CheckBanks["BS"] \o CheckBanks["NV+BS"] \o CheckBanks["BS+RT"] \o CheckBanks["NV+BS+RT"])
                    \o (CheckBank["BS"] \o CheckBank["NV+BS"] \o CheckBank["BS+RT"] \o CheckBank["NV+BS+RT"])
    BY <1>2, Zenon DEF Boot, VariableStore
  <1> HIDE DEF CheckBanks, CheckBank
  <1>4. PICK p, q : /\ p = CheckBanks["BS"] \o CheckBanks["NV+BS"] \o CheckBanks["BS+RT"] \o CheckBanks["NV+BS+RT"]
                    /\ q = CheckBank["BS"] \o CheckBank["NV+BS"] \o CheckBank["BS+RT"] \o CheckBank["NV+BS+RT"]
    OBVIOUS
  <1>5. Decisions(p)
    <2>1. PICK c1, c2, c3, c4 : /\ c1 = CheckBanks["BS"] /\ c2 = CheckBanks["NV+BS"]
                                /\ c3 = CheckBanks["BS+RT"] /\ c4 = CheckBanks["NV+BS+RT"]
      OBVIOUS
    <2>2. Decisions(c1) /\ Decisions(c2) /\ Decisions(c3) /\ Decisions(c4)
      BY <1>1, <2>1
    <2>3. Decisions(c1 \o c2)
      BY <2>2, DecisionsCat
    <2>4. Decisions(c1 \o c2 \o c3)
      BY <2>2, <2>3, DecisionsCat
    <2>5. Decisions(c1 \o c2 \o c3 \o c4)
      BY <2>2, <2>4, DecisionsCat
    <2> QED BY <1>4, <2>1, <2>5
  <1>6. Decisions(q)
    <2>1. PICK c1, c2, c3, c4 : /\ c1 = CheckBank["BS"] /\ c2 = CheckBank["NV+BS"]
                                /\ c3 = CheckBank["BS+RT"] /\ c4 = CheckBank["NV+BS+RT"]
      OBVIOUS
    <2>2. Decisions(c1) /\ Decisions(c2) /\ Decisions(c3) /\ Decisions(c4)
      BY <1>1, <2>1
    <2>3. Decisions(c1 \o c2)
      BY <2>2, DecisionsCat
    <2>4. Decisions(c1 \o c2 \o c3)
      BY <2>2, <2>3, DecisionsCat
    <2>5. Decisions(c1 \o c2 \o c3 \o c4)
      BY <2>2, <2>4, DecisionsCat
    <2> QED BY <1>4, <2>1, <2>5
  <1>7. Boot = adds \o p \o q
    BY <1>3, <1>4
  <1>8. DOMAIN adds = BankNo /\ \A b \in BankNo : adds[b] = <<"AddBank", b>> /\ adds[b] \in Frame /\ adds[b][1] = "AddBank"
    BY <1>2, BankFrame DEF OnBank
  <1>9. adds \in Seq(Frame)
    <2>1. BankNo = 1 .. Len(StoreOf) /\ Len(StoreOf) \in Nat
      BY StoreFacts
    <2>2. adds \in [1 .. Len(StoreOf) -> Frame]
      BY <1>2, <1>8, <2>1
    <2> QED BY <2>1, <2>2
  <1>10. InOrder(adds)
    BY <1>8 DEF InOrder, Before, Clearing, Updating
  <1>11. PICK ap : ap = adds \o p
    OBVIOUS
  <1>12. ap \in Seq(Frame) /\ InOrder(ap) /\ \A f : In(f, ap) <=> In(f, adds) \/ In(f, p)
    <2>1. p \in Seq(Frame) /\ InOrder(p) /\ \A f, g : In(f, adds) /\ In(g, p) => Before(f, g)
      BY <1>5, DecisionsOrdered, BeforeDecision DEF Decisions
    <2> QED BY <1>9, <1>10, <1>11, <2>1, CatFacts
  <1>13. PICK t : t = ap \o q
    OBVIOUS
  <1>14. t \in Seq(Frame) /\ InOrder(t) /\ \A f : In(f, t) <=> In(f, ap) \/ In(f, q)
    <2>1. q \in Seq(Frame) /\ InOrder(q) /\ \A f, g : In(f, ap) /\ In(g, q) => Before(f, g)
      BY <1>6, DecisionsOrdered, BeforeDecision DEF Decisions
    <2> QED BY <1>12, <1>13, <2>1, CatFacts
  <1>15. \A f : In(f, adds) <=> \E b \in BankNo : f = <<"AddBank", b>>
    BY <1>8 DEF In
  <1>16. \A f : In(f, t) => In(f, adds) \/ (f[1] \notin Working /\ f[1] # "Replace")
    BY <1>5, <1>6, <1>12, <1>14 DEF Decisions
  <1>17. \A b \in BankNo : In(<<"AddBank", b>>, t)
    BY <1>12, <1>14, <1>15
  <1>18. t = Boot
    BY <1>7, <1>11, <1>13
  <1>19. \A f : In(f, t) => (\E b \in BankNo : f = <<"AddBank", b>>) \/ (f[1] \notin Working /\ f[1] # "Replace")
    BY <1>15, <1>16
  <1> QED BY <1>14, <1>17, <1>18, <1>19

\* The state in which recovery starts.
Booting ==
    /\ nv \in [BankNo -> Image]
    /\ Bank = [b \in BankNo |-> NewBankRecord(Blank)]
    /\ Active = [s \in Store |-> <<>>]
    /\ TBank = [s \in Store |-> NoBank]
    /\ Sequence = [s \in Store |-> 0]
    /\ todo = Boot

LEMMA BootInv == Booting => IInv
  <1> SUFFICES ASSUME Booting PROVE IInv
    OBVIOUS
  <1>1. /\ nv \in [BankNo -> Image] /\ Active = [s \in Store |-> <<>>] /\ TBank = [s \in Store |-> NoBank]
        /\ Sequence = [s \in Store |-> 0] /\ todo = Boot
    BY DEF Booting
  <1>2. DOMAIN Bank = BankNo /\ \A b \in BankNo : IsRecord(Bank[b])
    <2>1. IsRecord(NewBankRecord(Blank))
      BY HeaderFacts, NewRecordFacts
    <2> QED BY <2>1 DEF Booting
  <1>3. Types
    <2>1. <<>> \in Seq(BankNo) /\ 0 \in 0 .. VARH_MAX_SEQUENCE
      BY StoreAssumption
    <2>2. /\ Active \in [Store -> Seq(BankNo)] /\ TBank \in [Store -> BankNo \cup {NoBank}]
          /\ Sequence \in [Store -> 0 .. VARH_MAX_SEQUENCE]
      BY <1>1, <2>1
    <2> QED BY <1>1, <1>2, <2>2, BootFacts DEF Types
  <1>4. Lists
    <2>1. \A s \in Store : DOMAIN Active[s] = {} /\ TBank[s] = NoBank
      BY <1>1
    <2> QED BY <2>1 DEF Lists
  <1>5. \A b \in BankNo : ~ IsTBank(b)
    BY <1>1, StoreFacts DEF IsTBank
  <1>6. ASSUME NEW f, In(f, todo)
        PROVE  StepOK(f)
    <2>1. CASE \E b \in BankNo : f = <<"AddBank", b>>
      <3>1. f[1] = "AddBank" /\ f[2] \in BankNo
        BY <2>1
      <3> QED BY <1>5, <3>1 DEF StepOK, Clearing
    <2>2. CASE f[1] \notin Working /\ f[1] # "Replace"
      BY <2>2 DEF StepOK, Clearing, Working, OnBank
    <2> QED BY <1>1, <1>6, <2>1, <2>2, BootFacts
  <1>7. Steps
    BY <1>1, <1>6, BootFacts, PendingFacts
  <1>8. Synced
    <2> SUFFICES ASSUME NEW b \in BankNo PROVE HeaderOK(b) /\ LogOK(b)
      BY DEF Synced
    <2>1. PICK f : f = <<"AddBank", b>>
      OBVIOUS
    <2>2. In(f, todo) /\ f[1] = "AddBank" /\ f[2] = b
      BY <1>1, <2>1, BootFacts
    <2>3. Pending("AddBank", b)
      BY <2>2, PendingFacts
    <2> QED BY <2>3 DEF HeaderOK, LogOK
  <1> QED BY <1>3, <1>4, <1>7, <1>8 DEF IInv

LEMMA BootInvPrime == Booting' => IInv'
  BY BootInv, PTL

LEMMA InitInv == Init => IInv
  <1> SUFFICES ASSUME Init PROVE IInv
    OBVIOUS
  <1>1. nv \in [BankNo -> Image]
    BY FactoryAssumption DEF Init, Image
  <1>2. Booting
    BY <1>1 DEF Init, Booting
  <1> QED BY <1>2, BootInv

LEMMA TornFacts ==
    ASSUME NEW b, NEW x \in Torn(b)
    PROVE  /\ Kept(b)
           /\ \/ Doing("Append") /\ \E size \in GarbledSizes \cup {Arg(3).size} :
                    x = [nv EXCEPT ![b].Log = Append(nv[b].Log, Dead(size))]
              \/ Doing("Mark") /\ x = [nv EXCEPT ![b].Log = [nv[b].Log EXCEPT ![Arg(3)] = Marked(@, "trans")]]
              \/ Doing("Data") /\ \E k \in DOMAIN Bank[b].Log :
                    x = [nv EXCEPT ![b].Log = SubSeq(Bank[b].Log, 1, k)]
  <1>1. ~ (Bank[b].DeviceError \/ StoreOf[b] \notin NonVolatile)
    BY DEF Torn
  <1>2. Kept(b)
    BY <1>1 DEF Kept
  <1>3. CASE Doing("Append") /\ Bank[b].Gap = 0
    <2>1. ~ Doing("Mark") /\ ~ Doing("Data")
      BY <1>3 DEF Doing
    <2>2. Torn(b) = {[nv EXCEPT ![b].Log = Append(nv[b].Log, Dead(size))] :
                         size \in GarbledSizes \cup {Arg(3).size}}
      BY <1>1, <1>3, <2>1 DEF Torn
    <2> QED BY <1>2, <1>3, <2>2
  <1>4. CASE Doing("Mark")
    <2>1. ~ Doing("Append") /\ ~ Doing("Data")
      BY <1>4 DEF Doing
    <2>2. Torn(b) = IF Arg(4) = "dead"
                    THEN {[nv EXCEPT ![b].Log = [nv[b].Log EXCEPT ![Arg(3)] = Marked(@, "trans")]]}
                    ELSE {}
      BY <1>1, <1>4, <2>1 DEF Torn
    <2> QED BY <1>2, <1>4, <2>2
  <1>5. CASE Doing("Data")
    <2>1. ~ Doing("Append") /\ ~ Doing("Mark")
      BY <1>5 DEF Doing
    <2>2. Torn(b) = {[nv EXCEPT ![b].Log = SubSeq(Bank[b].Log, 1, k)] : k \in DOMAIN Bank[b].Log}
      BY <1>1, <1>5, <2>1 DEF Torn
    <2> QED BY <1>2, <1>5, <2>2
  <1>6. CASE ~ (Doing("Append") /\ Bank[b].Gap = 0) /\ ~ Doing("Mark") /\ ~ Doing("Data")
    <2>1. Torn(b) = {}
      BY <1>1, <1>6 DEF Torn
    <2> QED BY <2>1
  <1> QED BY <1>3, <1>4, <1>5, <1>6

\* A write to the log that was cut short.
LEMMA TornLog ==
    ASSUME Types, NEW b \in BankNo, NEW log \in Seq(Entry), nv' = [nv EXCEPT ![b].Log = log],
           Len(nv[b].Log) <= Len(log),
           \A i \in DOMAIN nv[b].Log : log[i] = nv[b].Log[i] \/ log[i] = Marked(nv[b].Log[i], "trans")
    PROVE  nv' \in [BankNo -> Image] /\ Clears
  <1>1. nv \in [BankNo -> Image] /\ nv[b] \in Image
    BY DEF Types
  <1>2. PICK old, new : old = nv[b] /\ new = [nv[b] EXCEPT !.Log = log]
    OBVIOUS
  <1>3. new \in Image /\ new.Header = old.Header /\ new.Log = log
    BY <1>1, <1>2, ImageFacts
  <1>4. nv' = [nv EXCEPT ![b] = new]
    BY <1>2
  <1>5. nv' \in [BankNo -> Image] /\ nv'[b] = new /\ \A c \in BankNo : c # b => nv'[c] = nv[c]
    BY <1>1, <1>3, <1>4
  <1>6. /\ old \in Image /\ Len(old.Log) <= Len(new.Log)
        /\ \A i \in DOMAIN old.Log : \/ new.Log[i] = Dead(old.Log[i].size)
                                     \/ new.Log[i] = old.Log[i]
                                     \/ new.Log[i] = Marked(old.Log[i], "trans")
    BY <1>1, <1>2, <1>3
  <1>7. OnlyClears(old, new)
    BY <1>3, <1>6, ClearsLog
  <1>8. Clears
    BY <1>2, <1>5, <1>7, ClearsOne
  <1> QED BY <1>5, <1>8

LEMMA PowerLossKeeps ==
    ASSUME IInv, PowerLoss
    PROVE  IInv' /\ Clears
  <1>0. Types
    BY DEF IInv
  <1>1. PICK b : b = Head(todo)[2]
    OBVIOUS
  <1>2. nv' = nv \/ nv' \in Torn(b)
    BY <1>1 DEF PowerLoss, Arg
  <1>3. nv' \in [BankNo -> Image] /\ Clears
    <2>1. CASE nv' = nv
      BY <1>0, <2>1, ClearsNone DEF Types
    <2>2. CASE nv' \in Torn(b)
      <3>1. /\ Kept(b)
            /\ \/ Doing("Append") /\ \E size \in GarbledSizes \cup {Arg(3).size} :
                     nv' = [nv EXCEPT ![b].Log = Append(nv[b].Log, Dead(size))]
               \/ Doing("Mark") /\ nv' = [nv EXCEPT ![b].Log = [nv[b].Log EXCEPT ![Arg(3)] = Marked(@, "trans")]]
               \/ Doing("Data") /\ \E k \in DOMAIN Bank[b].Log :
                     nv' = [nv EXCEPT ![b].Log = SubSeq(Bank[b].Log, 1, k)]
        BY <2>2, TornFacts
      <3>2. "Append" \in Working /\ "Mark" \in Working /\ "Data" \in Working
        BY DEF Working, OnBank
      <3>3. b \in BankNo
        BY <1>1, <3>1, <3>2, BankTop
      <3>4. PICK old : old = nv[b].Log
        OBVIOUS
      <3>5. old \in Seq(Entry) /\ Bank[b].Log \in Seq(Entry)
        BY <1>0, <3>3, <3>4, TypeFacts
      <3>6. CASE Doing("Append") /\ \E size \in GarbledSizes \cup {Arg(3).size} :
                     nv' = [nv EXCEPT ![b].Log = Append(nv[b].Log, Dead(size))]
        <4>1. PICK size \in GarbledSizes \cup {Arg(3).size} :
                     nv' = [nv EXCEPT ![b].Log = Append(nv[b].Log, Dead(size))]
          BY <3>6
        <4>2. Head(todo)[3] \in Entry
          BY <3>2, <3>6, BankTop, FrameFacts
        <4>3. size \in 1 .. VAR_SIZE_MASK
          BY <4>1, <4>2, EntryFacts, StoreAssumption DEF Arg
        <4>4. PICK d, log : d = Dead(size) /\ log = Append(old, Dead(size))
          OBVIOUS
        <4>5. d \in Entry
          BY <4>3, <4>4, EntryFacts
        <4>6. log \in Seq(Entry) /\ Len(old) <= Len(log) /\ \A i \in DOMAIN old : log[i] = old[i]
          BY <3>5, <4>4, <4>5
        <4>7. nv' = [nv EXCEPT ![b].Log = log]
          BY <3>4, <4>1, <4>4
        <4> QED BY <1>0, <3>3, <3>4, <4>6, <4>7, TornLog
      <3>7. CASE Doing("Mark") /\ nv' = [nv EXCEPT ![b].Log = [nv[b].Log EXCEPT ![Arg(3)] = Marked(@, "trans")]]
        <4>1. PICK j, m, log : j = Arg(3) /\ m = Marked(old[j], "trans") /\ log = [old EXCEPT ![j] = m]
          OBVIOUS
        <4>2. nv' = [nv EXCEPT ![b].Log = log]
          BY <3>4, <3>7, <4>1
        <4>3. log \in Seq(Entry) /\ Len(old) <= Len(log) /\ \A i \in DOMAIN old : log[i] = old[i] \/ log[i] = Marked(old[i], "trans")
          <5>1. CASE j \in DOMAIN old
            <6>1. old[j] \in Entry
              BY <3>5, <5>1
            <6>2. m \in Entry
              BY <4>1, <6>1, EntryFacts
            <6>3. log \in Seq(Entry) /\ Len(old) <= Len(log) /\ log[j] = m /\ \A i \in DOMAIN old : i # j => log[i] = old[i]
              BY <3>5, <4>1, <5>1, <6>2
            <6> QED BY <4>1, <6>3
          <5>2. CASE j \notin DOMAIN old
            <6>1. log = old
              BY <3>5, <4>1, <5>2
            <6> QED BY <3>5, <6>1
          <5> QED BY <5>1, <5>2
        <4> QED BY <1>0, <3>3, <3>4, <4>2, <4>3, TornLog
      <3>8. CASE Doing("Data") /\ \E k \in DOMAIN Bank[b].Log :
                     nv' = [nv EXCEPT ![b].Log = SubSeq(Bank[b].Log, 1, k)]
        <4>1. PICK k \in DOMAIN Bank[b].Log : nv' = [nv EXCEPT ![b].Log = SubSeq(Bank[b].Log, 1, k)]
          BY <3>8
        <4>2. StepOK(Head(todo)) /\ Head(todo)[1] = "Data"
          BY <3>2, <3>8, BankTop
        <4>3. old = <<>>
          BY <1>1, <3>1, <3>4, <4>2 DEF StepOK
        <4>4. PICK log : log = SubSeq(Bank[b].Log, 1, k)
          OBVIOUS
        <4>5. log \in Seq(Entry)
          BY <3>5, <4>1, <4>4
        <4>6. Len(old) = 0 /\ DOMAIN old = {} /\ Len(log) \in Nat
          BY <4>3, <4>5
        <4>7. Len(old) <= Len(log)
          BY <4>6
        <4>8. nv' = [nv EXCEPT ![b].Log = log]
          BY <4>1, <4>4
        <4> QED BY <1>0, <3>3, <3>4, <4>5, <4>6, <4>7, <4>8, TornLog
      <3> QED BY <3>1, <3>6, <3>7, <3>8
    <2> QED BY <1>2, <2>1, <2>2
  <1>4. Booting'
    <2>1. /\ Bank' = [c \in BankNo |-> NewBankRecord(Blank)] /\ Active' = [s \in Store |-> <<>>]
          /\ TBank' = [s \in Store |-> NoBank] /\ Sequence' = [s \in Store |-> 0] /\ todo' = Boot
      BY DEF PowerLoss
    <2>2. Boot' = Boot
      BY DEF Boot, BankNo, VariableStore
    <2> QED BY <1>3, <2>1, <2>2 DEF Booting
  <1> QED BY <1>3, <1>4, BootInvPrime

\* As long as no bank is found corrupt.
LEMMA StepKeeps ==
    ASSUME IInv, [Next]_vars, SizesTold, NeverCorrupt
    PROVE  IInv' /\ Clears
  <1>1. CASE Step
    BY <1>1, ZeroKeeps, EraseKeeps, NewHeaderKeeps, BankStateKeeps, CollectKeeps, DataKeeps, ActivateKeeps,
       GetTBankKeeps, ResetKeeps, RoomKeeps, AppendKeeps, MarkKeeps, AddBankKeeps, ScanKeeps, NotTruncated,
       RepairKeeps, CheckKeeps, DeleteKeeps, ReplaceKeeps, ReturnKeeps DEF Step, Truncate
  <1>2. CASE Call
    BY <1>2, SetKeeps, ExitKeeps DEF Call
  <1>3. CASE PowerLoss
    BY <1>3, PowerLossKeeps
  <1>4. CASE UNCHANGED vars
    <2>1. /\ UNCHANGED <<nv, Bank, Active, TBank, Sequence, request, todo>> /\ Types /\ Lists
      BY <1>4 DEF vars, memory, caller, IInv
    <2>2. Types'
      BY <2>1 DEF Types, IsRecord
    <2>3. Lists'
      BY <2>1 DEF Lists
    <2>4. Steps'
      <3>1. InOrder(todo') /\ \A f : In(f, todo') => StepOK(f)
        BY <2>1, PendingFacts DEF IInv
      <3> QED BY <2>1, <3>1, StepSame, PendingFactsPrime
    <2>5. Synced'
      <3> SUFFICES ASSUME NEW c \in BankNo PROVE HeaderOK(c)' /\ LogOK(c)'
        BY DEF Synced
      <3>1. HeaderOK(c) /\ LogOK(c)
        BY DEF IInv, Synced
      <3> QED BY <2>1, <3>1 DEF HeaderOK, LogOK, Kept, Pending, Doing, Used, Listed, IsTBank
    <2>6. Clears
      BY <2>1, ClearsNone
    <2> QED BY <2>2, <2>3, <2>4, <2>5, <2>6 DEF IInv
  <1> QED BY <1>1, <1>2, <1>3, <1>4 DEF Next

LEMMA Always ==
    ASSUME SizesTold
    PROVE  Spec /\ []NeverCorrupt => []IInv
  <1>1. IInv /\ [Next]_vars /\ NeverCorrupt => IInv'
    BY StepKeeps
  <1> QED BY <1>1, InitInv, PTL DEF Spec

\* The contract of UpdateStore holds wherever the power fails: once it is erased, the
\* bits of a bank are only cleared.  RtVarUpdateBankState, RtVarUpdateState and
\* RtVarGarbageCollectBank write from the copies in memory.  As long as recovery finds no
\* corrupt bank (varinit.c:708) and the size of every entry fits its Size field.
THEOREM OnlyClearsBits ==
    ASSUME SizesTold
    PROVE  Spec /\ []NeverCorrupt => BitsCleared
  <1>1. IInv /\ [Next]_vars /\ NeverCorrupt => [\A b \in BankNo : OnlyClears(nv[b], nv'[b])]_nv
    BY StepKeeps DEF Clears
  <1> QED BY <1>1, Always, PTL DEF Spec, BitsCleared

-----------------------------------------------------------------------------
(* The space is kept *)

\* What the steps of an update rely on: it marks valid entries, and there is room for
\* what it appends.
Fine(f) ==
    /\ f[1] = "Mark" => Valid(Bank[f[2]].Log[f[3]])
    /\ f[1] = "Append" => Valid(f[3]) /\ Tail_(Bank[f[2]].Log) + f[3].size <= BankSize

\* An update appends one entry, and marks nothing after it marked an entry as obsolete.
Apart(f, g) ==
    /\ f[1] = "Append" => g[1] # "Append"
    /\ f[1] = "Mark" /\ f[4] = "dead" => g[1] # "Mark"

AllApart(t) == \A i, j \in DOMAIN t : i < j => Apart(t[i], t[j])

Planned(t) == AllApart(t) /\ \A f : In(f, t) => Fine(f)

\* SpaceKept, for banks that were not found corrupt.
Accounts == \A b \in BankNo : Bank[b].InUse = Live(Bank[b].Log) /\ Tail_(Bank[b].Log) <= BankSize

AInv == IInv /\ Accounts /\ Planned(todo)

LEMMA ApartTail ==
    ASSUME NEW t \in Seq(Frame), t # <<>>, AllApart(t)
    PROVE  AllApart(Tail(t)) /\ \A f : In(f, Tail(t)) => Apart(Head(t), f)
  <1>1. /\ Len(t) \in Nat \ {0} /\ DOMAIN t = 1 .. Len(t) /\ Head(t) = t[1]
        /\ DOMAIN Tail(t) = 1 .. Len(t) - 1 /\ \A i \in 1 .. Len(t) - 1 : Tail(t)[i] = t[i + 1]
    OBVIOUS
  <1>2. \A i \in DOMAIN Tail(t) : i + 1 \in DOMAIN t /\ 1 < i + 1 /\ Tail(t)[i] = t[i + 1]
    BY <1>1
  <1>3. ASSUME NEW i \in DOMAIN Tail(t), NEW j \in DOMAIN Tail(t), i < j
        PROVE  Apart(Tail(t)[i], Tail(t)[j])
    <2>1. i + 1 < j + 1
      BY <1>1, <1>3
    <2> QED BY <2>1, <1>2 DEF AllApart
  <1>4. ASSUME NEW f, In(f, Tail(t))
        PROVE  Apart(Head(t), f)
    <2>1. PICK i \in DOMAIN Tail(t) : Tail(t)[i] = f
      BY <1>4 DEF In
    <2>2. 1 \in DOMAIN t
      BY <1>1
    <2>3. Apart(t[1], t[i + 1])
      BY <1>2, <2>2 DEF AllApart
    <2> QED BY <1>1, <1>2, <2>1, <2>3
  <1> QED BY <1>3, <1>4 DEF AllApart

LEMMA PlannedCat ==
    ASSUME NEW a \in Seq(Frame), NEW t \in Seq(Frame), Planned(a), Planned(t),
           \A f, g : In(f, a) /\ In(g, t) => Apart(f, g)
    PROVE  Planned(a \o t)
  <1> DEFINE c == a \o t
             m == Len(a)
  <1>1. /\ m \in Nat /\ Len(t) \in Nat /\ DOMAIN c = 1 .. m + Len(t)
        /\ DOMAIN a = 1 .. m /\ DOMAIN t = 1 .. Len(t)
        /\ \A i \in 1 .. m : c[i] = a[i]
        /\ \A i \in m + 1 .. m + Len(t) : c[i] = t[i - m]
    OBVIOUS
  <1> HIDE DEF c, m
  <1>2. \A i \in DOMAIN c : \/ i \in DOMAIN a /\ c[i] = a[i]
                            \/ i \notin DOMAIN a /\ i > m /\ i - m \in DOMAIN t /\ c[i] = t[i - m]
    BY <1>1
  <1>3. ASSUME NEW i \in DOMAIN c, NEW j \in DOMAIN c, i < j
        PROVE  Apart(c[i], c[j])
    <2>1. CASE j \in DOMAIN a
      <3>1. i \in DOMAIN a
        BY <2>1, <1>1, <1>3
      <3> QED BY <3>1, <2>1, <1>1, <1>3 DEF Planned, AllApart
    <2>2. CASE i \in DOMAIN a /\ j \notin DOMAIN a
      <3>1. c[i] = a[i] /\ j - m \in DOMAIN t /\ c[j] = t[j - m]
        BY <2>2, <1>2
      <3> QED BY <3>1, <2>2 DEF In
    <2>3. CASE i \notin DOMAIN a
      <3>1. j \notin DOMAIN a
        BY <2>3, <1>1, <1>3
      <3>2. i - m \in DOMAIN t /\ c[i] = t[i - m] /\ j - m \in DOMAIN t /\ c[j] = t[j - m]
        BY <2>3, <3>1, <1>2
      <3>3. i - m < j - m
        BY <1>1, <1>3
      <3> QED BY <3>2, <3>3 DEF Planned, AllApart
    <2> QED BY <2>1, <2>2, <2>3
  <1>4. \A f : In(f, c) <=> In(f, a) \/ In(f, t)
    BY CatFacts DEF c
  <1> QED BY <1>3, <1>4 DEF c, Planned, AllApart

LEMMA PlannedOne ==
    ASSUME NEW f \in Frame, Fine(f)
    PROVE  <<f>> \in Seq(Frame) /\ Planned(<<f>>) /\ \A g : In(g, <<f>>) <=> g = f
  <1>1. DOMAIN <<f>> = 1 .. 1 /\ \A i, j \in 1 .. 1 : ~ (i < j)
    OBVIOUS
  <1>2. <<f>> \in Seq(Frame) /\ \A g : In(g, <<f>>) <=> g = f
    BY OneFacts
  <1> QED BY <1>1, <1>2 DEF Planned, AllApart

\* Steps that do not update an entry.
Quiet(t) == \A f : In(f, t) => f[1] \notin Updating

LEMMA QuietPlanned ==
    ASSUME NEW t, Quiet(t)
    PROVE  Planned(t)
  BY DEF Quiet, Planned, AllApart, Apart, Fine, Updating, In

LEMMA QuietNext ==
    ASSUME \A f : In(f, todo') => f[1] \notin Updating
    PROVE  Planned(todo)'
  BY DEF Planned, AllApart, Apart, Fine, Updating, In

\* Only an update waits behind an update.
LEMMA QuietFirst ==
    ASSUME Types', Steps', todo' # <<>> => todo'[1][1] \notin Updating
    PROVE  Planned(todo)'
  <1>1. todo' \in Seq(Frame) /\ InOrder(todo')
    BY DEF Types, Steps
  <1>2. ASSUME NEW f, In(f, todo')
        PROVE  f[1] \notin Updating
    <2>1. PICK i \in DOMAIN todo' : todo'[i] = f
      BY <1>2 DEF In
    <2>2. todo' # <<>> /\ 1 \in DOMAIN todo' /\ i \in Nat /\ 1 <= i
      BY <1>1, <2>1
    <2>3. CASE i = 1
      BY <2>1, <2>2, <2>3
    <2>4. CASE i # 1
      <3>1. Before(todo'[1], todo'[i])
        BY <1>1, <2>2, <2>4 DEF InOrder
      <3> QED BY <2>1, <2>2, <3>1 DEF Before
    <2> QED BY <2>3, <2>4
  <1> QED BY <1>2, QuietNext

LEMMA QuietBehind ==
    ASSUME IInv, NEW op, Doing(op), op \notin Updating
    PROVE  /\ todo \in Seq(Frame) /\ Tail(todo) \in Seq(Frame) /\ Quiet(todo) /\ Quiet(Tail(todo))
  <1>1. /\ todo \in Seq(Frame) /\ Tail(todo) \in Seq(Frame) /\ Head(todo)[1] = op
        /\ \A f : In(f, Tail(todo)) => Before(Head(todo), f)
        /\ \A f : In(f, todo) => f = Head(todo) \/ In(f, Tail(todo))
    BY Top
  <1>2. \A f : In(f, Tail(todo)) => f[1] \notin Updating
    BY <1>1 DEF Before
  <1> QED BY <1>1, <1>2 DEF Quiet

LEMMA QuietCat ==
    ASSUME NEW a \in Seq(Frame), NEW t \in Seq(Frame), Quiet(a), Quiet(t), todo' = a \o t
    PROVE  Planned(todo)'
  BY CatFacts, QuietNext DEF Quiet

LEMMA QuietThen ==
    ASSUME IInv, NEW op, Doing(op), op \notin Updating, NEW a \in Seq(Frame), Quiet(a), Then(a)
    PROVE  Planned(todo)'
  <1>1. Tail(todo) \in Seq(Frame) /\ Quiet(Tail(todo))
    BY QuietBehind
  <1> QED BY <1>1, QuietCat DEF Then

LEMMA QuietDone ==
    ASSUME IInv, NEW op, Doing(op), op \notin Updating, Then(<<>>)
    PROVE  Planned(todo)'
  BY EmptyFacts, QuietThen DEF Quiet

\* The step that comes next is known.
LEMMA QuietOne ==
    ASSUME IInv, NEW op, Doing(op), op \notin Updating, Types', Steps',
           NEW S, NEW a \in Seq(S), a # <<>>, a[1][1] \notin Updating, Then(a)
    PROVE  Planned(todo)'
  <1>1. PICK t : t = Tail(todo)
    OBVIOUS
  <1>2. t \in Seq(Frame)
    BY <1>1, QuietBehind
  <1>3. (a \o t)[1] = a[1]
    BY <1>2
  <1>4. todo' = a \o t
    BY <1>1 DEF Then
  <1> QED BY <1>3, <1>4, QuietFirst

\* The banks hold the same entries.
LEMMA SpaceSame ==
    ASSUME Accounts, \A c \in BankNo : Bank'[c].Log = Bank[c].Log /\ Bank'[c].InUse = Bank[c].InUse
    PROVE  Accounts'
  BY DEF Accounts

LEMMA SpaceWrite ==
    ASSUME Types, Accounts, NEW b \in BankNo, NEW r, IsRecord(r), NEW img \in Image, Write(b, r, img),
           r.InUse = Live(r.Log), Tail_(r.Log) <= BankSize
    PROVE  Accounts'
  <1>1. /\ \A c \in BankNo : c # b => Bank'[c] = Bank[c]
        /\ Bank'[b].Log = r.Log /\ Bank'[b].InUse = r.InUse
    BY WriteFacts
  <1> QED BY <1>1 DEF Accounts

LEMMA SpaceHeader ==
    ASSUME Types, Accounts, NEW b \in BankNo, NEW h \in Header, WriteHeader(b, h)
    PROVE  Accounts'
  <1>1. PICK r, img : r = [Bank[b] EXCEPT !.Header = h] /\ img = [nv[b] EXCEPT !.Header = h]
    OBVIOUS
  <1>2. IsRecord(Bank[b]) /\ nv[b] \in Image
    BY TypeFacts
  <1>3. IsRecord(r) /\ r.Log = Bank[b].Log /\ r.InUse = Bank[b].InUse
    BY <1>1, <1>2, HeaderRecord
  <1>4. img \in Image
    BY <1>1, <1>2, ImageFacts
  <1>5. Write(b, r, img)
    BY <1>1 DEF WriteHeader
  <1>6. r.InUse = Live(r.Log) /\ Tail_(r.Log) <= BankSize
    BY <1>3 DEF Accounts
  <1> QED BY <1>3, <1>4, <1>5, <1>6, SpaceWrite

LEMMA OnBankTop ==
    ASSUME IInv, NEW op \in OnBank \cup {"BankState"}, Doing(op)
    PROVE  Head(todo)[2] \in BankNo /\ op \notin Updating /\ Types /\ Lists
  <1>1. op \in Working /\ op \notin Updating
    BY DEF Working, OnBank, Updating
  <1> QED BY <1>1, BankTop DEF IInv

LEMMA ZeroSpace ==
    ASSUME AInv, IInv', Zero
    PROVE  Accounts' /\ Planned(todo)'
  <1>1. PICK b : b = Head(todo)[2]
    OBVIOUS
  <1>2. /\ Doing("Zero")
        /\ \/ Then(<<>>) \/ Then(<< <<"Erase", b>> >>)
        /\ Bank' = Bank \/ WriteHeader(b, NoHeader)
    BY <1>1, Zenon DEF Zero, AfterZero, Arg
  <1>3. b \in BankNo /\ "Zero" \notin Updating /\ Types
    BY <1>1, <1>2, OnBankTop DEF AInv, OnBank
  <1>4. Accounts'
    BY <1>2, <1>3, SpaceSame, SpaceHeader, HeaderFacts DEF AInv
  <1>5. CASE Then(<<>>)
    BY <1>2, <1>3, <1>4, <1>5, QuietDone DEF AInv
  <1>6. CASE Then(<< <<"Erase", b>> >>)
    <2>1. PICK a : a = << <<"Erase", b>> >>
      OBVIOUS
    <2>2. a \in Seq({<<"Erase", b>>}) /\ a # <<>> /\ a[1][1] = "Erase"
      BY <2>1
    <2>3. a[1][1] \notin Updating
      BY <2>2 DEF Updating
    <2> QED BY <1>2, <1>3, <1>4, <1>6, <2>1, <2>2, <2>3, QuietOne DEF AInv, IInv
  <1> QED BY <1>2, <1>5, <1>6

LEMMA EraseSpace ==
    ASSUME AInv, IInv', Erase
    PROVE  Accounts' /\ Planned(todo)'
  <1>1. PICK b : b = Head(todo)[2]
    OBVIOUS
  <1>2. /\ Doing("Erase") /\ Write(b, Bank[b], Blank)
        /\ Then(<<>>) \/ Then(<< <<"NewHeader", b>> >>)
    BY <1>1, Zenon DEF Erase, Arg
  <1>3. b \in BankNo /\ "Erase" \notin Updating /\ Types
    BY <1>1, <1>2, OnBankTop DEF AInv, OnBank
  <1>4. Accounts'
    <2>1. IsRecord(Bank[b]) /\ Blank \in Image
      BY <1>3, TypeFacts, HeaderFacts
    <2>2. Bank[b].InUse = Live(Bank[b].Log) /\ Tail_(Bank[b].Log) <= BankSize
      BY <1>3 DEF AInv, Accounts
    <2> QED BY <1>2, <1>3, <2>1, <2>2, SpaceWrite DEF AInv
  <1>5. CASE Then(<<>>)
    BY <1>2, <1>3, <1>4, <1>5, QuietDone DEF AInv
  <1>6. CASE Then(<< <<"NewHeader", b>> >>)
    <2>1. PICK a : a = << <<"NewHeader", b>> >>
      OBVIOUS
    <2>2. a \in Seq({<<"NewHeader", b>>}) /\ a # <<>> /\ a[1][1] = "NewHeader"
      BY <2>1
    <2>3. a[1][1] \notin Updating
      BY <2>2 DEF Updating
    <2> QED BY <1>2, <1>3, <1>4, <1>6, <2>1, <2>2, <2>3, QuietOne DEF AInv, IInv
  <1> QED BY <1>2, <1>5, <1>6

\* An empty bank.
LEMMA NewRecordSpace ==
    ASSUME NEW img \in Image
    PROVE  LET r == NewBankRecord(img)
           IN  IsRecord(r) /\ r.InUse = Live(r.Log) /\ Tail_(r.Log) <= BankSize
  <1>1. PICK r : r = NewBankRecord(img)
    OBVIOUS
  <1>2. IsRecord(r) /\ r.Log = <<>> /\ r.InUse = FIRST_VARIABLE_OFFSET
    BY <1>1, NewRecordFacts
  <1>3. r.InUse = Live(r.Log) /\ Tail_(r.Log) <= BankSize
    BY <1>2, SpaceEmpty, FitsEmpty DEF Fits
  <1> QED BY <1>1, <1>2, <1>3

LEMMA NewHeaderSpace ==
    ASSUME AInv, IInv', NewHeader
    PROVE  Accounts' /\ Planned(todo)'
  <1>1. PICK b, q : b = Head(todo)[2] /\ q = NextSequence(Sequence[StoreOf[b]])
    OBVIOUS
  <1>2. PICK h : h = [Signature |-> TRUE, Sequence |-> q, State |-> {}]
    OBVIOUS
  <1>3. PICK new, img : new = [Blank EXCEPT !.Header = h] /\ img = [nv[b] EXCEPT !.Header = h]
    OBVIOUS
  <1>4. Doing("NewHeader") /\ Then(<<>>) /\ Write(b, NewBankRecord(new), img)
    BY <1>1, <1>2, <1>3, Zenon DEF NewHeader, Arg
  <1>5. b \in BankNo /\ "NewHeader" \notin Updating /\ Types
    BY <1>1, <1>4, OnBankTop DEF AInv, OnBank
  <1>6. q \in 0 .. VARH_MAX_SEQUENCE
    <2>1. Sequence[StoreOf[b]] \in 0 .. VARH_MAX_SEQUENCE
      BY <1>5, StoreFacts DEF Types
    <2> QED BY <1>1, <2>1, StoreAssumption DEF NextSequence
  <1>7. h \in Header
    <2>1. PICK x \in BOOLEAN : x = TRUE
      OBVIOUS
    <2>2. [Signature |-> x, Sequence |-> q, State |-> {}] \in Header
      BY <1>6 DEF Header
    <2> QED BY <1>2, <2>1, <2>2, Zenon
  <1>8. new \in Image /\ img \in Image
    <2>1. nv[b] \in Image /\ Blank \in Image
      BY <1>5, TypeFacts, HeaderFacts
    <2> QED BY <1>3, <1>7, <2>1, ImageFacts
  <1>9. PICK r : r = NewBankRecord(new)
    OBVIOUS
  <1>10. IsRecord(r) /\ r.InUse = Live(r.Log) /\ Tail_(r.Log) <= BankSize
    BY <1>8, <1>9, NewRecordSpace
  <1>11. Accounts'
    BY <1>4, <1>5, <1>8, <1>9, <1>10, SpaceWrite DEF AInv
  <1> QED BY <1>4, <1>5, <1>11, QuietDone DEF AInv

LEMMA BankStateSpace ==
    ASSUME AInv, IInv', UpdateBankState
    PROVE  Accounts' /\ Planned(todo)'
  <1>1. PICK b, h : b = Head(todo)[2] /\ h = [Bank[b].Header EXCEPT !.State = @ \cup {Head(todo)[3]}]
    OBVIOUS
  <1>2. Doing("BankState") /\ Then(<<>>) /\ WriteHeader(b, h)
    BY <1>1, Zenon DEF UpdateBankState, Arg
  <1>3. b \in BankNo /\ "BankState" \notin Updating /\ Types
    BY <1>1, <1>2, OnBankTop DEF AInv
  <1>4. h \in Header
    <2>1. Head(todo)[3] \in BankState
      BY <1>2, Top, FrameFacts DEF AInv
    <2>2. Bank[b].Header \in Header
      BY <1>3, TypeFacts
    <2> QED BY <1>1, <2>1, <2>2 DEF Header
  <1>5. Accounts'
    BY <1>2, <1>3, <1>4, SpaceHeader DEF AInv
  <1> QED BY <1>2, <1>3, <1>5, QuietDone DEF AInv

LEMMA ResetSpace ==
    ASSUME AInv, IInv', ResetSequence
    PROVE  Accounts' /\ Planned(todo)'
  <1>1. PICK b, h : b = Head(todo)[2] /\ h = [Bank[b].Header EXCEPT !.Sequence = 0]
    OBVIOUS
  <1>2. Doing("ResetSequence") /\ Then(<<>>) /\ WriteHeader(b, h)
    BY <1>1, Zenon DEF ResetSequence, Arg
  <1>3. b \in BankNo /\ "ResetSequence" \notin Updating /\ Types
    BY <1>1, <1>2, OnBankTop DEF AInv, OnBank
  <1>4. h \in Header
    <2>1. 0 \in 0 .. VARH_MAX_SEQUENCE
      BY StoreAssumption
    <2>2. Bank[b].Header \in Header
      BY <1>3, TypeFacts
    <2> QED BY <1>1, <2>1, <2>2 DEF Header
  <1>5. Accounts'
    BY <1>2, <1>3, <1>4, SpaceHeader DEF AInv
  <1> QED BY <1>2, <1>3, <1>5, QuietDone DEF AInv

LEMMA DataSpace ==
    ASSUME AInv, IInv', Data
    PROVE  Accounts' /\ Planned(todo)'
  <1>1. PICK b, img : b = Head(todo)[2] /\ img = [Header |-> Bank[b].Header, Log |-> Bank[b].Log]
    OBVIOUS
  <1>2. Doing("Data") /\ Then(<<>>) /\ Write(b, Bank[b], img)
    BY <1>1, Zenon DEF Data, Arg
  <1>3. b \in BankNo /\ "Data" \notin Updating /\ Types
    BY <1>1, <1>2, OnBankTop DEF AInv, OnBank
  <1>4. IsRecord(Bank[b]) /\ img \in Image
    BY <1>1, <1>3, TypeFacts DEF Image
  <1>5. Bank[b].InUse = Live(Bank[b].Log) /\ Tail_(Bank[b].Log) <= BankSize
    BY <1>3 DEF AInv, Accounts
  <1>6. Accounts'
    BY <1>2, <1>3, <1>4, <1>5, SpaceWrite DEF AInv
  <1> QED BY <1>2, <1>3, <1>6, QuietDone DEF AInv

LEMMA CollectSpace ==
    ASSUME AInv, IInv', Collect
    PROVE  Accounts' /\ Planned(todo)'
  <1>1. PICK old, new : old = Head(todo)[2] /\ new = TBank[StoreOf[old]]
    OBVIOUS
  <1>2. PICK log : log = Moved(old, new)
    OBVIOUS
  <1>3. /\ Doing("Collect")
        /\ \/ Then(<<>>) /\ UNCHANGED Bank
           \/ /\ new # NoBank /\ Then(ChangeOver(old, new))
              /\ Bank' = [Bank EXCEPT ![new].Log = log, ![new].InUse = Tail_(log)]
    BY <1>1, <1>2, Zenon DEF Collect, Arg
  <1>4. old \in BankNo /\ "Collect" \notin Updating /\ Types /\ Lists
    BY <1>1, <1>3, OnBankTop DEF AInv, OnBank
  <1>5. CASE Then(<<>>) /\ UNCHANGED Bank
    BY <1>3, <1>4, <1>5, SpaceSame, QuietDone DEF AInv
  <1>6. CASE /\ new # NoBank /\ Then(ChangeOver(old, new))
             /\ Bank' = [Bank EXCEPT ![new].Log = log, ![new].InUse = Tail_(log)]
    <2>1. new \in BankNo /\ Bank[new].Log = <<>>
      <3>1. PICK s : s = StoreOf[old]
        OBVIOUS
      <3>2. s \in Store /\ new = TBank[s]
        BY <1>1, <1>4, <3>1, StoreFacts
      <3>3. new \in BankNo \cup {NoBank}
        BY <1>4, <3>2 DEF Types
      <3>4. Bank[new].Log = <<>>
        BY <1>4, <1>6, <3>2 DEF Lists
      <3> QED BY <1>6, <3>3, <3>4
    <2>2. log \in Seq(Entry) /\ Fits(log)
      <3>1. Bank[old].Log \in Seq(Entry) /\ Bank[new].Log \in Seq(Entry)
        BY <1>4, <2>1, TypeFacts
      <3> QED BY <1>2, <2>1, <3>1, MovedFacts
    <2>3. Live(log) = Tail_(log) /\ Tail_(log) <= BankSize
      BY <2>2, SpaceValid DEF Fits
    <2>4. /\ \A c \in BankNo : c # new => Bank'[c] = Bank[c]
          /\ Bank'[new].Log = log /\ Bank'[new].InUse = Tail_(log)
      <3>1. DOMAIN Bank = BankNo /\ IsRecord(Bank[new])
        BY <1>4, <2>1 DEF Types
      <3>2. PICK B, u : B = [Bank EXCEPT ![new].Log = log] /\ u = Tail_(log)
        OBVIOUS
      <3>3. DOMAIN B = BankNo /\ B[new] = [Bank[new] EXCEPT !.Log = log] /\ \A c \in BankNo : c # new => B[c] = Bank[c]
        BY <2>1, <3>1, <3>2
      <3>4. Bank' = [B EXCEPT ![new].InUse = u]
        BY <1>6, <3>2
      <3>5. Bank'[new] = [B[new] EXCEPT !.InUse = u] /\ \A c \in BankNo : c # new => Bank'[c] = B[c]
        BY <2>1, <3>3, <3>4
      <3>6. Bank'[new] = WithLog(Bank[new], log, u)
        BY <3>3, <3>5 DEF WithLog
      <3>7. Bank'[new].Log = log /\ Bank'[new].InUse = u
        BY <2>2, <3>1, <3>6, LogRecord
      <3> QED BY <3>2, <3>3, <3>5, <3>7
    <2>5. Accounts'
      BY <2>3, <2>4 DEF AInv, Accounts
    <2>6. PICK over : over = ChangeOver(old, new)
      OBVIOUS
    <2>7. over \in Seq(Frame) /\ Quiet(over)
      <3>1. /\ over \in Seq(Frame)
            /\ \A f : In(f, over) => \/ f[1] = "BankState" \/ f = <<"Zero", old>>
                                     \/ f = <<"Data", new>> \/ f = <<"Activate", new>>
        BY <1>4, <2>1, <2>6, OverFacts
      <3> QED BY <3>1 DEF Quiet, Updating
    <2>8. Then(over)
      BY <1>6, <2>6
    <2> QED BY <1>3, <1>4, <2>5, <2>7, <2>8, QuietThen DEF AInv
  <1> QED BY <1>3, <1>5, <1>6

LEMMA ActivateSpace ==
    ASSUME AInv, IInv', Activate
    PROVE  Accounts' /\ Planned(todo)'
  <1>1. PICK a, n : a = <<n>> /\ n = <<"GetTBank", StoreOf[Head(todo)[2]]>>
    OBVIOUS
  <1>2. Doing("Activate") /\ Then(a) /\ Bank' = Bank
    BY <1>1, Zenon DEF Activate, Arg
  <1>3. "Activate" \notin Updating /\ a \in Seq({n}) /\ a # <<>> /\ a[1][1] = "GetTBank"
    BY <1>1 DEF Updating
  <1>4. a[1][1] \notin Updating
    BY <1>3 DEF Updating
  <1>5. Planned(todo)'
    BY <1>2, <1>3, <1>4, QuietOne DEF AInv, IInv
  <1> QED BY <1>2, <1>5, SpaceSame DEF AInv

LEMMA GetTBankSpace ==
    ASSUME AInv, IInv', GetTBank
    PROVE  Accounts' /\ Planned(todo)'
  <1>1. PICK s : s = Head(todo)[2]
    OBVIOUS
  <1>2. /\ Doing("GetTBank") /\ Bank' = Bank
        /\ \/ Then(<<>>)
           \/ todo' = [k \in DOMAIN Active[s] |-> <<"ResetSequence", Active[s][k]>>] \o todo
    BY <1>1, Zenon DEF GetTBank, Arg
  <1>3. "GetTBank" \notin Updating
    BY DEF Updating
  <1>4. Accounts'
    BY <1>2, SpaceSame DEF AInv
  <1>5. CASE Then(<<>>)
    BY <1>2, <1>3, <1>4, <1>5, QuietDone DEF AInv
  <1>6. CASE todo' = [k \in DOMAIN Active[s] |-> <<"ResetSequence", Active[s][k]>>] \o todo
    <2>1. Head(todo) \in Frame /\ Head(todo)[1] = "GetTBank"
      BY <1>2, Top DEF AInv
    <2>2. s \in Store
      BY <1>1, <2>1, FrameFacts
    <2>3. Active[s] \in Seq(BankNo)
      BY <2>2 DEF AInv, IInv, Types
    <2>4. PICK a : a = [k \in DOMAIN Active[s] |-> <<"ResetSequence", Active[s][k]>>]
      OBVIOUS
    <2>5. a \in Seq(Frame) /\ \A f : In(f, a) => f[1] = "ResetSequence"
      BY <2>3, <2>4, ResetFacts
    <2>6. Quiet(a)
      BY <2>5 DEF Quiet, Updating
    <2>7. todo \in Seq(Frame) /\ Quiet(todo)
      BY <1>2, <1>3, QuietBehind DEF AInv
    <2>8. todo' = a \o todo
      BY <1>6, <2>4
    <2>9. Planned(todo)'
      BY <2>5, <2>6, <2>7, <2>8, QuietCat
    <2> QED BY <1>4, <2>9
  <1> QED BY <1>2, <1>5, <1>6

LEMMA RoomSpace ==
    ASSUME AInv, IInv', Room
    PROVE  Accounts' /\ Planned(todo)'
  <1>1. PICK n : n = <<"Collect", Collectable(Head(todo)[2])>>
    OBVIOUS
  <1>2. Doing("Room") /\ Bank' = Bank /\ (todo' = <<n>> \o todo \/ Then(<<>>))
    BY <1>1, Zenon DEF Room, memory, Arg
  <1>3. "Room" \notin Updating /\ n[1] \notin Updating
    BY <1>1 DEF Updating
  <1>4. Accounts'
    BY <1>2, SpaceSame DEF AInv
  <1>5. CASE Then(<<>>)
    BY <1>2, <1>3, <1>4, <1>5, QuietDone DEF AInv
  <1>6. CASE todo' = <<n>> \o todo
    <2>1. todo \in Seq(Frame)
      BY DEF AInv, IInv, Types
    <2>2. todo'[1] = n
      BY <1>6, <2>1
    <2> QED BY <1>3, <1>4, <2>2, QuietFirst DEF IInv
  <1> QED BY <1>2, <1>5, <1>6

LEMMA AddBankSpace ==
    ASSUME AInv, IInv', AddBank
    PROVE  Accounts' /\ Planned(todo)'
  <1>1. PICK b : b = Head(todo)[2]
    OBVIOUS
  <1>2. PICK z, n, r : z = <<"Zero", b>> /\ n = <<"Scan", b>> /\ r = NewBankRecord(nv[b])
    OBVIOUS
  <1>3. /\ Doing("AddBank") /\ Bank' = [Bank EXCEPT ![b] = r]
        /\ Then(<<z>> \o <<n>>) \/ Then(<<n>>)
    BY <1>1, <1>2, Zenon DEF AddBank, ClearStore, Arg
  <1>4. b \in BankNo /\ "AddBank" \notin Updating /\ Types
    BY <1>1, <1>3, OnBankTop DEF AInv, OnBank
  <1>5. Accounts'
    <2>1. r.InUse = Live(r.Log) /\ Tail_(r.Log) <= BankSize
      BY <1>2, <1>4, TypeFacts, NewRecordSpace
    <2>2. Bank'[b] = r /\ \A c \in BankNo : c # b => Bank'[c] = Bank[c]
      BY <1>3, <1>4 DEF Types
    <2> QED BY <2>1, <2>2 DEF AInv, Accounts
  <1>6. z[1] \notin Updating /\ n[1] \notin Updating
    BY <1>2 DEF Updating
  <1>7. PICK a, c : a = <<z>> \o <<n>> /\ c = <<n>>
    OBVIOUS
  <1>8. a = <<z, n>>
    BY <1>7, PairCat
  <1>9. /\ a \in Seq({z, n}) /\ a # <<>> /\ a[1] = z
        /\ c \in Seq({z, n}) /\ c # <<>> /\ c[1] = n
    BY <1>7, <1>8
  <1>10. Then(a) \/ Then(c)
    BY <1>3, <1>7
  <1>11. Planned(todo)'
    BY <1>3, <1>4, <1>6, <1>9, <1>10, QuietOne DEF AInv, IInv
  <1> QED BY <1>5, <1>11

LEMMA ScanSpace ==
    ASSUME AInv, IInv', Scan, NeverCorrupt
    PROVE  Accounts' /\ Planned(todo)'
  <1>0. IInv
    BY DEF AInv
  <1>1. PICK b, s, log, u :
              /\ b \in BankNo /\ s \in Store /\ log \in Seq(Entry)
              /\ b = Head(todo)[2] /\ s = StoreOf[b] /\ log = nv[b].Log /\ u = Live(log)
              /\ Tail_(log) <= BankSize
              /\ Doing("Scan") /\ UNCHANGED <<nv, TBank, Sequence, EfiAtRuntime, caller>> /\ Then(<<>>)
              /\ \/ Active' = [Active EXCEPT ![s] = Without(@, b)] /\ UNCHANGED Bank
                 \/ EntriesRead(b, log, u) /\ UNCHANGED Active
    BY <1>0, ScanDone, Zenon
  <1>2. Doing("Scan") /\ Then(<<>>)
    BY <1>1
  <1>3. b \in BankNo /\ "Scan" \notin Updating /\ Types
    BY <1>1, <1>2, OnBankTop DEF AInv, OnBank
  <1>4. CASE UNCHANGED Bank
    BY <1>2, <1>3, <1>4, SpaceSame, QuietDone DEF AInv
  <1>6. CASE Bank' = [Bank EXCEPT ![b].Log = log, ![b].InUse = u]
    <2>1. DOMAIN Bank = BankNo /\ IsRecord(Bank[b]) /\ log \in Seq(Entry)
      BY <1>1, <1>3, TypeFacts DEF Types
    <2>2. PICK B : B = [Bank EXCEPT ![b].Log = log]
      OBVIOUS
    <2>3. DOMAIN B = BankNo /\ B[b] = [Bank[b] EXCEPT !.Log = log] /\ \A c \in BankNo : c # b => B[c] = Bank[c]
      BY <1>3, <2>1, <2>2
    <2>4. Bank' = [B EXCEPT ![b].InUse = u]
      BY <1>6, <2>2
    <2>5. Bank'[b] = [B[b] EXCEPT !.InUse = u] /\ \A c \in BankNo : c # b => Bank'[c] = B[c]
      BY <1>3, <2>3, <2>4
    <2>6. Bank'[b] = WithLog(Bank[b], log, u)
      BY <2>3, <2>5 DEF WithLog
    <2>7. Bank'[b].Log = log /\ Bank'[b].InUse = u
      BY <2>1, <2>6, LogRecord
    <2>8. Tail_(log) <= BankSize
      BY <1>1
    <2>9. Accounts'
      <3>1. \A c \in BankNo : c # b => Bank'[c] = Bank[c]
        BY <2>3, <2>5
      <3>2. Bank'[b].InUse = Live(Bank'[b].Log) /\ Tail_(Bank'[b].Log) <= BankSize
        BY <1>1, <2>7, <2>8
      <3> QED BY <3>1, <3>2 DEF AInv, Accounts
    <2> QED BY <1>2, <1>3, <1>6, <2>9, QuietDone DEF AInv
  <1> QED BY <1>1, <1>4, <1>6, Zenon DEF EntriesRead

\* Decisions leave the banks as they are.
LEMMA RepairSpace ==
    ASSUME AInv, IInv', Repair
    PROVE  Accounts' /\ Planned(todo)'
  <1>1. PICK s : s = Head(todo)[2]
    OBVIOUS
  <1>2. PICK old, new : old = (CHOOSE b \in Obsoleted(s) : TRUE) /\ new = (CHOOSE b \in Arriving(s) : TRUE)
    OBVIOUS
  <1>3. PICK c, z, m : c = <<"Collect", old>> /\ z = <<"Zero", old>> /\ m = <<"BankState", new, "INUSE">>
    OBVIOUS
  <1>4. /\ Doing("Repair") /\ Bank' = Bank
        /\ Then(<<c>>) \/ Then(<<z>> \o <<m>>) \/ Then(<<m>>) \/ Then(<<>>)
    BY <1>1, <1>2, <1>3, Zenon DEF Repair, ClearStore, CommitArriving, memory, Arg
  <1>5. "Repair" \notin Updating /\ c[1] \notin Updating /\ z[1] \notin Updating /\ m[1] \notin Updating
    BY <1>3 DEF Updating
  <1>6. Accounts'
    BY <1>4, SpaceSame DEF AInv
  <1>7. CASE Then(<<>>)
    BY <1>4, <1>5, <1>6, <1>7, QuietDone DEF AInv
  <1>8. CASE Then(<<c>>) \/ Then(<<z>> \o <<m>>) \/ Then(<<m>>)
    <2>1. PICK a1, a2, a3 : a1 = <<c>> /\ a2 = <<z>> \o <<m>> /\ a3 = <<m>>
      OBVIOUS
    <2>2. a2 = <<z, m>>
      BY <2>1, PairCat
    <2>3. /\ a1 \in Seq({c, z, m}) /\ a1 # <<>> /\ a1[1] = c
          /\ a2 \in Seq({c, z, m}) /\ a2 # <<>> /\ a2[1] = z
          /\ a3 \in Seq({c, z, m}) /\ a3 # <<>> /\ a3[1] = m
      BY <2>1, <2>2
    <2>4. Then(a1) \/ Then(a2) \/ Then(a3)
      BY <1>8, <2>1
    <2>5. Planned(todo)'
      BY <1>4, <1>5, <2>3, <2>4, QuietOne DEF AInv, IInv
    <2> QED BY <1>6, <2>5
  <1> QED BY <1>4, <1>7, <1>8

LEMMA ReturnSpace ==
    ASSUME AInv, IInv', ReturnStatus
    PROVE  Accounts' /\ Planned(todo)'
  <1>1. Bank' = Bank /\ todo' = <<>>
    BY DEF ReturnStatus, memory
  <1>2. Planned(todo)'
    BY <1>1, QuietFirst DEF IInv
  <1> QED BY <1>1, <1>2, SpaceSame DEF AInv

LEMMA ExitSpace ==
    ASSUME AInv, IInv', ExitBootServices
    PROVE  Accounts' /\ Planned(todo)'
  <1>1. Bank' = Bank /\ todo' = <<>>
    BY DEF ExitBootServices
  <1>2. Planned(todo)'
    BY <1>1, QuietFirst DEF IInv
  <1> QED BY <1>1, <1>2, SpaceSame DEF AInv

LEMMA SetSpace ==
    ASSUME AInv, IInv', NEW c \in Calls, SetVariable(c[1], c[2], c[3])
    PROVE  Accounts' /\ Planned(todo)'
  <1>1. PICK d, r, p : /\ d = <<"Delete">> /\ r = <<"Room", StoreFor(c[3]), VarSize[c[1]][c[2]]>>
                       /\ p = <<"Replace", StoreFor(c[3]), c[3] \in RuntimeStore>>
    OBVIOUS
  <1>2. Bank' = Bank /\ (todo' = <<d>> \/ todo' = <<r, p>>)
    BY <1>1, Zenon DEF SetVariable, memory
  <1>3. d[1] \notin Updating /\ r[1] \notin Updating
    BY <1>1 DEF Updating
  <1>4. todo'[1] = d \/ todo'[1] = r
    BY <1>2
  <1>5. Planned(todo)'
    BY <1>3, <1>4, QuietFirst DEF IInv
  <1> QED BY <1>2, <1>5, SpaceSame DEF AInv

\* The steps of an update that are planned can be put before those that wait.
LEMMA PlannedSame ==
    ASSUME Bank' = Bank, Planned(todo')
    PROVE  Planned(todo)'
  BY DEF Planned, AllApart, Fine

LEMMA PlannedQuiet ==
    ASSUME NEW a \in Seq(Frame), NEW t \in Seq(Frame), Planned(a), Quiet(t)
    PROVE  Planned(a \o t)
  <1>1. \A f, g : In(f, a) /\ In(g, t) => Apart(f, g)
    BY DEF Quiet, Apart, Updating
  <1> QED BY <1>1, PlannedCat, QuietPlanned

LEMMA PlannedThen ==
    ASSUME IInv, NEW op, Doing(op), op \notin Updating, Bank' = Bank,
           NEW a \in Seq(Frame), Planned(a), Then(a)
    PROVE  Planned(todo)'
  <1>1. PICK t : t = Tail(todo)
    OBVIOUS
  <1>2. t \in Seq(Frame) /\ Quiet(t) /\ todo' = a \o t
    BY <1>1, QuietBehind DEF Then
  <1>3. Planned(todo')
    BY <1>2, PlannedQuiet
  <1> QED BY <1>3, PlannedSame

LEMMA ReturnPlanned ==
    /\ Return("error") \in Seq(Frame) /\ Quiet(Return("error"))
    /\ Return("success") \in Seq(Frame) /\ Quiet(Return("success"))
  <1>1. PICK f, g : f = <<"Return", "error">> /\ g = <<"Return", "success">>
    OBVIOUS
  <1>2. f \in Frame /\ g \in Frame /\ f[1] = "Return" /\ g[1] = "Return"
    BY <1>1, OtherFrames
  <1>3. /\ <<f>> \in Seq(Frame) /\ \A h : In(h, <<f>>) <=> h = f
        /\ <<g>> \in Seq(Frame) /\ \A h : In(h, <<g>>) <=> h = g
    BY <1>2, OneFacts
  <1>4. Quiet(<<f>>) /\ Quiet(<<g>>)
    BY <1>2, <1>3 DEF Quiet, Updating
  <1> QED BY <1>1, <1>3, <1>4 DEF Return

LEMMA MarkPlanned ==
    ASSUME NEW b \in BankNo, NEW i \in Nat, NEW st \in {"trans", "dead"}, Valid(Bank[b].Log[i])
    PROVE  LET a == << <<"Mark", b, i, st>> >>
           IN  a \in Seq(Frame) /\ Planned(a) /\ \A g : In(g, a) <=> g = <<"Mark", b, i, st>>
  <1>1. PICK f : f = <<"Mark", b, i, st>>
    OBVIOUS
  <1>2. f \in Frame /\ f[1] = "Mark" /\ f[2] = b /\ f[3] = i
    BY <1>1, MarkFrame
  <1>3. Fine(f)
    BY <1>2 DEF Fine
  <1>4. <<f>> \in Seq(Frame) /\ Planned(<<f>>) /\ \A g : In(g, <<f>>) <=> g = f
    BY <1>2, <1>3, PlannedOne
  <1> QED BY <1>1, <1>4

LEMMA AppendPlanned ==
    ASSUME NEW b \in BankNo, NEW e \in Entry, Valid(e), Tail_(Bank[b].Log) + e.size <= BankSize
    PROVE  LET a == << <<"Append", b, e>> >>
           IN  a \in Seq(Frame) /\ Planned(a) /\ \A g : In(g, a) <=> g = <<"Append", b, e>>
  <1>1. PICK f : f = <<"Append", b, e>>
    OBVIOUS
  <1>2. f \in Frame /\ f[1] = "Append" /\ f[2] = b /\ f[3] = e
    BY <1>1, AppendFrame
  <1>3. Fine(f)
    BY <1>2 DEF Fine
  <1>4. <<f>> \in Seq(Frame) /\ Planned(<<f>>) /\ \A g : In(g, <<f>>) <=> g = f
    BY <1>2, <1>3, PlannedOne
  <1> QED BY <1>1, <1>4

\* RtVarFindFreeSpace leaves room for what is appended.
LEMMA RoomFacts ==
    ASSUME Types, Lists, NEW s \in Store, NEW size \in Nat, FreeBank(s, size) # NoBank
    PROVE  FreeBank(s, size) \in BankNo /\ Tail_(Bank[FreeBank(s, size)].Log) + size <= BankSize
  <1>1. PICK b : b = FreeBank(s, size)
    OBVIOUS
  <1>2. b \in BankNo /\ DataTail(b) + size < BankSize
    BY <1>1, FreeBankFacts
  <1>3. Bank[b].Log \in Seq(Entry) /\ Bank[b].Gap = 0
    BY <1>2, TypeFacts
  <1>4. Tail_(Bank[b].Log) \in Nat /\ BankSize \in Nat
    BY <1>3, SizesFacts, StoreAssumption
  <1>5. DataTail(b) = Tail_(Bank[b].Log)
    BY <1>3, <1>4 DEF DataTail
  <1>6. Tail_(Bank[b].Log) + size <= BankSize
    BY <1>2, <1>4, <1>5
  <1> QED BY <1>1, <1>2, <1>6

LEMMA DeleteSpace ==
    ASSUME AInv, IInv', Delete
    PROVE  Accounts' /\ Planned(todo)'
  <1>1. Doing("Delete") /\ Bank' = Bank
    BY DEF Delete, memory
  <1>2. Accounts'
    BY <1>1, SpaceSame DEF AInv
  <1>3. PICK old : old = RtVarFind(request.name)
    OBVIOUS
  <1>4. CASE old = NotFound
    <2>1. todo' = Return("error")
      BY <1>3, <1>4, Zenon DEF Delete
    <2>2. Planned(todo')
      BY <2>1, ReturnPlanned, QuietPlanned
    <2> QED BY <1>1, <1>2, <2>2, PlannedSame
  <1>5. CASE old # NotFound
    <2>1. todo' = << <<"Mark", old.bank, old.index, "dead">> >> \o Return("success")
      BY <1>3, <1>5, Zenon DEF Delete
    <2>2. old.bank \in BankNo /\ old.index \in Nat /\ Valid(Bank[old.bank].Log[old.index])
      BY <1>3, <1>5, FindFacts DEF AInv, IInv, EntryAt, Valid
    <2>3. PICK a : a = << <<"Mark", old.bank, old.index, "dead">> >>
      OBVIOUS
    <2>4. a \in Seq(Frame) /\ Planned(a)
      BY <2>2, <2>3, MarkPlanned
    <2>5. Planned(todo')
      BY <2>1, <2>3, <2>4, ReturnPlanned, PlannedQuiet
    <2> QED BY <1>1, <1>2, <2>5, PlannedSame
  <1> QED BY <1>4, <1>5

LEMMA ReplaceSpace ==
    ASSUME AInv, IInv', Replace, SizesTold
    PROVE  Accounts' /\ Planned(todo)'
  <1>1. Doing("Replace") /\ Bank' = Bank
    BY DEF Replace, memory
  <1>2. Accounts'
    BY <1>1, SpaceSame DEF AInv
  <1>3. PICK s, rt, n, v : s = Head(todo)[2] /\ rt = Head(todo)[3] /\ n = request.name /\ v = request.val
    OBVIOUS
  <1>4. s \in Store /\ rt \in BOOLEAN /\ n \in Name /\ v \in Val
    <2>1. Head(todo) \in Frame /\ Head(todo)[1] = "Replace" /\ StepOK(Head(todo))
      BY <1>1, DecisionTop DEF AInv
    <2>2. s \in Store /\ rt \in BOOLEAN
      BY <1>3, <2>1, FrameFacts
    <2>3. n \in Name /\ v \in Val
      BY <1>3, <2>1 DEF StepOK
    <2> QED BY <2>2, <2>3
  <1>5. PICK free, old, e : free = FreeBank(s, VarSize[n][v]) /\ old = RtVarFind(n) /\ e = Added(n, v, rt)
    OBVIOUS
  <1>6. PICK add : add = << <<"Append", free, e>> >>
    OBVIOUS
  <1>7. \/ todo' = Return("error")
        \/ todo' = Return("success")
        \/ free # NoBank /\ todo' = add \o Return("success")
        \/ /\ free # NoBank /\ old # NotFound
           /\ todo' = << <<"Mark", old.bank, old.index, "trans">> >> \o add
                        \o Supersede(old) \o Return("success")
    BY <1>3, <1>5, <1>6, Zenon DEF Replace, Arg
  <1>8. CASE todo' = Return("error") \/ todo' = Return("success")
    <2>1. Planned(todo')
      BY <1>8, ReturnPlanned, QuietPlanned
    <2> QED BY <1>1, <1>2, <2>1, PlannedSame
  <1>9. ASSUME free # NoBank
        PROVE  add \in Seq(Frame) /\ Planned(add) /\ \A g : In(g, add) <=> g = <<"Append", free, e>>
    <2>1. e \in Entry /\ VarSize[n][v] \in Nat
      BY <1>4, <1>5, EntryFacts, AddedFacts
    <2>2. e.size = VarSize[n][v] /\ Valid(e)
      BY <1>5 DEF Added, Valid
    <2>3. free \in BankNo /\ Tail_(Bank[free].Log) + e.size <= BankSize
      BY <1>4, <1>5, <1>9, <2>1, <2>2, RoomFacts DEF AInv, IInv
    <2> QED BY <1>6, <2>1, <2>2, <2>3, AppendPlanned
  <1>10. CASE free # NoBank /\ todo' = add \o Return("success")
    <2>1. Planned(todo')
      BY <1>9, <1>10, ReturnPlanned, PlannedQuiet
    <2> QED BY <1>1, <1>2, <2>1, PlannedSame
  <1>11. CASE /\ free # NoBank /\ old # NotFound
              /\ todo' = << <<"Mark", old.bank, old.index, "trans">> >> \o add
                           \o Supersede(old) \o Return("success")
    <2>1. old.bank \in BankNo /\ old.index \in Nat /\ Valid(Bank[old.bank].Log[old.index])
      BY <1>5, <1>11, FindFacts DEF AInv, IInv, EntryAt, Valid
    <2>2. PICK f, g, h : /\ f = <<"Mark", old.bank, old.index, "trans">> /\ g = <<"Append", free, e>>
                         /\ h = <<"Mark", old.bank, old.index, "dead">>
      OBVIOUS
    <2>3. /\ <<f>> \in Seq(Frame) /\ Planned(<<f>>) /\ \A x : In(x, <<f>>) <=> x = f
          /\ <<h>> \in Seq(Frame) /\ Planned(<<h>>) /\ \A x : In(x, <<h>>) <=> x = h
      BY <2>1, <2>2, MarkPlanned
    <2>4. add \in Seq(Frame) /\ Planned(add) /\ \A x : In(x, add) <=> x = g
      BY <1>9, <1>11, <2>2
    <2>5. Apart(f, g) /\ Apart(f, h) /\ Apart(g, h)
      BY <2>2 DEF Apart
    <2>6. PICK fa, fah : fa = <<f>> \o add /\ fah = fa \o <<h>>
      OBVIOUS
    <2>7. fa \in Seq(Frame) /\ Planned(fa) /\ \A x : In(x, fa) => x = f \/ x = g
      <3>1. \A x, y : In(x, <<f>>) /\ In(y, add) => Apart(x, y)
        BY <2>3, <2>4, <2>5
      <3> QED BY <2>3, <2>4, <2>6, <3>1, PlannedCat, CatFacts
    <2>8. fah \in Seq(Frame) /\ Planned(fah)
      <3>1. \A x, y : In(x, fa) /\ In(y, <<h>>) => Apart(x, y)
        BY <2>3, <2>5, <2>7
      <3> QED BY <2>3, <2>6, <2>7, <3>1, PlannedCat, CatFacts
    <2>9. todo' = fah \o Return("success")
      BY <1>11, <2>2, <2>6 DEF Supersede
    <2>10. Planned(todo')
      BY <2>8, <2>9, ReturnPlanned, PlannedQuiet
    <2> QED BY <1>1, <1>2, <2>10, PlannedSame
  <1> QED BY <1>7, <1>8, <1>10, <1>11

\* VarCheckBank marks entries that are not obsolete yet.
LEMMA CheckSpace ==
    ASSUME AInv, IInv', Check
    PROVE  Accounts' /\ Planned(todo)'
  <1>1. Doing("Check") /\ Bank' = Bank
    BY DEF Check, memory
  <1>2. "Check" \notin Updating
    BY DEF Updating
  <1>3. Accounts'
    BY <1>1, SpaceSame DEF AInv
  <1>4. PICK s, k, i0 : s = Head(todo)[2] /\ k = Head(todo)[3] /\ i0 = Head(todo)[4]
    OBVIOUS
  <1>5. s \in Store /\ k \in Nat \ {0} /\ i0 \in Nat \ {0}
    <2>1. Head(todo) \in Frame /\ Head(todo)[1] = "Check"
      BY <1>1, DecisionTop DEF AInv
    <2> QED BY <1>4, <2>1, FrameFacts
  <1> DEFINE b == Active[s][k]
             bad == {i \in i0 .. Len(Bank[b].Log) : Suspect(b, i)}
             i == Min(bad)
             e == Bank[b].Log[i]
             free == FreeBank(s, e.size)
             remove == << <<"Mark", b, i, "dead">>, <<"Check", s, k, i + 1>> >>
  <1>6. \/ Then(<<>>)
        \/ Then(<< <<"Check", s, k + 1, 1>> >>)
        \/ ~ (k > Len(Active[s])) /\ bad # {} /\ Then(remove)
        \/ /\ ~ (k > Len(Active[s])) /\ bad # {} /\ free # NoBank
           /\ Then(<< <<"Append", free, [e EXCEPT !.state = "added"]>> >> \o remove)
        \/ Then(<< <<"Room", s, e.size>>, <<"Check", s, 1, 1>> >>)
    BY <1>4, Zenon DEF Check, Arg
  <1>7. CASE Then(<<>>)
    BY <1>1, <1>2, <1>3, <1>7, QuietDone DEF AInv
  <1>8. CASE Then(<< <<"Check", s, k + 1, 1>> >>) \/ Then(<< <<"Room", s, e.size>>, <<"Check", s, 1, 1>> >>)
    <2>1. PICK f, g, h : f = <<"Check", s, k + 1, 1>> /\ g = <<"Room", s, e.size>> /\ h = <<"Check", s, 1, 1>>
      OBVIOUS
    <2>2. f[1] \notin Updating /\ g[1] \notin Updating
      BY <2>1 DEF Updating
    <2>3. PICK a1, a2 : a1 = <<f>> /\ a2 = <<g, h>>
      OBVIOUS
    <2>4. /\ a1 \in Seq({f, g, h}) /\ a1 # <<>> /\ a1[1] = f
          /\ a2 \in Seq({f, g, h}) /\ a2 # <<>> /\ a2[1] = g
      BY <2>3
    <2>5. Then(a1) \/ Then(a2)
      BY <1>8, <2>1, <2>3, Zenon
    <2>6. Planned(todo)'
      BY <1>1, <1>2, <2>2, <2>4, <2>5, QuietOne DEF AInv, IInv
    <2> QED BY <1>3, <2>6
  <1>9. ASSUME ~ (k > Len(Active[s])), bad # {}
        PROVE  b \in BankNo /\ i \in Nat \ {0} /\ e \in Entry /\ Valid(e)
    <2>1. Active[s] \in Seq(BankNo)
      BY <1>5 DEF AInv, IInv, Types
    <2>2. k \in DOMAIN Active[s]
      BY <1>5, <1>9, <2>1
    <2>3. b \in BankNo
      BY <2>1, <2>2
    <2> HIDE DEF b
    <2>4. Bank[b].Log \in Seq(Entry)
      BY <2>3, TypeFacts DEF AInv, IInv
    <2>5. bad \in SUBSET Nat
      BY <1>5, <2>4
    <2>6. i \in bad
      BY <1>9, <2>5, MinFacts
    <2>7. i \in i0 .. Len(Bank[b].Log) /\ Suspect(b, i)
      BY <2>6
    <2> HIDE DEF i
    <2>8. i \in Nat \ {0} /\ Bank[b].Log[i] \in Entry
      BY <1>5, <2>4, <2>7
    <2>9. Valid(Bank[b].Log[i])
      BY <2>7 DEF Suspect
    <2> QED BY <2>3, <2>8, <2>9
  <1>10. ASSUME ~ (k > Len(Active[s])), bad # {}
         PROVE  /\ remove \in Seq(Frame) /\ Planned(remove)
                /\ \A x : In(x, remove) => x = <<"Mark", b, i, "dead">> \/ x = <<"Check", s, k, i + 1>>
    <2>1. b \in BankNo /\ i \in Nat \ {0} /\ Valid(Bank[b].Log[i])
      BY <1>9, <1>10
    <2> HIDE DEF b, i
    <2>2. PICK f, g : f = <<"Mark", b, i, "dead">> /\ g = <<"Check", s, k, i + 1>>
      OBVIOUS
    <2>3. <<f>> \in Seq(Frame) /\ Planned(<<f>>) /\ \A x : In(x, <<f>>) <=> x = f
      BY <2>1, <2>2, MarkPlanned
    <2>4. i + 1 \in Nat \ {0}
      BY <2>1
    <2>5. g \in Frame /\ g[1] = "Check"
      BY <1>5, <2>2, <2>4, CheckFrame
    <2>6. <<g>> \in Seq(Frame) /\ \A x : In(x, <<g>>) <=> x = g
      BY <2>5, OneFacts
    <2>7. Quiet(<<g>>)
      BY <2>5, <2>6 DEF Quiet, Updating
    <2>8. PICK t : t = <<f>> \o <<g>>
      OBVIOUS
    <2>9. t \in Seq(Frame) /\ Planned(t) /\ \A x : In(x, t) => x = f \/ x = g
      BY <2>3, <2>6, <2>7, <2>8, PlannedQuiet, CatFacts
    <2>10. t = <<f, g>>
      BY <2>8, PairCat
    <2> QED BY <2>2, <2>9, <2>10
  <1>11. CASE ~ (k > Len(Active[s])) /\ bad # {} /\ Then(remove)
    <2>1. PICK t : t = remove
      OBVIOUS
    <2>2. t \in Seq(Frame) /\ Planned(t) /\ Then(t)
      BY <1>10, <1>11, <2>1, Zenon
    <2> QED BY <1>1, <1>2, <1>3, <2>2, PlannedThen DEF AInv
  <1>12. CASE /\ ~ (k > Len(Active[s])) /\ bad # {} /\ free # NoBank
              /\ Then(<< <<"Append", free, [e EXCEPT !.state = "added"]>> >> \o remove)
    <2>1. PICK t, f, g : t = remove /\ f = <<"Mark", b, i, "dead">> /\ g = <<"Check", s, k, i + 1>>
      OBVIOUS
    <2>2. t \in Seq(Frame) /\ Planned(t) /\ \A x : In(x, t) => x = f \/ x = g
      BY <1>10, <1>12, <2>1, Zenon
    <2>3. PICK o : o = e
      OBVIOUS
    <2>4. o \in Entry
      BY <1>9, <1>12, <2>3
    <2>5. PICK c, n : c = free /\ n = [o EXCEPT !.state = "added"]
      OBVIOUS
    <2>6. n \in Entry /\ n.size = o.size /\ n.size \in Nat /\ Valid(n)
      <3>1. n \in Entry /\ o.size \in Nat
        BY <2>4, <2>5, EntryFacts
      <3>2. n.size = o.size /\ n.state = "added"
        BY <2>4, <2>5 DEF Entry
      <3> QED BY <3>1, <3>2 DEF Valid
    <2>7. c = FreeBank(s, n.size) /\ c # NoBank
      BY <1>12, <2>3, <2>5, <2>6
    <2>8. c \in BankNo /\ Tail_(Bank[c].Log) + n.size <= BankSize
      BY <1>5, <2>6, <2>7, RoomFacts DEF AInv, IInv
    <2>9. PICK y, a : y = <<"Append", c, n>> /\ a = <<y>>
      OBVIOUS
    <2>10. a \in Seq(Frame) /\ Planned(a) /\ \A x : In(x, a) <=> x = y
      BY <2>6, <2>8, <2>9, AppendPlanned
    <2>11. Apart(y, f) /\ Apart(y, g)
      BY <2>1, <2>9 DEF Apart
    <2>12. PICK u : u = a \o t
      OBVIOUS
    <2>13. u \in Seq(Frame) /\ Planned(u)
      BY <2>2, <2>10, <2>11, <2>12, PlannedCat, CatFacts
    <2>14. Then(u)
      BY <1>12, <2>1, <2>3, <2>5, <2>9, <2>12, Zenon
    <2> QED BY <1>1, <1>2, <1>3, <2>13, <2>14, PlannedThen DEF AInv
  <1> QED BY <1>6, <1>7, <1>8, <1>11, <1>12

\* The entry of the update that is due.
LEMMA UpdateTop ==
    ASSUME AInv, NEW op \in Updating, Doing(op)
    PROVE  /\ Types /\ todo \in Seq(Frame) /\ todo # <<>> /\ Head(todo) \in Frame /\ Head(todo)[1] = op
           /\ StepOK(Head(todo)) /\ Fine(Head(todo)) /\ Head(todo)[2] \in BankNo
           /\ AllApart(Tail(todo))
           /\ \A f : In(f, Tail(todo)) => f \in Frame /\ Fine(f) /\ StepOK(f) /\ Apart(Head(todo), f)
  <1>1. /\ Types /\ todo \in Seq(Frame) /\ todo # <<>> /\ Head(todo) \in Frame /\ Head(todo)[1] = op
        /\ StepOK(Head(todo)) /\ In(Head(todo), todo)
        /\ \A f : In(f, Tail(todo)) => f \in Frame /\ StepOK(f) /\ In(f, todo)
    BY Top DEF AInv, IInv
  <1>2. Head(todo)[2] \in BankNo
    BY <1>1, FrameFacts DEF Updating
  <1>3. AllApart(Tail(todo)) /\ \A f : In(f, Tail(todo)) => Apart(Head(todo), f)
    BY <1>1, ApartTail DEF AInv, Planned
  <1> QED BY <1>1, <1>2, <1>3 DEF AInv, Planned

\* An update goes on, or ends with an error.
LEMMA UpdateNext ==
    ASSUME AInv, NEW op \in Updating, Doing(op), todo' = Return("error") \/ Then(<<>>),
           \A f : In(f, Tail(todo)) => Fine(f)'
    PROVE  Planned(todo)'
  <1>1. CASE todo' = Return("error")
    <2>1. \A f : In(f, todo') => f[1] \notin Updating
      BY <1>1, ReturnPlanned DEF Quiet
    <2> QED BY <2>1, QuietNext
  <1>2. CASE Then(<<>>)
    <2>1. Tail(todo) \in Seq(Frame) /\ AllApart(Tail(todo))
      BY UpdateTop, TailFacts
    <2>2. PICK t : t = Tail(todo)
      OBVIOUS
    <2>3. todo' = t
      BY <1>2, <2>1, <2>2 DEF Then
    <2> QED BY <2>1, <2>2, <2>3 DEF Planned, AllApart, Apart
  <1> QED BY <1>1, <1>2

\* SetVariable and RtVarMove append where there is room.
LEMMA AppendSpace ==
    ASSUME AInv, IInv', AppendEntry
    PROVE  Accounts' /\ Planned(todo)'
  <1>0. IInv
    BY DEF AInv
  <1>1. PICK b, e, log, n :
              /\ b \in BankNo /\ e \in Entry
              /\ b = Head(todo)[2] /\ e = Head(todo)[3]
              /\ log = Append(Bank[b].Log, e) /\ n = Bank[b].InUse + e.size
              /\ Doing("Append") /\ UNCHANGED <<Active, TBank, Sequence, EfiAtRuntime, caller>>
              /\ Write(b, [Bank[b] EXCEPT !.Log = log, !.InUse = n], [nv[b] EXCEPT !.Log = log])
              /\ todo' = Return("error") \/ Then(<<>>)
    BY <1>0, AppendDone, Zenon
  <1>2. PICK q : q = Bank[b].Log
    OBVIOUS
  <1>3. PICK r, img : r = [Bank[b] EXCEPT !.Log = log, !.InUse = n] /\ img = [nv[b] EXCEPT !.Log = log]
    OBVIOUS
  <1>4. /\ Doing("Append") /\ Write(b, r, img)
        /\ todo' = Return("error") \/ Then(<<>>)
    BY <1>1, <1>3, Zenon
  <1>18. log = Append(q, e) /\ n = Bank[b].InUse + e.size
    BY <1>1, <1>2
  <1>5. "Append" \in Updating
    BY DEF Updating
  <1>6. /\ Types /\ b \in BankNo /\ Fine(Head(todo)) /\ Head(todo)[1] = "Append" /\ Head(todo) \in Frame
        /\ \A f : In(f, Tail(todo)) => f \in Frame /\ Fine(f) /\ StepOK(f) /\ Apart(Head(todo), f)
    BY <1>1, <1>4, <1>5, UpdateTop
  <1>7. e \in Entry /\ Valid(e) /\ Tail_(Bank[b].Log) + e.size <= BankSize
    BY <1>1, <1>6, FrameFacts DEF Fine
  <1>8. q \in Seq(Entry) /\ IsRecord(Bank[b]) /\ nv[b] \in Image
    BY <1>2, <1>6, TypeFacts
  <1>9. log \in Seq(Entry) /\ \A i \in DOMAIN q : log[i] = q[i]
    BY <1>7, <1>8, <1>18
  <1>10. Tail_(log) = Tail_(q) + e.size /\ Live(log) = Live(q) + e.size
    BY <1>7, <1>8, <1>18, SpaceAppend
  <1>11. IsRecord(r) /\ r.Log = log /\ r.InUse = n
    <2>1. r = WithLog(Bank[b], log, n)
      BY <1>3 DEF WithLog
    <2> QED BY <1>8, <1>9, <2>1, LogRecord
  <1>12. img \in Image
    BY <1>3, <1>8, <1>9, ImageFacts
  <1>13. n = Live(log) /\ Tail_(log) <= BankSize
    BY <1>2, <1>6, <1>7, <1>10, <1>18 DEF AInv, Accounts
  <1>14. Accounts'
    BY <1>4, <1>6, <1>11, <1>12, <1>13, SpaceWrite DEF AInv
  <1>15. Bank'[b].Log = log /\ \A c \in BankNo : c # b => Bank'[c] = Bank[c]
    BY <1>4, <1>6, <1>11, <1>12, WriteFacts
  <1>16. ASSUME NEW f, In(f, Tail(todo))
         PROVE  Fine(f)'
    <2>1. Fine(f) /\ StepOK(f) /\ f \in Frame /\ f[1] # "Append"
      BY <1>6, <1>16 DEF Apart
    <2>2. CASE f[1] = "Mark"
      <3>1. f[2] \in BankNo /\ f[3] \in DOMAIN Bank[f[2]].Log /\ Valid(Bank[f[2]].Log[f[3]])
        BY <2>1, <2>2, FrameFacts DEF StepOK, Fine
      <3>2. Bank'[f[2]].Log[f[3]] = Bank[f[2]].Log[f[3]]
        BY <1>2, <1>9, <1>15, <3>1
      <3> QED BY <2>1, <3>1, <3>2 DEF Fine
    <2>3. CASE f[1] # "Mark"
      BY <2>1, <2>3 DEF Fine
    <2> QED BY <2>2, <2>3
  <1>17. Planned(todo)'
    BY <1>4, <1>5, <1>16, UpdateNext
  <1> QED BY <1>14, <1>17

LEMMA MarkedFacts ==
    ASSUME NEW e \in Entry, NEW st \in {"trans", "dead"}
    PROVE  /\ Marked(e, st) \in Entry /\ Marked(e, st).size = e.size
           /\ Valid(Marked(e, st)) <=> st = "trans"
  <1>1. CASE st = "trans"
    <2>1. Marked(e, st) = [e EXCEPT !.state = "trans"]
      BY <1>1 DEF Marked
    <2>2. [e EXCEPT !.state = "trans"].size = e.size /\ [e EXCEPT !.state = "trans"].state = "trans"
      BY DEF Entry
    <2> QED BY <1>1, <2>1, <2>2, EntryFacts DEF Valid
  <1>2. CASE st = "dead"
    <2>1. Marked(e, st) = Dead(e.size)
      BY <1>2 DEF Marked
    <2> QED BY <1>2, <2>1, EntryFacts DEF Valid, Dead
  <1> QED BY <1>1, <1>2

\* RtVarUpdateState gives back the space of an entry that becomes obsolete.
LEMMA MarkSpace ==
    ASSUME AInv, IInv', Mark
    PROVE  Accounts' /\ Planned(todo)'
  <1>1. PICK b, i, st : b = Head(todo)[2] /\ i = Head(todo)[3] /\ st = Head(todo)[4]
    OBVIOUS
  <1>2. PICK q, e : q = Bank[b].Log /\ e = Bank[b].Log[i]
    OBVIOUS
  <1>3. PICK m, n : m = Marked(e, st) /\ n = Bank[b].InUse - Freed(e, st)
    OBVIOUS
  <1>4. PICK log : log = [Bank[b].Log EXCEPT ![i] = m]
    OBVIOUS
  <1>5. PICK r, img : r = [Bank[b] EXCEPT !.Log = log, !.InUse = n] /\ img = [nv[b] EXCEPT !.Log = log]
    OBVIOUS
  <1>6. /\ Doing("Mark") /\ Write(b, r, img)
        /\ todo' = Return("error") \/ Then(<<>>)
    BY <1>1, <1>2, <1>3, <1>4, <1>5, Zenon DEF Mark, Arg
  <1>7. "Mark" \in Updating
    BY DEF Updating
  <1>8. /\ Types /\ b \in BankNo /\ Fine(Head(todo)) /\ StepOK(Head(todo))
        /\ Head(todo)[1] = "Mark" /\ Head(todo) \in Frame
        /\ \A f : In(f, Tail(todo)) => f \in Frame /\ Fine(f) /\ StepOK(f) /\ Apart(Head(todo), f)
    BY <1>1, <1>6, <1>7, UpdateTop
  <1>9. st \in {"trans", "dead"} /\ i \in DOMAIN q /\ Valid(e)
    BY <1>1, <1>2, <1>8, FrameFacts DEF StepOK, Fine
  <1>10. q \in Seq(Entry) /\ IsRecord(Bank[b]) /\ nv[b] \in Image
    BY <1>2, <1>8, TypeFacts
  <1>11. e \in Entry /\ e = q[i]
    BY <1>2, <1>9, <1>10
  <1>12. m \in Entry /\ m.size = e.size /\ (Valid(m) <=> st = "trans") /\ e.size \in Nat
    BY <1>3, <1>9, <1>11, MarkedFacts, EntryFacts
  <1>13. log = [q EXCEPT ![i] = m]
    BY <1>2, <1>4
  <1>14. log \in Seq(Entry) /\ log[i] = m /\ \A j \in DOMAIN q : j # i => log[j] = q[j]
    BY <1>9, <1>10, <1>12, <1>13
  <1>15. Tail_(log) = Tail_(q) /\ Live(log) = IF st = "trans" THEN Live(q) ELSE Live(q) - e.size
    <2>1. Tail_(log) = Tail_(q) /\ Live(log) = IF Valid(m) THEN Live(q) ELSE Live(q) - m.size
      BY <1>9, <1>10, <1>11, <1>12, <1>13, SpaceMark
    <2> QED BY <1>12, <2>1
  <1>16. IsRecord(r) /\ r.Log = log /\ r.InUse = n
    <2>1. r = WithLog(Bank[b], log, n)
      BY <1>5 DEF WithLog
    <2> QED BY <1>10, <1>14, <2>1, LogRecord
  <1>17. img \in Image
    BY <1>5, <1>10, <1>14, ImageFacts
  <1>18. n = Live(log) /\ Tail_(log) <= BankSize
    <2>1. Bank[b].InUse = Live(q) /\ Tail_(q) <= BankSize
      BY <1>2, <1>8 DEF AInv, Accounts
    <2>2. Live(q) \in Nat
      BY <1>10, SizesFacts
    <2> QED BY <1>3, <1>9, <1>12, <1>15, <2>1, <2>2 DEF Freed
  <1>19. Accounts'
    BY <1>6, <1>8, <1>16, <1>17, <1>18, SpaceWrite DEF AInv
  <1>20. Bank'[b].Log = log /\ \A c \in BankNo : c # b => Bank'[c] = Bank[c]
    BY <1>6, <1>8, <1>16, <1>17, WriteFacts
  <1>21. ASSUME NEW f, In(f, Tail(todo))
         PROVE  Fine(f)'
    <2>1. Fine(f) /\ StepOK(f) /\ f \in Frame /\ Apart(Head(todo), f)
      BY <1>8, <1>21
    <2>2. CASE f[1] = "Mark"
      <3>1. f[2] \in BankNo /\ f[3] \in DOMAIN Bank[f[2]].Log /\ Valid(Bank[f[2]].Log[f[3]])
        BY <2>1, <2>2, FrameFacts DEF StepOK, Fine
      <3>2. st = "trans"
        BY <1>1, <1>8, <1>9, <2>1, <2>2 DEF Apart
      <3>3. Valid(Bank'[f[2]].Log[f[3]])
        <4>1. CASE f[2] = b /\ f[3] = i
          BY <1>12, <1>14, <1>20, <3>2, <4>1
        <4>2. CASE f[2] = b /\ f[3] # i
          BY <1>2, <1>14, <1>20, <3>1, <4>2
        <4>3. CASE f[2] # b
          BY <1>20, <3>1, <4>3
        <4> QED BY <4>1, <4>2, <4>3
      <3> QED BY <2>2, <3>3 DEF Fine
    <2>3. CASE f[1] = "Append"
      <3>1. f[2] \in BankNo /\ Valid(f[3]) /\ Tail_(Bank[f[2]].Log) + f[3].size <= BankSize
        BY <2>1, <2>3, FrameFacts DEF Fine
      <3>2. Tail_(Bank'[f[2]].Log) = Tail_(Bank[f[2]].Log)
        BY <1>2, <1>15, <1>20, <3>1
      <3> QED BY <2>3, <3>1, <3>2 DEF Fine
    <2>4. CASE f[1] # "Mark" /\ f[1] # "Append"
      BY <2>4 DEF Fine
    <2> QED BY <2>2, <2>3, <2>4
  <1>22. Planned(todo)'
    BY <1>6, <1>7, <1>21, UpdateNext
  <1> QED BY <1>19, <1>22

\* When recovery starts the copies in memory are empty.
LEMMA BlankSpace == NewBankRecord(Blank).InUse = Live(NewBankRecord(Blank).Log) /\ Tail_(NewBankRecord(Blank).Log) <= BankSize
  BY HeaderFacts, NewRecordSpace

LEMMA BootQuiet == Quiet(Boot)
  <1>1. ASSUME NEW f, In(f, Boot)
        PROVE  f[1] \notin Updating
    <2>1. CASE \E b \in BankNo : f = <<"AddBank", b>>
      <3>1. f[1] = "AddBank"
        BY <2>1
      <3> QED BY <3>1 DEF Updating
    <2>2. CASE f[1] \notin Working
      BY <2>2 DEF Working, Updating
    <2> QED BY <1>1, <2>1, <2>2, BootFacts
  <1> QED BY <1>1 DEF Quiet

LEMMA PowerLossSpace ==
    ASSUME PowerLoss
    PROVE  Accounts' /\ Planned(todo)'
  <1>1. Bank' = [b \in BankNo |-> NewBankRecord(Blank)] /\ todo' = Boot
    BY DEF PowerLoss
  <1>2. \A b \in BankNo : Bank'[b] = NewBankRecord(Blank)
    BY <1>1
  <1>3. Accounts'
    BY <1>2, BlankSpace DEF Accounts
  <1>4. Planned(todo)'
    BY <1>1, BootQuiet, QuietNext DEF Quiet
  <1> QED BY <1>3, <1>4

LEMMA InitSpace == Init => AInv
  <1> SUFFICES ASSUME Init PROVE AInv
    OBVIOUS
  <1>1. Bank = [b \in BankNo |-> NewBankRecord(Blank)] /\ todo = Boot
    BY DEF Init
  <1>2. \A b \in BankNo : Bank[b] = NewBankRecord(Blank)
    BY <1>1
  <1>3. Accounts
    BY <1>2, BlankSpace DEF Accounts
  <1> QED BY <1>1, <1>3, InitInv, BootQuiet, QuietPlanned DEF AInv

LEMMA StepSpace ==
    ASSUME AInv, [Next]_vars, SizesTold, NeverCorrupt
    PROVE  AInv'
  <1>1. IInv'
    BY StepKeeps DEF AInv
  <1>2. CASE Step
    BY <1>1, <1>2, ZeroSpace, EraseSpace, NewHeaderSpace, BankStateSpace, CollectSpace, DataSpace, ActivateSpace,
       GetTBankSpace, ResetSpace, RoomSpace, AppendSpace, MarkSpace, AddBankSpace, ScanSpace, NotTruncated,
       RepairSpace, CheckSpace, DeleteSpace, ReplaceSpace, ReturnSpace DEF Step, AInv, Truncate
  <1>3. CASE Call
    BY <1>1, <1>3, SetSpace, ExitSpace DEF Call, AInv
  <1>4. CASE PowerLoss
    BY <1>1, <1>4, PowerLossSpace DEF AInv
  <1>5. CASE UNCHANGED vars
    <2>1. Bank' = Bank /\ todo' = todo
      BY <1>5 DEF vars, memory
    <2>2. Planned(todo)'
      BY <2>1, PlannedSame DEF AInv
    <2> QED BY <1>1, <2>1, <2>2, SpaceSame DEF AInv
  <1> QED BY <1>2, <1>3, <1>4, <1>5 DEF Next

LEMMA AccountsFacts == IInv => (Accounts <=> SpaceKept)
  <1> SUFFICES ASSUME IInv PROVE Accounts <=> SpaceKept
    OBVIOUS
  <1>1. ASSUME NEW b \in BankNo
        PROVE  DataTail(b) = Tail_(Bank[b].Log)
    <2>1. Bank[b].Gap = 0 /\ Tail_(Bank[b].Log) \in Nat
      BY TypeFacts, SizesFacts DEF IInv
    <2> QED BY <2>1 DEF DataTail
  <1> QED BY <1>1 DEF Accounts, SpaceKept

\* The tests for free space and for garbage can rely on InUse, and nothing is written
\* beyond the end of a bank.  This is the accounting of STORAGE_BANK that RtVarFindFreeSpace,
\* RtVarUpdateState, RtVarGarbageCollectBank and VarStoreAddBank share.  Not after recovery
\* found a corrupt bank, whose Tail it sets behind the erased entries (varinit.c:742), and
\* not with entries longer than their Size field can tell (vario.c:249).
THEOREM SpaceIsKept ==
    ASSUME SizesTold
    PROVE  Spec /\ []NeverCorrupt => []SpaceKept
  <1>1. AInv /\ [Next]_vars /\ NeverCorrupt => AInv'
    BY StepSpace
  <1>2. AInv => SpaceKept
    BY AccountsFacts DEF AInv
  <1> QED BY <1>1, <1>2, InitSpace, PTL DEF Spec

-----------------------------------------------------------------------------
(* No bank becomes corrupt *)

\* The entries of a bank of the device end within it.
Contained == \A b \in BankNo : Tail_(nv[b].Log) <= BankSize

LEMMA ContainedWrite ==
    ASSUME Types, Contained, NEW b \in BankNo, NEW r, IsRecord(r), NEW img \in Image, Write(b, r, img),
           Tail_(img.Log) <= BankSize
    PROVE  Contained'
  <1>1. (\A c \in BankNo : c # b => nv'[c] = nv[c]) /\ (nv'[b] = nv[b] \/ nv'[b] = img)
    BY WriteFacts
  <1> QED BY <1>1 DEF Contained

LEMMA ContainedHeader ==
    ASSUME Types, Contained, NEW b \in BankNo, NEW h \in Header, WriteHeader(b, h)
    PROVE  Contained'
  <1>1. PICK r, img : r = [Bank[b] EXCEPT !.Header = h] /\ img = [nv[b] EXCEPT !.Header = h]
    OBVIOUS
  <1>2. IsRecord(Bank[b]) /\ nv[b] \in Image
    BY TypeFacts
  <1>3. IsRecord(r)
    BY <1>1, <1>2, HeaderRecord
  <1>4. img \in Image /\ img.Log = nv[b].Log
    BY <1>1, <1>2, ImageFacts
  <1>5. Write(b, r, img)
    BY <1>1 DEF WriteHeader
  <1>6. Tail_(img.Log) <= BankSize
    BY <1>4 DEF Contained
  <1> QED BY <1>3, <1>4, <1>5, <1>6, ContainedWrite

\* While a bank is updated its copy in memory is as the device has it.
LEMMA UpdateSynced ==
    ASSUME IInv, NEW op \in Updating, Doing(op), NEW b, b = Head(todo)[2], Kept(b)
    PROVE  b \in BankNo /\ nv[b].Log = Bank[b].Log
  <1>1. op \in Working /\ op \notin {"AddBank", "Scan", "Data", "NewHeader"}
    BY DEF Working, OnBank, Updating
  <1>2. b \in BankNo /\ StepOK(Head(todo)) /\ Head(todo)[1] = op
    BY <1>1, BankTop
  <1>3. Listed(b)
    BY <1>2 DEF StepOK, Updating
  <1>4. \A f : In(f, Tail(todo)) => f[1] \in Updating \/ f[1] \notin Working
    BY <1>2, Top, Behind
  <1>5. ASSUME NEW x \in {"AddBank", "Scan", "Data", "NewHeader"}
        PROVE  ~ Pending(x, b)
    <2>1. \A f : In(f, Tail(todo)) => f[1] # x
      BY <1>4 DEF Updating, Working, OnBank
    <2> QED BY <1>1, <2>1, NotPending
  <1>6. LogOK(b) /\ Used(b)
    BY <1>2, <1>3 DEF IInv, Synced, Used
  <1> QED BY <1>2, <1>5, <1>6 DEF LogOK

LEMMA TornCases ==
    ASSUME NEW b, nv' \in Torn(b)
    PROVE  /\ Kept(b)
           /\ \/ Doing("Append") /\ \E size \in GarbledSizes \cup {Arg(3).size} :
                    nv' = [nv EXCEPT ![b].Log = Append(nv[b].Log, Dead(size))]
              \/ Doing("Mark") /\ nv' = [nv EXCEPT ![b].Log = [nv[b].Log EXCEPT ![Arg(3)] = Marked(@, "trans")]]
              \/ Doing("Data") /\ \E k \in DOMAIN Bank[b].Log :
                    nv' = [nv EXCEPT ![b].Log = SubSeq(Bank[b].Log, 1, k)]
  BY TornFacts

\* A write that is cut short leaves entries that end where they were meant to end, if
\* the device writes their sizes as one.
LEMMA TornContained ==
    ASSUME AInv, Contained, GarbledSizes = {}, NEW b, b = Head(todo)[2], nv' \in Torn(b)
    PROVE  Contained'
  <1>1. /\ Kept(b)
        /\ \/ Doing("Append") /\ \E size \in GarbledSizes \cup {Arg(3).size} :
                 nv' = [nv EXCEPT ![b].Log = Append(nv[b].Log, Dead(size))]
           \/ Doing("Mark") /\ nv' = [nv EXCEPT ![b].Log = [nv[b].Log EXCEPT ![Arg(3)] = Marked(@, "trans")]]
           \/ Doing("Data") /\ \E k \in DOMAIN Bank[b].Log :
                 nv' = [nv EXCEPT ![b].Log = SubSeq(Bank[b].Log, 1, k)]
    BY TornCases, Zenon
  <1>2. "Append" \in Updating /\ "Mark" \in Updating /\ "Data" \in Working /\ "Append" \in Working /\ "Mark" \in Working
    BY DEF Updating, Working, OnBank
  <1>3. IInv /\ Types
    BY DEF AInv, IInv
  <1>4. b \in BankNo
    BY <1>1, <1>2, <1>3, BankTop
  <1>5. PICK q, old : q = Bank[b].Log /\ old = nv[b].Log
    OBVIOUS
  <1>6. q \in Seq(Entry) /\ old \in Seq(Entry) /\ Tail_(q) <= BankSize /\ Tail_(old) <= BankSize
    BY <1>3, <1>4, <1>5, TypeFacts DEF AInv, Accounts, Contained
  <1>7. BankSize \in Nat /\ Tail_(q) \in Nat
    BY <1>6, SizesFacts, StoreAssumption
  <1>8. ASSUME NEW log, nv' = [nv EXCEPT ![b].Log = log], Tail_(log) <= BankSize
        PROVE  Contained'
    <2>1. nv \in [BankNo -> Image] /\ nv[b] \in Image
      BY <1>3, <1>4 DEF Types
    <2>2. nv'[b].Log = log /\ \A c \in BankNo : c # b => nv'[c] = nv[c]
      BY <1>4, <1>8, <2>1 DEF Image
    <2> QED BY <1>8, <2>2 DEF Contained
  <1>9. CASE Doing("Append") /\ \E size \in GarbledSizes \cup {Arg(3).size} :
                 nv' = [nv EXCEPT ![b].Log = Append(nv[b].Log, Dead(size))]
    <2>1. PICK e, size : e = Head(todo)[3] /\ size = e.size
      OBVIOUS
    <2>2. nv' = [nv EXCEPT ![b].Log = Append(old, Dead(size))]
      BY <1>5, <1>9, <2>1 DEF Arg
    <2>3. Fine(Head(todo)) /\ Head(todo)[1] = "Append" /\ Head(todo) \in Frame
      BY <1>2, <1>4, <1>9, UpdateTop
    <2>4. e \in Entry /\ Tail_(q) + size <= BankSize
      BY <1>5, <2>1, <2>3, FrameFacts DEF Fine
    <2>5. size \in 1 .. VAR_SIZE_MASK
      BY <2>1, <2>4, EntryFacts
    <2>6. Dead(size) \in Entry /\ Dead(size).size = size
      BY <2>5, EntryFacts DEF Dead
    <2>7. old = q
      BY <1>1, <1>2, <1>3, <1>5, <1>9, UpdateSynced
    <2>8. Tail_(Append(old, Dead(size))) = Tail_(q) + size
      BY <1>6, <2>6, <2>7, SpaceAppend
    <2>9. Tail_(Append(old, Dead(size))) <= BankSize
      BY <2>4, <2>8
    <2> QED BY <1>8, <2>2, <2>9
  <1>10. CASE Doing("Mark") /\ nv' = [nv EXCEPT ![b].Log = [nv[b].Log EXCEPT ![Arg(3)] = Marked(@, "trans")]]
    <2>1. PICK i, log : i = Arg(3) /\ log = [old EXCEPT ![i] = Marked(@, "trans")]
      OBVIOUS
    <2>2. nv' = [nv EXCEPT ![b].Log = log]
      BY <1>5, <1>10, <2>1
    <2>3. CASE i \notin DOMAIN old
      <3>1. log = old
        BY <1>6, <2>1, <2>3
      <3> QED BY <1>6, <1>8, <2>2, <3>1
    <2>4. CASE i \in DOMAIN old
      <3>1. PICK m : m = Marked(old[i], "trans")
        OBVIOUS
      <3>2. m \in Entry /\ m.size = old[i].size
        BY <1>6, <2>4, <3>1, MarkedFacts
      <3>3. log = [old EXCEPT ![i] = m]
        BY <2>1, <2>4, <3>1
      <3>4. log \in Seq(Entry) /\ DOMAIN log = DOMAIN old /\ \A j \in DOMAIN old : log[j].size = old[j].size
        BY <1>6, <2>4, <3>2, <3>3
      <3>5. Sizes(log) = Sizes(old)
        BY <3>4 DEF Sizes
      <3>6. Tail_(log) = Tail_(old)
        BY <1>6, <3>4, <3>5, SizesFacts
      <3> QED BY <1>6, <1>8, <2>2, <3>6
    <2> QED BY <2>3, <2>4
  <1>11. CASE Doing("Data") /\ \E k \in DOMAIN Bank[b].Log :
                 nv' = [nv EXCEPT ![b].Log = SubSeq(Bank[b].Log, 1, k)]
    <2>1. PICK k \in DOMAIN q : nv' = [nv EXCEPT ![b].Log = SubSeq(q, 1, k)]
      BY <1>5, <1>11
    <2>2. k \in 1 .. Len(q)
      BY <1>6, <2>1
    <2>3. Upto(q, k) \in Nat /\ Upto(q, k) <= Tail_(q)
      BY <1>6, <2>2, UptoFacts
    <2>4. Tail_(SubSeq(q, 1, k)) <= BankSize
      BY <1>6, <1>7, <2>3 DEF Upto
    <2> QED BY <1>8, <2>1, <2>4
  <1> QED BY <1>1, <1>9, <1>10, <1>11

\* A new entry and a mark are on the device if they are in memory.
LEMMA UpdateContained ==
    ASSUME AInv, Accounts', Contained, NEW op \in Updating, Doing(op), NEW b, b = Head(todo)[2],
           NEW log \in Seq(Entry), NEW n,
           Write(b, [Bank[b] EXCEPT !.Log = log, !.InUse = n], [nv[b] EXCEPT !.Log = log])
    PROVE  Contained'
  <1>1. op \in Working /\ IInv /\ Types
    BY DEF Updating, Working, AInv, IInv
  <1>2. b \in BankNo
    BY <1>1, BankTop
  <1>3. PICK o, r, img : o = Bank[b] /\ r = WithLog(o, log, n) /\ img = [nv[b] EXCEPT !.Log = log]
    OBVIOUS
  <1>4. IsRecord(o) /\ nv[b] \in Image
    BY <1>1, <1>2, <1>3, TypeFacts
  <1>5. IsRecord(r) /\ r.Log = log
    BY <1>3, <1>4, LogRecord
  <1>6. img \in Image /\ img.Log = log
    BY <1>3, <1>4, ImageFacts
  <1>7. Write(b, r, img)
    BY <1>3 DEF WithLog
  <1>8. Bank'[b].Log = log
    BY <1>1, <1>2, <1>5, <1>6, <1>7, WriteFacts
  <1>9. Tail_(img.Log) <= BankSize
    BY <1>2, <1>6, <1>8 DEF Accounts
  <1> QED BY <1>1, <1>2, <1>5, <1>6, <1>7, <1>9, ContainedWrite

LEMMA StepContained ==
    ASSUME AInv, AInv', Contained, [Next]_vars, GarbledSizes = {}
    PROVE  Contained'
  <1>0. IInv /\ Types /\ Accounts /\ Accounts'
    BY DEF AInv, IInv
  <1>1. CASE nv' = nv
    BY <1>1 DEF Contained
  <1>2. ASSUME NEW op \in OnBank \cup {"BankState"}, Doing(op)
        PROVE  /\ Arg(2) \in BankNo /\ nv[Arg(2)] \in Image /\ IsRecord(Bank[Arg(2)])
               /\ Bank[Arg(2)].Header \in Header
    <2>1. Arg(2) \in BankNo
      BY <1>0, <1>2, OnBankTop DEF Arg
    <2> QED BY <1>0, <2>1, TypeFacts
  <1>3. CASE Zero
    <2>1. Doing("Zero") /\ (nv' = nv \/ WriteHeader(Arg(2), NoHeader))
      BY <1>3 DEF Zero
    <2>2. Arg(2) \in BankNo
      BY <1>2, <2>1 DEF OnBank
    <2> QED BY <1>0, <1>1, <2>1, <2>2, HeaderFacts, ContainedHeader
  <1>4. CASE Erase
    <2>1. Doing("Erase") /\ Write(Arg(2), Bank[Arg(2)], Blank)
      BY <1>4 DEF Erase
    <2>2. Arg(2) \in BankNo /\ IsRecord(Bank[Arg(2)])
      BY <1>2, <2>1 DEF OnBank
    <2>3. Blank \in Image /\ Tail_(Blank.Log) <= BankSize
      BY HeaderFacts, FitsEmpty DEF Fits
    <2> QED BY <1>0, <2>1, <2>2, <2>3, ContainedWrite
  <1>5. CASE NewHeader
    <2>1. PICK b, h : b = Arg(2) /\ h = [Signature |-> TRUE, Sequence |-> NextSequence(Sequence[StoreOf[b]]), State |-> {}]
      OBVIOUS
    <2>2. Doing("NewHeader") /\ Write(b, NewBankRecord([Blank EXCEPT !.Header = h]), [nv[b] EXCEPT !.Header = h])
      BY <1>5, <2>1, Zenon DEF NewHeader
    <2>3. b \in BankNo /\ nv[b] \in Image
      BY <1>2, <2>1, <2>2 DEF OnBank
    <2>4. h \in Header
      <3>1. Sequence[StoreOf[b]] \in 0 .. VARH_MAX_SEQUENCE
        BY <1>0, <2>3, StoreFacts DEF Types
      <3>2. NextSequence(Sequence[StoreOf[b]]) \in 0 .. VARH_MAX_SEQUENCE
        BY <3>1, StoreAssumption DEF NextSequence
      <3> QED BY <2>1, <3>2 DEF Header
    <2>5. PICK fresh, img : fresh = [Blank EXCEPT !.Header = h] /\ img = [nv[b] EXCEPT !.Header = h]
      OBVIOUS
    <2>6. fresh \in Image /\ img \in Image /\ img.Log = nv[b].Log
      BY <2>3, <2>4, <2>5, HeaderFacts, ImageFacts
    <2>7. IsRecord(NewBankRecord(fresh))
      BY <2>6, NewRecordFacts
    <2>8. Tail_(img.Log) <= BankSize
      BY <2>3, <2>6 DEF Contained
    <2> QED BY <1>0, <2>2, <2>3, <2>5, <2>6, <2>7, <2>8, ContainedWrite
  <1>6. CASE UpdateBankState \/ ResetSequence
    <2>1. PICK b, h : b = Arg(2) /\ h = Bank[b].Header
      OBVIOUS
    <2>2. \/ Doing("BankState") /\ WriteHeader(b, [h EXCEPT !.State = @ \cup {Arg(3)}])
          \/ Doing("ResetSequence") /\ WriteHeader(b, [h EXCEPT !.Sequence = 0])
      BY <1>6, <2>1 DEF UpdateBankState, ResetSequence
    <2>3. b \in BankNo /\ h \in Header
      BY <1>2, <2>1, <2>2 DEF OnBank
    <2>4. CASE Doing("BankState") /\ WriteHeader(b, [h EXCEPT !.State = @ \cup {Arg(3)}])
      <3>1. Head(todo) \in Frame /\ Head(todo)[1] = "BankState"
        BY <1>0, <2>4, Top
      <3>2. Arg(3) \in BankState
        BY <3>1, FrameFacts DEF Arg
      <3>3. [h EXCEPT !.State = @ \cup {Arg(3)}] \in Header
        BY <2>3, <3>2 DEF Header
      <3> QED BY <1>0, <2>3, <2>4, <3>3, ContainedHeader
    <2>5. CASE Doing("ResetSequence") /\ WriteHeader(b, [h EXCEPT !.Sequence = 0])
      <3>1. [h EXCEPT !.Sequence = 0] \in Header
        BY <2>3, StoreAssumption DEF Header
      <3> QED BY <1>0, <2>3, <2>5, <3>1, ContainedHeader
    <2> QED BY <2>2, <2>4, <2>5
  <1>7. CASE Data
    <2>1. PICK b, img : b = Arg(2) /\ img = [Header |-> Bank[b].Header, Log |-> Bank[b].Log]
      OBVIOUS
    <2>2. Doing("Data") /\ Write(b, Bank[b], img)
      BY <1>7, <2>1, Zenon DEF Data
    <2>3. b \in BankNo
      BY <1>2, <2>1, <2>2 DEF OnBank
    <2>4. IsRecord(Bank[b]) /\ img \in Image /\ img.Log = Bank[b].Log
      BY <1>0, <2>1, <2>3, TypeFacts DEF Image
    <2>5. Tail_(img.Log) <= BankSize
      BY <1>0, <2>3, <2>4 DEF Accounts
    <2> QED BY <1>0, <2>2, <2>3, <2>4, <2>5, ContainedWrite
  <1>8. CASE AppendEntry
    <2>1. PICK b, e, log, n :
              /\ b \in BankNo /\ e \in Entry
              /\ b = Head(todo)[2] /\ e = Head(todo)[3]
              /\ log = Append(Bank[b].Log, e) /\ n = Bank[b].InUse + e.size
              /\ Doing("Append") /\ UNCHANGED <<Active, TBank, Sequence, EfiAtRuntime, caller>>
              /\ Write(b, [Bank[b] EXCEPT !.Log = log, !.InUse = n], [nv[b] EXCEPT !.Log = log])
              /\ todo' = Return("error") \/ Then(<<>>)
      BY <1>0, <1>8, AppendDone, Zenon
    <2>2. PICK q : q = Bank[b].Log
      OBVIOUS
    <2>3. q \in Seq(Entry) /\ e \in Entry /\ log = Append(q, e)
      BY <1>0, <2>1, <2>2, TypeFacts
    <2>4. log \in Seq(Entry) /\ "Append" \in Updating
      BY <2>3 DEF Updating
    <2> QED BY <1>0, <2>1, <2>4, UpdateContained
  <1>9. CASE Mark
    <2>1. PICK b, i, e, m : b = Arg(2) /\ i = Arg(3) /\ e = Bank[b].Log[i] /\ m = Marked(e, Arg(4))
      OBVIOUS
    <2>2. PICK q, log, n : q = Bank[b].Log /\ log = [q EXCEPT ![i] = m] /\ n = Bank[b].InUse - Freed(e, Arg(4))
      OBVIOUS
    <2>3. Doing("Mark") /\ Write(b, [Bank[b] EXCEPT !.Log = log, !.InUse = n], [nv[b] EXCEPT !.Log = log])
      BY <1>9, <2>1, <2>2, Zenon DEF Mark
    <2>4. "Mark" \in Updating /\ "Mark" \in Working
      BY DEF Updating, Working
    <2>5. Head(todo)[2] \in BankNo /\ Head(todo)[1] = "Mark" /\ StepOK(Head(todo)) /\ Head(todo) \in Frame
      BY <1>0, <2>3, <2>4, BankTop
    <2>6. b \in BankNo /\ i \in DOMAIN q /\ Arg(4) \in {"trans", "dead"}
      BY <2>1, <2>2, <2>5, FrameFacts DEF StepOK, Arg
    <2>7. q \in Seq(Entry)
      BY <1>0, <2>2, <2>6, TypeFacts
    <2>8. m \in Entry
      BY <2>1, <2>2, <2>6, <2>7, EntryFacts
    <2>9. log \in Seq(Entry)
      BY <2>2, <2>6, <2>7, <2>8
    <2> QED BY <1>0, <2>1, <2>3, <2>4, <2>9, UpdateContained DEF Arg
  <1>10. CASE \/ Collect \/ Activate \/ GetTBank \/ Room \/ AddBank \/ Scan \/ Repair \/ Check
              \/ Delete \/ Replace \/ ReturnStatus \/ Call \/ UNCHANGED vars
    <2>1. nv' = nv
      BY <1>10, Zenon DEF Collect, Activate, GetTBank, Room, AddBank, Scan, Repair, Check, Delete, Replace,
                          ReturnStatus, Call, SetVariable, ExitBootServices, vars
    <2> QED BY <1>1, <2>1
  <1>11. CASE PowerLoss
    <2>1. nv' = nv \/ nv' \in Torn(Head(todo)[2])
      BY <1>11 DEF PowerLoss, Arg
    <2> QED BY <1>1, <2>1, TornContained
  <1>12. ~ Truncate
    BY <1>0, NotTruncated DEF Truncate
  <1> QED BY <1>3, <1>4, <1>5, <1>6, <1>7, <1>8, <1>9, <1>10, <1>11, <1>12 DEF Next, Step

LEMMA ContainedFacts == IInv /\ Contained => NeverCorrupt
  <1> SUFFICES ASSUME IInv, Contained, Doing("Scan") PROVE Tail_(nv[Arg(2)].Log) <= BankSize
    BY DEF NeverCorrupt
  <1>1. Arg(2) \in BankNo
    BY OnBankTop DEF OnBank, Arg
  <1> QED BY <1>1 DEF Contained

\* "Due to the way data is written to the banks, a bank should never become corrupt"
\* (varinit.c:712): true of updates, collections and recoveries, wherever the power
\* fails, if the device writes the two bytes of an entry's size as one and what was on it
\* at first lies within the banks.
THEOREM NothingCorrupts ==
    ASSUME SizesTold, GarbledSizes = {}, FactoryFits
    PROVE  Spec => []NeverCorrupt
  <1>1. Init => AInv /\ Contained
    <2>1. Init => Contained
      BY DEF Init, Contained, FactoryFits
    <2> QED BY <2>1, InitSpace
  <1>2. AInv /\ Contained /\ [Next]_vars => AInv' /\ Contained'
    <2> SUFFICES ASSUME AInv, Contained, [Next]_vars PROVE AInv' /\ Contained'
      OBVIOUS
    <2>1. NeverCorrupt
      BY ContainedFacts DEF AInv
    <2>2. AInv'
      BY <2>1, StepSpace
    <2> QED BY <2>2, StepContained
  <1>3. AInv /\ Contained => NeverCorrupt
    BY ContainedFacts DEF AInv
  <1> QED BY <1>1, <1>2, <1>3, PTL DEF Spec

-----------------------------------------------------------------------------
(* Types *)

\* What the banks do not depend on, and that the copies in memory are an array.
Caller == [name : Name, val : Val \cup {None}, kept : Val \cup {None}] \cup {NoRequest}

Others ==
    /\ EfiAtRuntime \in BOOLEAN /\ request \in Caller
    /\ status \in {"none", "success", "error"} /\ errors \in 0 .. MaxErrors

IsArray(banks) == banks = [b \in BankNo |-> banks[b]]

\* What a step does to the copies in memory.
ArrayKept == IsArray(Bank) => IsArray(Bank')

LEMMA ExceptArray ==
    ASSUME NEW banks, IsArray(banks), NEW b, NEW r
    PROVE  IsArray([banks EXCEPT ![b] = r])
  BY DEF IsArray

LEMMA SameArray ==
    ASSUME Bank' = Bank
    PROVE  ArrayKept
  BY DEF ArrayKept

LEMMA NewArray ==
    ASSUME NEW b, NEW r, Bank' = [Bank EXCEPT ![b] = r]
    PROVE  ArrayKept
  BY ExceptArray DEF ArrayKept

LEMMA WriteArray ==
    ASSUME NEW b, NEW r, NEW img, Write(b, r, img)
    PROVE  ArrayKept
  BY NewArray DEF Write

LEMMA HeaderArray ==
    ASSUME NEW b, NEW h, WriteHeader(b, h)
    PROVE  ArrayKept
  BY WriteArray DEF WriteHeader

LEMMA LogArray ==
    ASSUME NEW b, NEW log, NEW n, Bank' = [Bank EXCEPT ![b].Log = log, ![b].InUse = n]
    PROVE  ArrayKept
  <1>1. PICK r1 : r1 = [Bank[b] EXCEPT !.Log = log]
    OBVIOUS
  <1>2. PICK banks : banks = [Bank EXCEPT ![b] = r1]
    OBVIOUS
  <1>3. PICK r2 : r2 = [banks[b] EXCEPT !.InUse = n]
    OBVIOUS
  <1>4. Bank' = [banks EXCEPT ![b] = r2]
    BY <1>1, <1>2, <1>3, Zenon
  <1>5. IsArray(Bank) => IsArray(banks)
    BY <1>2, ExceptArray
  <1>6. IsArray(banks) => IsArray(Bank')
    <2>1. ASSUME IsArray(banks)
          PROVE  IsArray([banks EXCEPT ![b] = r2])
      BY <2>1, ExceptArray
    <2> QED BY <1>4, <2>1, Zenon
  <1> QED BY <1>5, <1>6 DEF ArrayKept

LEMMA StepArray ==
    ASSUME [Next]_vars
    PROVE  ArrayKept
  <1>1. CASE Zero
    <2>1. Bank' = Bank \/ WriteHeader(Arg(2), NoHeader)
      BY <1>1 DEF Zero
    <2> QED BY <2>1, HeaderArray, SameArray
  <1>2. CASE Erase
    BY <1>2, WriteArray DEF Erase
  <1>3. CASE NewHeader
    BY <1>3, WriteArray DEF NewHeader
  <1>4. CASE UpdateBankState
    BY <1>4, HeaderArray DEF UpdateBankState
  <1>5. CASE Collect
    BY <1>5, LogArray, SameArray DEF Collect
  <1>6. CASE Data
    BY <1>6, WriteArray DEF Data
  <1>7. CASE ResetSequence
    BY <1>7, HeaderArray DEF ResetSequence
  <1>8. CASE AppendEntry
    <2>1. \/ Bank' = Bank
          \/ \E img : Write(Arg(2), WithEntry(Arg(2), Arg(3)), img)
      BY <1>8, Zenon DEF AppendEntry
    <2> QED BY <2>1, WriteArray, SameArray
  <1>9. CASE Mark
    BY <1>9, WriteArray DEF Mark
  <1>10. CASE AddBank
    BY <1>10, NewArray DEF AddBank
  <1>11. CASE Scan
    BY <1>11, LogArray, SameArray DEF Scan
  <1>12. CASE PowerLoss
    BY <1>12 DEF PowerLoss, ArrayKept, IsArray
  <1>13. CASE Activate \/ GetTBank \/ Room \/ Repair \/ Check \/ Delete \/ Replace \/ ReturnStatus
    BY <1>13, SameArray DEF Activate, GetTBank, Room, Repair, Check, Delete, Replace, ReturnStatus, memory
  <1>14. CASE ExitBootServices \/ UNCHANGED vars
    BY <1>14, SameArray DEF ExitBootServices, vars, memory
  <1>15. ASSUME NEW c \in Calls, SetVariable(c[1], c[2], c[3])
         PROVE  ArrayKept
    BY <1>15, SameArray DEF SetVariable, memory
  <1>16. CASE Truncate
    BY <1>16, WriteArray DEF Truncate
  <1> QED BY <1>1, <1>2, <1>3, <1>4, <1>5, <1>6, <1>7, <1>8, <1>9, <1>10, <1>11, <1>12, <1>13, <1>14, <1>15, <1>16
          DEF Next, Step, Call

LEMMA ErrorsBounded ==
    ASSUME errors \in 0 .. MaxErrors, errors < MaxErrors /\ errors' = errors + 1
    PROVE  errors' \in 0 .. MaxErrors
  BY StoreAssumption

LEMMA WriteErrors ==
    ASSUME errors \in 0 .. MaxErrors, NEW b, NEW r, NEW img, Write(b, r, img)
    PROVE  errors' \in 0 .. MaxErrors
  <1>1. errors' = errors \/ (errors < MaxErrors /\ errors' = errors + 1)
    BY DEF Write
  <1> QED BY <1>1, ErrorsBounded

LEMMA HeaderErrors ==
    ASSUME errors \in 0 .. MaxErrors, NEW b, NEW h, WriteHeader(b, h)
    PROVE  errors' \in 0 .. MaxErrors
  BY WriteErrors DEF WriteHeader

\* RtSetVariable remembers what the caller asked for.
LEMMA SetOthers ==
    ASSUME Others, NEW c \in Calls, SetVariable(c[1], c[2], c[3])
    PROVE  Others'
  <1>1. c[1] \in Name /\ c[2] \in Val \cup {None}
    BY StoreAssumption
  <1>2. PICK s : s = StoreFor(c[3])
    OBVIOUS
  <1>3. request' = [name |-> c[1], val |-> c[2], kept |-> IF s \in NonVolatile THEN c[2] ELSE None]
    BY <1>2 DEF SetVariable
  <1>4. (IF s \in NonVolatile THEN c[2] ELSE None) \in Val \cup {None}
    BY <1>1
  <1>5. request' \in Caller
    BY <1>1, <1>3, <1>4 DEF Caller
  <1>6. UNCHANGED <<EfiAtRuntime, status, errors>>
    BY DEF SetVariable, memory
  <1> QED BY <1>5, <1>6 DEF Others

\* Every service ends with a status.
LEMMA ReturnOthers ==
    ASSUME IInv, Others, ReturnStatus
    PROVE  Others'
  <1>1. Doing("Return") /\ status' = Head(todo)[2] /\ request' = NoRequest /\ UNCHANGED <<memory, errors>>
    BY DEF ReturnStatus, Arg
  <1>2. Head(todo) \in Frame /\ Head(todo)[1] = "Return"
    BY <1>1, Top
  <1>3. Head(todo)[2] \in {"success", "error"}
    BY <1>2 DEF Frame, OnBank
  <1> QED BY <1>1, <1>3 DEF Others, Caller, memory

LEMMA StepOthers ==
    ASSUME IInv, Others, [Next]_vars
    PROVE  Others'
  <1>0. errors \in 0 .. MaxErrors
    BY DEF Others
  <1>1. ASSUME UNCHANGED <<EfiAtRuntime, request, status>>, errors' \in 0 .. MaxErrors
        PROVE  Others'
    BY <1>1 DEF Others
  <1>2. CASE Zero
    <2>1. errors' = errors \/ WriteHeader(Arg(2), NoHeader)
      BY <1>2 DEF Zero
    <2> QED BY <1>0, <1>1, <1>2, <2>1, HeaderErrors DEF Zero, caller
  <1>3. CASE Erase
    BY <1>0, <1>1, <1>3, WriteErrors DEF Erase, caller
  <1>4. CASE NewHeader
    BY <1>0, <1>1, <1>4, WriteErrors DEF NewHeader, caller
  <1>5. CASE UpdateBankState
    BY <1>0, <1>1, <1>5, HeaderErrors DEF UpdateBankState, caller
  <1>6. CASE Collect
    BY <1>0, <1>1, <1>6 DEF Collect, caller
  <1>7. CASE Data
    BY <1>0, <1>1, <1>7, WriteErrors DEF Data, caller
  <1>8. CASE Activate
    BY <1>0, <1>1, <1>8 DEF Activate, caller
  <1>9. CASE GetTBank
    BY <1>0, <1>1, <1>9 DEF GetTBank, caller
  <1>10. CASE ResetSequence
    BY <1>0, <1>1, <1>10, HeaderErrors DEF ResetSequence, caller
  <1>11. CASE Room
    BY <1>0, <1>1, <1>11 DEF Room, caller, memory
  <1>12. CASE AppendEntry
    <2>1. errors' = errors \/ \E r, img : Write(Arg(2), r, img)
      BY <1>12, Zenon DEF AppendEntry
    <2>2. errors' \in 0 .. MaxErrors
      BY <1>0, <2>1, WriteErrors
    <2> QED BY <1>0, <1>1, <1>12, <2>2 DEF AppendEntry, caller
  <1>13. CASE Mark
    BY <1>0, <1>1, <1>13, WriteErrors DEF Mark, caller
  <1>14. CASE AddBank
    BY <1>0, <1>1, <1>14 DEF AddBank, caller
  <1>15. CASE Scan
    <2>1. errors' = errors \/ (errors < MaxErrors /\ errors' = errors + 1)
      BY <1>0, <1>15 DEF Scan
    <2>2. errors' \in 0 .. MaxErrors
      BY <1>0, <2>1, ErrorsBounded
    <2> QED BY <1>0, <1>1, <1>15, <2>2 DEF Scan, caller
  <1>16. CASE Repair
    BY <1>0, <1>1, <1>16 DEF Repair, caller, memory
  <1>17. CASE Check
    BY <1>0, <1>1, <1>17 DEF Check, caller, memory
  <1>18. CASE Delete
    BY <1>0, <1>1, <1>18 DEF Delete, caller, memory
  <1>19. CASE Replace
    BY <1>0, <1>1, <1>19 DEF Replace, caller, memory
  <1>20. CASE ExitBootServices
    BY <1>20 DEF Others, ExitBootServices, caller
  <1>21. CASE PowerLoss
    BY <1>21 DEF Others, PowerLoss, Caller
  <1>22. CASE UNCHANGED vars
    BY <1>0, <1>1, <1>22 DEF vars, caller, memory
  <1>23. ASSUME NEW c \in Calls, SetVariable(c[1], c[2], c[3])
         PROVE  Others'
    BY <1>23, SetOthers
  <1>24. CASE Truncate
    BY <1>0, <1>1, <1>24, WriteErrors DEF Truncate, caller
  <1> QED BY <1>2, <1>3, <1>4, <1>5, <1>6, <1>7, <1>8, <1>9, <1>10, <1>11, <1>12, <1>13, <1>14, <1>15, <1>16, <1>17,
             <1>18, <1>19, <1>20, <1>21, <1>22, <1>23, <1>24, ReturnOthers DEF Next, Step, Call

LEMMA InitOthers == Init => Others /\ IsArray(Bank)
  <1> SUFFICES ASSUME Init PROVE Others /\ IsArray(Bank)
    OBVIOUS
  <1>1. MaxErrors \in Nat
    BY StoreAssumption
  <1>2. 0 \in 0 .. MaxErrors
    BY <1>1
  <1>3. EfiAtRuntime = FALSE /\ request = NoRequest /\ status = "none" /\ errors = 0
        /\ Bank = [b \in BankNo |-> NewBankRecord(Blank)]
    BY DEF Init
  <1>4. IsArray(Bank)
    BY <1>3 DEF IsArray
  <1> QED BY <1>2, <1>3, <1>4 DEF Others, Caller

LEMMA TypesHold == IInv /\ SpaceKept /\ Others /\ IsArray(Bank) => TypeOK
  <1> SUFFICES ASSUME IInv, SpaceKept, Others, IsArray(Bank) PROVE TypeOK
    OBVIOUS
  <1> DEFINE Record == [Header : Header, Log : Seq(Entry), InUse : Nat, Gap : Nat, DeviceError : BOOLEAN]
  <1>1. ASSUME NEW b \in BankNo
        PROVE  Bank[b] \in Record
    <2>1. PICK r : r = Bank[b]
      OBVIOUS
    <2>2. IsRecord(r)
      BY <2>1, TypeFacts DEF IInv
    <2>3. r = [Header |-> r.Header, Log |-> r.Log, InUse |-> r.InUse, Gap |-> 0,
            DeviceError |-> r.DeviceError]
          /\ r.Header \in Header /\ r.Log \in Seq(Entry) /\ r.DeviceError \in BOOLEAN
      BY <2>2 DEF IsRecord
    <2>4. r.InUse \in Nat
      BY <2>1, <2>3, SizesFacts DEF SpaceKept
    <2> QED BY <2>1, <2>3, <2>4
  <1>2. Bank \in [BankNo -> Record]
    BY <1>1 DEF IsArray
  <1> QED BY <1>2 DEF TypeOK, IInv, Types, Image, Others, Caller

\* The types of the device, of the banks and lists in memory and of the services: no
\* sequence number exceeds VARH_MAX_SEQUENCE, and every service returns a status.  Under
\* the same two conditions.
THEOREM TypesCorrect ==
    ASSUME SizesTold
    PROVE  Spec /\ []NeverCorrupt => []TypeOK
  <1>1. IInv /\ Others /\ IsArray(Bank) /\ [Next]_vars => Others' /\ IsArray(Bank)'
    BY StepOthers, StepArray DEF ArrayKept, IsArray
  <1>2. Spec /\ []NeverCorrupt => [](Others /\ IsArray(Bank))
    BY <1>1, InitOthers, Always, PTL DEF Spec
  <1> QED BY <1>2, TypesHold, Always, SpaceIsKept, PTL

=============================================================================
