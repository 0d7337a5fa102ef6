---------------------------- MODULE HandlesProofs ----------------------------
(***************************************************************************)
(* Proofs about Handles: the lists of the database agree, no interface     *)
(* gets a second driver, and registrations miss nothing.  See the README   *)
(* for the duty of the callers the theorems rest on.                       *)
(***************************************************************************)
EXTENDS Handles, SequenceTheorems, FiniteSetTheorems, NaturalsInduction, WellFoundedInduction, TLAPS

-----------------------------------------------------------------------------
(* The invariant *)

IsFrame(f) ==
    f = [op |-> f.op, h |-> f.h, p |-> f.p, i |-> f.i, agent |-> f.agent, ctrl |-> f.ctrl,
         attr |-> f.attr, prot |-> f.prot, to |-> f.to, set |-> f.set, list |-> f.list, n |-> f.n]

Installing == {"Install", "InstallLocked"}
Listing == {"InstallMultiple", "UninstallMultiple", "UndoUninstalls"}
DriverOp == {"Start", "StartOpened", "StartChild", "Stop", "StopChildren", "ChildClosed",
             "ChildGone", "StopLast"}

\* The arguments a function has been called with.
FrameOK(f) ==
    /\ IsFrame(f)
    /\ f.op \in Installing => f.p \in Protocol /\ f.i \in Interface
    /\ f.op \in Listing => f.list \in Seq(Protocol \X Interface) /\ f.n \in 0 .. Len(f.list)
    /\ f.op = "Reinstall" => f.to \in Interface
    /\ f.op = "Open" => f.agent \in Agent /\ f.attr \in Attribute
    /\ f.op \in {"Connect", "StartDrivers"} => f.list \in Seq(Drivers)
    /\ f.op \in DriverOp => f.agent \in Drivers
    /\ f.op = "Locate" => f.to \in Event
    /\ f.op = "Reinstalled" => f.p \in Protocol

\* The interface a call works on is the one it looked up; pr is prot.
TargetOK(f, pr) ==
    Working(f) =>
        /\ f.prot \in Prot /\ f.h \in Handle
        /\ pr[f.prot].h = f.h /\ pr[f.prot].p = f.p
        /\ f.op # "Open" => pr[f.prot].i = f.i

\* A notification function runs on behalf of an event that stays registered, since no
\* callback interrupts it.
LocateOK(t, j, rg) ==
    t[j].op = "Locate" =>
        rg[t[j].to] # NotRegistered /\ \E i \in 1 .. j - 1 : t[i].op = "Callback"

IsSeq(t) == t \in Seq({t[j] : j \in DOMAIN t})

StackOK(t, pr, rg) ==
    /\ IsSeq(t)
    /\ \A j \in DOMAIN t : FrameOK(t[j]) /\ TargetOK(t[j], pr) /\ LocateOK(t, j, rg)

Once(s) == \A i, j \in DOMAIN s : s[i] = s[j] => i = j
In(k, s) == \E j \in DOMAIN s : s[j] = k

IsProt(r) == r = [h |-> r.h, p |-> r.p, i |-> r.i, open |-> r.open]

ProtTypes(pr) == pr = [k \in Prot |-> pr[k]] /\ \A k \in Prot : IsProt(pr[k])

Types ==
    /\ handles \subseteq Handle
    /\ ProtTypes(prot)
    /\ onHandle \in [Handle -> Seq(Prot)] /\ byProtocol \in [Protocol -> Seq(Prot)]
    /\ reg \in [Event -> [p : Protocol \cup {None}, pos : Prot \cup {None}]]
    /\ signalled \subseteq Event
    /\ got \in [Event -> SUBSET Prot]
    /\ interrupts \in 0 .. MaxCallbacks

\* ListsAgree, element by element.
Lists ==
    /\ \A k \in Prot : prot[k] = Freed \/ /\ prot[k].h \in handles /\ prot[k].p \in Protocol
                                          /\ prot[k].i \in Interface
    /\ \A h \in Handle : /\ Once(onHandle[h])
                         /\ h \in handles <=> onHandle[h] # <<>>
                         /\ \A k \in Prot : In(k, onHandle[h]) <=> prot[k].h = h
    /\ \A p \in Protocol : /\ Once(byProtocol[p])
                           /\ \A k \in Prot : In(k, byProtocol[p]) <=> prot[k].p = p

\* OneDriver, and who has an interface open how.
OpenOK(S) ==
    /\ \A o \in S : o.agent \in Agent /\ o.attr \in Attribute
    /\ \A o, q \in DriverOpens(S) : o = q

Opened(pr) == \A k \in Prot : OpenOK(pr[k].open)

\* Only registered events are signalled and have been told of interfaces.
Registrants ==
    \A e \in Event :
        /\ reg[e].p = None => reg[e] = NotRegistered
        /\ reg[e] = NotRegistered => e \notin signalled /\ got[e] = {}

IInv ==
    /\ Types /\ Lists /\ Opened(prot) /\ StackOK(todo, prot, reg) /\ Registrants
    /\ SeenExactly /\ NotMissed

-----------------------------------------------------------------------------
(* Sequences *)

\* Every non-empty set of naturals has a least element.
LEMMA LeastNat ==
    ASSUME NEW S \in SUBSET Nat, S # {}
    PROVE  \E x \in S : \A y \in S : x <= y
  <1>1. PICK x \in S : \A y \in S : ~ (<<y, x>> \in OpToRel(<, Nat))
    BY NatLessThanWellFounded, WFMin
  <1>2. \A y \in S : <<y, x>> \in OpToRel(<, Nat) <=> y < x
    BY DEF OpToRel
  <1>3. \A y \in S : ~(y < x)
    BY <1>1, <1>2, Zenon
  <1>4. \A y \in S : x <= y
    BY <1>3
  <1> QED BY <1>4

\* ... which Min is.
LEMMA MinFacts ==
    ASSUME NEW S \in SUBSET Nat, S # {}
    PROVE  Min(S) \in S
  BY LeastNat DEF Min

\* Sequences over some set, without naming the set.
LEMMA SeqIsSeq ==
    ASSUME NEW S, NEW s \in Seq(S)
    PROVE  IsSeq(s) /\ Len(s) \in Nat /\ DOMAIN s = 1 .. Len(s)
  BY DEF IsSeq

LEMMA IsSeqFacts ==
    ASSUME NEW s, IsSeq(s)
    PROVE  Len(s) \in Nat /\ DOMAIN s = 1 .. Len(s) /\ (s # <<>> => Len(s) > 0)
  BY DEF IsSeq

\* What RemoveAt leaves of a sequence.
LEMMA RemoveAtFacts ==
    ASSUME NEW S, NEW s \in Seq(S), NEW i \in DOMAIN s
    PROVE  LET t == RemoveAt(s, i)
           IN  /\ t \in Seq(S) /\ Len(t) = Len(s) - 1
               /\ \A j \in 1 .. Len(s) - 1 : t[j] = IF j < i THEN s[j] ELSE s[j + 1]
  <1> DEFINE a == SubSeq(s, 1, i - 1)
             b == SubSeq(s, i + 1, Len(s))
  <1>0. Len(s) \in Nat /\ DOMAIN s = 1 .. Len(s) /\ i \in 1 .. Len(s)
    OBVIOUS
  <1>1. a \in Seq(S) /\ Len(a) = i - 1 /\ \A j \in 1 .. i - 1 : a[j] = s[j]
    BY <1>0
  <1>2. b \in Seq(S) /\ Len(b) = Len(s) - i /\ \A j \in 1 .. Len(s) - i : b[j] = s[i + j]
    BY <1>0
  <1> HIDE DEF a, b
  <1>3. /\ a \o b \in Seq(S) /\ Len(a \o b) = Len(s) - 1
        /\ \A j \in 1 .. Len(s) - 1 : (a \o b)[j] = IF j < i THEN a[j] ELSE b[j - i + 1]
    <2>1. /\ a \o b \in Seq(S) /\ Len(a \o b) = Len(a) + Len(b)
          /\ \A j \in 1 .. Len(a) + Len(b) :
                (a \o b)[j] = IF j <= Len(a) THEN a[j] ELSE b[j - Len(a)]
      BY <1>1, <1>2, ConcatProperties
    <2>2. Len(a) + Len(b) = Len(s) - 1
      BY <1>0, <1>1, <1>2
    <2>3. \A j \in 1 .. Len(s) - 1 : (j <= Len(a) <=> j < i) /\ j - Len(a) = j - i + 1
      BY <1>0, <1>1
    <2> HIDE DEF a, b
    <2>4. ASSUME NEW j \in 1 .. Len(s) - 1
          PROVE  (a \o b)[j] = IF j < i THEN a[j] ELSE b[j - i + 1]
      <3>1. (a \o b)[j] = IF j <= Len(a) THEN a[j] ELSE b[j - Len(a)]
        BY <2>1, <2>2
      <3>2. (j <= Len(a) <=> j < i) /\ j - Len(a) = j - i + 1
        BY <2>3
      <3> QED BY <3>1, <3>2
    <2> QED BY <2>1, <2>2, <2>4
  <1>4. \A j \in 1 .. Len(s) - 1 : (a \o b)[j] = IF j < i THEN s[j] ELSE s[j + 1]
    <2> TAKE j \in 1 .. Len(s) - 1
    <2>1. CASE j < i
      BY <2>1, <1>0, <1>1, <1>3
    <2>2. CASE ~(j < i)
      <3>1. j - i + 1 \in 1 .. Len(s) - i /\ i + (j - i + 1) = j + 1
        BY <2>2, <1>0
      <3>2. b[j - i + 1] = s[j + 1]
        BY <3>1, <1>2
      <3> QED BY <2>2, <3>2, <1>3
    <2> QED BY <2>1, <2>2
  <1> QED BY <1>3, <1>4 DEF RemoveAt, a, b

\* Place finds what is in the list.
LEMMA PlaceFacts ==
    ASSUME NEW s, NEW k, In(k, s)
    PROVE  Place(s, k) \in DOMAIN s /\ s[Place(s, k)] = k
  BY DEF In, Place

LEMMA PlaceOnce ==
    ASSUME NEW s, Once(s), NEW j \in DOMAIN s
    PROVE  Place(s, s[j]) = j
  BY PlaceFacts DEF In, Once

\* What RemoveEntryList leaves of a list.
LEMMA RemoveFacts ==
    ASSUME NEW S, NEW s \in Seq(S), NEW k, In(k, s), Once(s)
    PROVE  LET t == RemoveEntryList(s, k)
           IN  /\ t \in Seq(S) /\ Once(t)
               /\ \A x : In(x, t) <=> In(x, s) /\ x # k
               /\ t = <<>> <=> Len(s) = 1
  <1> DEFINE i == Place(s, k)
             t == RemoveAt(s, i)
  <1>0. Len(s) \in Nat /\ DOMAIN s = 1 .. Len(s)
    OBVIOUS
  <1>1. i \in 1 .. Len(s) /\ s[i] = k
    BY <1>0, PlaceFacts
  <1>2. /\ t \in Seq(S) /\ Len(t) = Len(s) - 1
        /\ \A j \in 1 .. Len(s) - 1 : t[j] = IF j < i THEN s[j] ELSE s[j + 1]
    BY <1>0, <1>1, RemoveAtFacts
  <1> HIDE DEF i, t
  <1>3. DOMAIN t = 1 .. Len(s) - 1
    BY <1>2, <1>0
  <1>4. Once(t)
    BY <1>0, <1>1, <1>2, <1>3, SMTT(30) DEF Once
  <1>5. ASSUME NEW x, In(x, t) PROVE In(x, s) /\ x # k
    <2>1. PICK j \in 1 .. Len(s) - 1 : t[j] = x
      BY <1>5, <1>3 DEF In
    <2>2. CASE j < i
      <3>1. x = s[j] /\ j \in 1 .. Len(s) /\ j # i
        BY <2>1, <2>2, <1>0, <1>1, <1>2
      <3> QED BY <3>1, <1>0, <1>1 DEF In, Once
    <2>3. CASE ~(j < i)
      <3>1. x = s[j + 1] /\ j + 1 \in 1 .. Len(s) /\ j + 1 # i
        BY <2>1, <2>3, <1>0, <1>1, <1>2
      <3> QED BY <3>1, <1>0, <1>1 DEF In, Once
    <2> QED BY <2>2, <2>3
  <1>6. ASSUME NEW x, In(x, s), x # k PROVE In(x, t)
    <2>1. PICK j \in 1 .. Len(s) : s[j] = x
      BY <1>6, <1>0 DEF In
    <2>2. CASE j < i
      <3>1. j \in 1 .. Len(s) - 1 /\ t[j] = x
        BY <2>1, <2>2, <1>0, <1>1, <1>2
      <3> QED BY <3>1, <1>3 DEF In
    <2>3. CASE j > i
      <3>1. j - 1 \in 1 .. Len(s) - 1 /\ ~(j - 1 < i) /\ (j - 1) + 1 = j
        BY <2>1, <2>3, <1>0, <1>1
      <3>2. t[j - 1] = x
        BY <3>1, <2>1, <1>2
      <3> QED BY <3>1, <3>2, <1>3 DEF In
    <2> QED BY <2>1, <2>2, <2>3, <1>1, <1>6
  <1>7. t = <<>> <=> Len(s) = 1
    BY <1>0, <1>1, <1>2
  <1> QED BY <1>2, <1>4, <1>5, <1>6, <1>7 DEF RemoveEntryList, i, t

\* What the registrant has been told of is the list up to its position, also when an
\* interface leaves the list.
LEMMA UpToRemoved ==
    ASSUME NEW S, NEW s \in Seq(S), NEW k, In(k, s), Once(s), NEW x, In(x, s), None \notin S
    PROVE  LET t == RemoveEntryList(s, k)
           IN  /\ x # k => UpTo(t, x) = UpTo(s, x) \ {k}
               /\ Before(s, k) = None \/ In(Before(s, k), t)
               /\ UpTo(t, Before(s, k)) = UpTo(s, k) \ {k}
  <1> DEFINE i == Place(s, k)
             t == RemoveAt(s, i)
  <1>0. Len(s) \in Nat /\ DOMAIN s = 1 .. Len(s)
    OBVIOUS
  <1>1. i \in 1 .. Len(s) /\ s[i] = k
    BY <1>0, PlaceFacts
  <1>2. /\ t \in Seq(S) /\ Len(t) = Len(s) - 1
        /\ \A j \in 1 .. Len(s) - 1 : t[j] = IF j < i THEN s[j] ELSE s[j + 1]
    BY <1>0, <1>1, RemoveAtFacts
  <1>t. t = RemoveEntryList(s, k)
    BY DEF RemoveEntryList
  <1> HIDE DEF t
  <1>3. DOMAIN t = 1 .. Len(s) - 1 /\ Once(t)
    BY <1>2, <1>0, <1>t, RemoveFacts
  <1>4. \A j \in 1 .. Len(s) : s[j] # None
    BY <1>0
  <1>5. ASSUME NEW m \in 1 .. Len(s), m # i
        PROVE  UpTo(t, s[m]) = UpTo(s, s[m]) \ {k}
    <2>1. Place(s, s[m]) = m /\ s[m] # None
      BY <1>0, <1>4, PlaceOnce
    <2>2. UpTo(s, s[m]) = {s[j] : j \in 1 .. m}
      BY <2>1 DEF UpTo
    <2> DEFINE n == IF m < i THEN m ELSE m - 1
    <2>3. n \in 1 .. Len(s) - 1 /\ t[n] = s[m]
      <3>1. CASE m < i
        BY <3>1, <1>0, <1>1, <1>2
      <3>2. CASE m > i
        <4>1. m - 1 \in 1 .. Len(s) - 1 /\ ~(m - 1 < i) /\ (m - 1) + 1 = m
          BY <3>2, <1>0, <1>1
        <4>2. t[m - 1] = s[m]
          BY <4>1, <1>2
        <4> QED BY <3>2, <4>1, <4>2, <1>1
      <3> QED BY <3>1, <3>2, <1>1, <1>5
    <2>4. Place(t, s[m]) = n
      BY <2>3, <1>3, PlaceOnce
    <2>5. UpTo(t, s[m]) = {t[j] : j \in 1 .. n}
      BY <2>1, <2>4 DEF UpTo
    <2>6. \A j \in 1 .. n : \E l \in 1 .. m : t[j] = s[l] /\ l # i
      <3> TAKE j \in 1 .. n
      <3>1. j \in 1 .. Len(s) - 1
        BY <2>3
      <3>2. CASE j < i
        <4>1. t[j] = s[j] /\ j # i /\ j \in 1 .. m
          BY <3>1, <3>2, <1>1, <1>2
        <4> QED BY <4>1
      <3>3. CASE ~(j < i)
        <4>1. t[j] = s[j + 1] /\ j + 1 # i /\ j + 1 \in 1 .. m
          BY <3>1, <3>3, <1>1, <1>2
        <4> QED BY <4>1
      <3> QED BY <3>2, <3>3
    <2>7. \A l \in 1 .. m : l # i => \E j \in 1 .. n : t[j] = s[l]
      <3> TAKE l \in 1 .. m
      <3> HAVE l # i
      <3>1. CASE l < i
        <4>1. l \in 1 .. n /\ l \in 1 .. Len(s) - 1
          BY <3>1, <2>3, <1>1, <1>5
        <4>2. t[l] = s[l]
          BY <4>1, <3>1, <1>2
        <4> QED BY <4>1, <4>2
      <3>2. CASE l > i
        <4>1. l - 1 \in 1 .. n /\ l - 1 \in 1 .. Len(s) - 1 /\ ~(l - 1 < i) /\ (l - 1) + 1 = l
          BY <3>2, <2>3, <1>1, <1>5
        <4>2. t[l - 1] = s[l]
          BY <4>1, <1>2
        <4> QED BY <4>1, <4>2
      <3> QED BY <3>1, <3>2, <1>1
    <2>8. \A l \in 1 .. m : s[l] = k <=> l = i
      BY <1>0, <1>1 DEF Once
    <2> HIDE DEF n
    <2> QED BY <2>2, <2>5, <2>6, <2>7, <2>8
  <1>6. x # k => UpTo(t, x) = UpTo(s, x) \ {k}
    <2>1. PICK m \in 1 .. Len(s) : s[m] = x
      BY <1>0 DEF In
    <2> QED BY <2>1, <1>1, <1>5
  <1>7. CASE i = 1
    <2>1. Before(s, k) = None
      BY <1>7 DEF Before
    <2>2. UpTo(s, k) = {s[j] : j \in 1 .. 1} /\ k # None
      BY <1>7, <1>1, <1>4 DEF UpTo
    <2>3. UpTo(s, k) = {k}
      BY <2>2, <1>1, <1>7
    <2> QED BY <2>1, <2>3, <1>6, <1>t DEF UpTo
  <1>8. CASE i # 1
    <2>1. i - 1 \in 1 .. Len(s) /\ i - 1 # i /\ i - 1 \in 1 .. Len(s) - 1
      BY <1>8, <1>1, <1>0
    <2>2. Before(s, k) = s[i - 1] /\ t[i - 1] = s[i - 1]
      <3>1. Before(s, k) = s[i - 1]
        BY <1>8 DEF Before
      <3>2. i - 1 < i
        BY <1>1, <1>0
      <3>3. t[i - 1] = IF i - 1 < i THEN s[i - 1] ELSE s[(i - 1) + 1]
        BY <2>1, <1>2
      <3> QED BY <3>1, <3>2, <3>3
    <2>3. UpTo(t, s[i - 1]) = UpTo(s, s[i - 1]) \ {k}
      BY <2>1, <1>5
    <2>4. UpTo(s, s[i - 1]) = {s[j] : j \in 1 .. i - 1}
      BY <2>1, <1>0, <1>4, PlaceOnce DEF UpTo
    <2>5. UpTo(s, k) = {s[j] : j \in 1 .. i}
      BY <1>1, <1>4 DEF UpTo
    <2>6. \A j \in 1 .. i : j \in 1 .. i - 1 \/ s[j] = k
      BY <1>1
    <2>7. \A j \in 1 .. i - 1 : j \in 1 .. i
      BY <1>1
    <2>8. UpTo(s, s[i - 1]) \ {k} = UpTo(s, k) \ {k}
      BY <2>4, <2>5, <2>6, <2>7
    <2>9. In(s[i - 1], t)
      BY <2>1, <2>2, <1>3 DEF In
    <2> QED BY <2>2, <2>3, <2>8, <2>9, <1>6, <1>t
  <1> QED BY <1>7, <1>8

\* ... or is added at its end.
LEMMA AppendedFacts ==
    ASSUME NEW S, NEW s \in Seq(S), NEW k \in S, ~ In(k, s), Once(s)
    PROVE  LET t == Append(s, k)
           IN  /\ t \in Seq(S) /\ Once(t) /\ t # <<>>
               /\ \A x : In(x, t) <=> In(x, s) \/ x = k
  <1> DEFINE t == Append(s, k)
  <1>1. /\ t \in Seq(S) /\ Len(t) = Len(s) + 1 /\ Len(s) \in Nat /\ DOMAIN s = 1 .. Len(s)
        /\ DOMAIN t = 1 .. Len(s) + 1 /\ t[Len(s) + 1] = k /\ \A j \in 1 .. Len(s) : t[j] = s[j]
    OBVIOUS
  <1> HIDE DEF t
  <1>2. Once(t)
    BY <1>1 DEF Once, In
  <1>3. \A x : In(x, t) <=> In(x, s) \/ x = k
    BY <1>1 DEF In
  <1>4. t # <<>>
    BY <1>1
  <1> QED BY <1>1, <1>2, <1>3, <1>4 DEF t

\* ... and what a registrant has been told of does not change.
LEMMA UpToAppended ==
    ASSUME NEW S, NEW s \in Seq(S), NEW k \in S, ~ In(k, s), Once(s), NEW x, x = None \/ In(x, s)
    PROVE  UpTo(Append(s, k), x) = UpTo(s, x)
  <1> DEFINE t == Append(s, k)
  <1>1. /\ t \in Seq(S) /\ Len(t) = Len(s) + 1 /\ Len(s) \in Nat /\ DOMAIN s = 1 .. Len(s)
        /\ DOMAIN t = 1 .. Len(s) + 1 /\ t[Len(s) + 1] = k /\ \A j \in 1 .. Len(s) : t[j] = s[j]
    OBVIOUS
  <1>2. Once(t)
    BY AppendedFacts
  <1> HIDE DEF t
  <1>3. CASE x = None
    BY <1>3 DEF UpTo, t
  <1>4. CASE x # None
    <2>1. PICK m \in 1 .. Len(s) : s[m] = x
      BY <1>4, <1>1 DEF In
    <2>2. m \in DOMAIN t /\ t[m] = x
      BY <2>1, <1>1
    <2>3. Place(t, x) = m /\ Place(s, x) = m
      BY <2>1, <2>2, <1>1, <1>2, PlaceOnce
    <2>4. \A j \in 1 .. m : t[j] = s[j]
      BY <2>1, <1>1
    <2>5. {t[j] : j \in 1 .. m} = {s[j] : j \in 1 .. m}
      BY <2>4
    <2> QED BY <2>3, <2>5, <1>4 DEF UpTo, t
  <1> QED BY <1>3, <1>4

\* ... or at its head.
LEMMA ConsFacts ==
    ASSUME NEW S, NEW s \in Seq(S), NEW k \in S, ~ In(k, s), Once(s)
    PROVE  LET t == <<k>> \o s
           IN  /\ t \in Seq(S) /\ Once(t) /\ t # <<>>
               /\ \A x : In(x, t) <=> In(x, s) \/ x = k
  <1> DEFINE t == <<k>> \o s
  <1>1. /\ t \in Seq(S) /\ Len(t) = Len(s) + 1 /\ Len(s) \in Nat /\ DOMAIN s = 1 .. Len(s)
        /\ DOMAIN t = 1 .. Len(s) + 1 /\ t[1] = k /\ \A j \in 2 .. Len(s) + 1 : t[j] = s[j - 1]
    OBVIOUS
  <1> HIDE DEF t
  <1>2. Once(t)
    <2> SUFFICES ASSUME NEW i \in 1 .. Len(s) + 1, NEW j \in 1 .. Len(s) + 1, t[i] = t[j]
                 PROVE  i = j
      BY <1>1 DEF Once
    <2>1. \A l \in 2 .. Len(s) + 1 : l - 1 \in DOMAIN s /\ t[l] = s[l - 1] /\ t[l] # k
      <3> TAKE l \in 2 .. Len(s) + 1
      <3>1. l - 1 \in DOMAIN s
        BY <1>1
      <3>2. t[l] = s[l - 1]
        BY <1>1
      <3> QED BY <3>1, <3>2 DEF In
    <2>2. CASE i = 1 \/ j = 1
      BY <2>1, <2>2, <1>1
    <2>3. CASE i # 1 /\ j # 1
      <3>1. i \in 2 .. Len(s) + 1 /\ j \in 2 .. Len(s) + 1
        BY <2>3, <1>1
      <3>2. i - 1 = j - 1
        BY <2>1, <3>1 DEF Once
      <3> QED BY <3>2
    <2> QED BY <2>2, <2>3
  <1>3. \A x : In(x, s) => In(x, t)
    <2> TAKE x
    <2> HAVE In(x, s)
    <2>1. PICK j \in 1 .. Len(s) : s[j] = x
      BY <1>1 DEF In
    <2>2. j + 1 \in 2 .. Len(s) + 1 /\ (j + 1) - 1 = j /\ j + 1 \in DOMAIN t
      BY <1>1
    <2>3. t[j + 1] = s[(j + 1) - 1]
      BY <2>2, <1>1
    <2>4. t[j + 1] = x
      BY <2>1, <2>2, <2>3
    <2> QED BY <2>2, <2>4 DEF In
  <1>4. \A x : In(x, t) => In(x, s) \/ x = k
    <2> TAKE x
    <2> HAVE In(x, t)
    <2>1. PICK j \in 1 .. Len(s) + 1 : t[j] = x
      BY <1>1 DEF In
    <2>2. CASE j = 1
      BY <2>1, <2>2, <1>1
    <2>3. CASE j # 1
      <3>1. j - 1 \in 1 .. Len(s) /\ j \in 2 .. Len(s) + 1
        BY <2>3, <1>1
      <3> QED BY <2>1, <3>1, <1>1 DEF In
    <2> QED BY <2>2, <2>3
  <1>5. In(k, t)
    BY <1>1 DEF In
  <1>6. t # <<>>
    BY <1>1
  <1> QED BY <1>1, <1>2, <1>3, <1>4, <1>5, <1>6 DEF t

-----------------------------------------------------------------------------
(* Frames *)

\* None is no handle, interface or protocol.
LEMMA NoneFacts ==
    /\ \A k \in Prot : k # None
    /\ \A h \in Handle : h # None
    /\ \A p \in Protocol : p # None
  BY HandlesAssumption

LEMMA DriversAreAgents == \A d \in Drivers : d \in Agent
  BY DEF Agent

\* A function that does not work on an interface yet.
Idling(f) == f.prot = None /\ f.op \notin {"Locate", "Callback"}

\* Every kind of call makes a well-formed frame.
LEMMA CallFacts ==
    ASSUME NEW op
    PROVE  /\ IsFrame(Call(op)) /\ Call(op).op = op /\ Call(op).prot = None /\ Call(op).n = 0
  BY DEF IsFrame, Call

\* The functions of the database and of the drivers are called with arguments of the
\* right kind.
LEMMA InstallFrame ==
    ASSUME NEW h, NEW p, NEW i, p \in Protocol, i \in Interface
    PROVE  FrameOK(DoInstall(h, p, i)) /\ Idling(DoInstall(h, p, i))
  <1>1. PICK f : f = Call("Install")
    OBVIOUS
  <1>2. IsFrame(f) /\ f.op = "Install" /\ f.prot = None /\ f.n = 0
    BY <1>1, CallFacts
  <1>3. PICK g : g = [f EXCEPT !.h = h, !.p = p, !.i = i]
    OBVIOUS
  <1>4. g = DoInstall(h, p, i)
    BY <1>1, <1>3 DEF DoInstall
  <1>5. IsFrame(g) /\ g.op = "Install" /\ g.prot = None /\ g.n = 0 /\ g.h = h /\ g.p = p /\ g.i = i
    BY <1>2, <1>3 DEF IsFrame
  <1> QED BY <1>4, <1>5 DEF FrameOK, Idling, Installing, Listing, DriverOp

LEMMA UninstallFrame ==
    ASSUME NEW h, NEW p, NEW i
    PROVE  FrameOK(DoUninstall(h, p, i)) /\ Idling(DoUninstall(h, p, i))
  <1>1. PICK f : f = Call("Uninstall")
    OBVIOUS
  <1>2. IsFrame(f) /\ f.op = "Uninstall" /\ f.prot = None /\ f.n = 0
    BY <1>1, CallFacts
  <1>3. PICK g : g = [f EXCEPT !.h = h, !.p = p, !.i = i]
    OBVIOUS
  <1>4. g = DoUninstall(h, p, i)
    BY <1>1, <1>3 DEF DoUninstall
  <1>5. IsFrame(g) /\ g.op = "Uninstall" /\ g.prot = None /\ g.n = 0 /\ g.h = h /\ g.p = p /\ g.i = i
    BY <1>2, <1>3 DEF IsFrame
  <1> QED BY <1>4, <1>5 DEF FrameOK, Idling, Installing, Listing, DriverOp

LEMMA ReinstallFrame ==
    ASSUME NEW h, NEW p, NEW i, NEW to, to \in Interface
    PROVE  FrameOK(DoReinstall(h, p, i, to)) /\ Idling(DoReinstall(h, p, i, to))
  <1>1. PICK f : f = Call("Reinstall")
    OBVIOUS
  <1>2. IsFrame(f) /\ f.op = "Reinstall" /\ f.prot = None /\ f.n = 0
    BY <1>1, CallFacts
  <1>3. PICK g : g = [f EXCEPT !.h = h, !.p = p, !.i = i, !.to = to]
    OBVIOUS
  <1>4. g = DoReinstall(h, p, i, to)
    BY <1>1, <1>3 DEF DoReinstall
  <1>5. IsFrame(g) /\ g.op = "Reinstall" /\ g.prot = None /\ g.n = 0 /\ g.h = h /\ g.p = p /\ g.i = i /\ g.to = to
    BY <1>2, <1>3 DEF IsFrame
  <1> QED BY <1>4, <1>5 DEF FrameOK, Idling, Installing, Listing, DriverOp

LEMMA OpenFrame ==
    ASSUME NEW h, NEW p, NEW agent, NEW ctrl, NEW attr, agent \in Agent, attr \in Attribute
    PROVE  FrameOK(DoOpen(h, p, agent, ctrl, attr)) /\ Idling(DoOpen(h, p, agent, ctrl, attr))
  <1>1. PICK f : f = Call("Open")
    OBVIOUS
  <1>2. IsFrame(f) /\ f.op = "Open" /\ f.prot = None /\ f.n = 0
    BY <1>1, CallFacts
  <1>3. PICK g : g = [f EXCEPT !.h = h, !.p = p, !.agent = agent, !.ctrl = ctrl, !.attr = attr]
    OBVIOUS
  <1>4. g = DoOpen(h, p, agent, ctrl, attr)
    BY <1>1, <1>3 DEF DoOpen
  <1>5. IsFrame(g) /\ g.op = "Open" /\ g.prot = None /\ g.n = 0 /\ g.h = h /\ g.p = p /\ g.agent = agent /\ g.ctrl = ctrl /\ g.attr = attr
    BY <1>2, <1>3 DEF IsFrame
  <1> QED BY <1>4, <1>5 DEF FrameOK, Idling, Installing, Listing, DriverOp

LEMMA CloseFrame ==
    ASSUME NEW h, NEW p, NEW agent, NEW ctrl
    PROVE  FrameOK(DoClose(h, p, agent, ctrl)) /\ Idling(DoClose(h, p, agent, ctrl))
  <1>1. PICK f : f = Call("Close")
    OBVIOUS
  <1>2. IsFrame(f) /\ f.op = "Close" /\ f.prot = None /\ f.n = 0
    BY <1>1, CallFacts
  <1>3. PICK g : g = [f EXCEPT !.h = h, !.p = p, !.agent = agent, !.ctrl = ctrl]
    OBVIOUS
  <1>4. g = DoClose(h, p, agent, ctrl)
    BY <1>1, <1>3 DEF DoClose
  <1>5. IsFrame(g) /\ g.op = "Close" /\ g.prot = None /\ g.n = 0 /\ g.h = h /\ g.p = p /\ g.agent = agent /\ g.ctrl = ctrl
    BY <1>2, <1>3 DEF IsFrame
  <1> QED BY <1>4, <1>5 DEF FrameOK, Idling, Installing, Listing, DriverOp

LEMMA ConnectFrame ==
    ASSUME NEW h, NEW list, list \in Seq(Drivers)
    PROVE  FrameOK(DoConnectWith(h, list)) /\ Idling(DoConnectWith(h, list))
  <1>1. PICK f : f = Call("Connect")
    OBVIOUS
  <1>2. IsFrame(f) /\ f.op = "Connect" /\ f.prot = None /\ f.n = 0
    BY <1>1, CallFacts
  <1>3. PICK g : g = [f EXCEPT !.h = h, !.list = list]
    OBVIOUS
  <1>4. g = DoConnectWith(h, list)
    BY <1>1, <1>3 DEF DoConnectWith
  <1>5. IsFrame(g) /\ g.op = "Connect" /\ g.prot = None /\ g.n = 0 /\ g.h = h /\ g.list = list
    BY <1>2, <1>3 DEF IsFrame
  <1> QED BY <1>4, <1>5 DEF FrameOK, Idling, Installing, Listing, DriverOp

LEMMA DisconnectFrame ==
    ASSUME NEW h, NEW agent, NEW ctrl
    PROVE  FrameOK(DoDisconnect(h, agent, ctrl)) /\ Idling(DoDisconnect(h, agent, ctrl))
  <1>1. PICK f : f = Call("Disconnect")
    OBVIOUS
  <1>2. IsFrame(f) /\ f.op = "Disconnect" /\ f.prot = None /\ f.n = 0
    BY <1>1, CallFacts
  <1>3. PICK g : g = [f EXCEPT !.h = h, !.agent = agent, !.ctrl = ctrl]
    OBVIOUS
  <1>4. g = DoDisconnect(h, agent, ctrl)
    BY <1>1, <1>3 DEF DoDisconnect
  <1>5. IsFrame(g) /\ g.op = "Disconnect" /\ g.prot = None /\ g.n = 0 /\ g.h = h /\ g.agent = agent /\ g.ctrl = ctrl
    BY <1>2, <1>3 DEF IsFrame
  <1> QED BY <1>4, <1>5 DEF FrameOK, Idling, Installing, Listing, DriverOp

LEMMA StartFrame ==
    ASSUME NEW agent, NEW h, agent \in Drivers
    PROVE  FrameOK(DoStart(agent, h)) /\ Idling(DoStart(agent, h))
  <1>1. PICK f : f = Call("Start")
    OBVIOUS
  <1>2. IsFrame(f) /\ f.op = "Start" /\ f.prot = None /\ f.n = 0
    BY <1>1, CallFacts
  <1>3. PICK g : g = [f EXCEPT !.agent = agent, !.h = h]
    OBVIOUS
  <1>4. g = DoStart(agent, h)
    BY <1>1, <1>3 DEF DoStart
  <1>5. IsFrame(g) /\ g.op = "Start" /\ g.prot = None /\ g.n = 0 /\ g.agent = agent /\ g.h = h
    BY <1>2, <1>3 DEF IsFrame
  <1> QED BY <1>4, <1>5 DEF FrameOK, Idling, Installing, Listing, DriverOp

LEMMA StopFrame ==
    ASSUME NEW agent, NEW h, NEW set, agent \in Drivers
    PROVE  FrameOK(DoStop(agent, h, set)) /\ Idling(DoStop(agent, h, set))
  <1>1. PICK f : f = Call("Stop")
    OBVIOUS
  <1>2. IsFrame(f) /\ f.op = "Stop" /\ f.prot = None /\ f.n = 0
    BY <1>1, CallFacts
  <1>3. PICK g : g = [f EXCEPT !.agent = agent, !.h = h, !.set = set]
    OBVIOUS
  <1>4. g = DoStop(agent, h, set)
    BY <1>1, <1>3 DEF DoStop
  <1>5. IsFrame(g) /\ g.op = "Stop" /\ g.prot = None /\ g.n = 0 /\ g.agent = agent /\ g.h = h /\ g.set = set
    BY <1>2, <1>3 DEF IsFrame
  <1> QED BY <1>4, <1>5 DEF FrameOK, Idling, Installing, Listing, DriverOp

LEMMA InstallMultipleFrame ==
    ASSUME NEW h, NEW list, list \in Seq(Protocol \X Interface)
    PROVE  FrameOK(DoInstallMultiple(h, list)) /\ Idling(DoInstallMultiple(h, list))
  <1>1. PICK f : f = Call("InstallMultiple")
    OBVIOUS
  <1>2. IsFrame(f) /\ f.op = "InstallMultiple" /\ f.prot = None /\ f.n = 0
    BY <1>1, CallFacts
  <1>3. PICK g : g = [f EXCEPT !.h = h, !.list = list]
    OBVIOUS
  <1>4. g = DoInstallMultiple(h, list)
    BY <1>1, <1>3 DEF DoInstallMultiple
  <1>5. IsFrame(g) /\ g.op = "InstallMultiple" /\ g.prot = None /\ g.n = 0 /\ g.h = h /\ g.list = list
    BY <1>2, <1>3 DEF IsFrame
  <1>6. 0 \in 0 .. Len(list)
    OBVIOUS
  <1> QED BY <1>4, <1>5, <1>6 DEF FrameOK, Idling, Installing, Listing, DriverOp

LEMMA UninstallMultipleFrame ==
    ASSUME NEW h, NEW list, list \in Seq(Protocol \X Interface)
    PROVE  FrameOK(DoUninstallMultiple(h, list)) /\ Idling(DoUninstallMultiple(h, list))
  <1>1. PICK f : f = Call("UninstallMultiple")
    OBVIOUS
  <1>2. IsFrame(f) /\ f.op = "UninstallMultiple" /\ f.prot = None /\ f.n = 0
    BY <1>1, CallFacts
  <1>3. PICK g : g = [f EXCEPT !.h = h, !.list = list]
    OBVIOUS
  <1>4. g = DoUninstallMultiple(h, list)
    BY <1>1, <1>3 DEF DoUninstallMultiple
  <1>5. IsFrame(g) /\ g.op = "UninstallMultiple" /\ g.prot = None /\ g.n = 0 /\ g.h = h /\ g.list = list
    BY <1>2, <1>3 DEF IsFrame
  <1>6. 0 \in 0 .. Len(list)
    OBVIOUS
  <1> QED BY <1>4, <1>5, <1>6 DEF FrameOK, Idling, Installing, Listing, DriverOp

LEMMA DeniedFrame ==
    FrameOK(Denied) /\ Idling(Denied)
  <1>1. PICK f : f = Call("Denied")
    OBVIOUS
  <1>2. IsFrame(f) /\ f.op = "Denied" /\ f.prot = None /\ f.n = 0
    BY <1>1, CallFacts
  <1>3. PICK g : g = f
    OBVIOUS
  <1>4. g = Denied
    BY <1>1, <1>3 DEF Denied
  <1>5. IsFrame(g) /\ g.op = "Denied" /\ g.prot = None
    BY <1>2, <1>3
  <1> QED BY <1>4, <1>5 DEF FrameOK, Idling, Installing, Listing, DriverOp

LEMMA StopLastFrame ==
    ASSUME NEW agent, NEW h, agent \in Drivers
    PROVE  FrameOK([Call("StopLast") EXCEPT !.agent = agent, !.h = h]) /\ Idling([Call("StopLast") EXCEPT !.agent = agent, !.h = h])
  <1>1. PICK f : f = Call("StopLast")
    OBVIOUS
  <1>2. IsFrame(f) /\ f.op = "StopLast" /\ f.prot = None /\ f.n = 0
    BY <1>1, CallFacts
  <1>3. PICK g : g = [f EXCEPT !.agent = agent, !.h = h]
    OBVIOUS
  <1>4. g = [Call("StopLast") EXCEPT !.agent = agent, !.h = h]
    BY <1>1, <1>3
  <1>5. IsFrame(g) /\ g.op = "StopLast" /\ g.prot = None /\ g.n = 0 /\ g.agent = agent /\ g.h = h
    BY <1>2, <1>3 DEF IsFrame
  <1> QED BY <1>4, <1>5 DEF FrameOK, Idling, Installing, Listing, DriverOp

LEMMA CallbackFrame ==
    ASSUME NEW to, NEW ctrl
    PROVE  FrameOK([Call("Callback") EXCEPT !.to = to, !.ctrl = ctrl])
  <1>1. PICK f : f = Call("Callback")
    OBVIOUS
  <1>2. IsFrame(f) /\ f.op = "Callback" /\ f.prot = None /\ f.n = 0
    BY <1>1, CallFacts
  <1>3. PICK g : g = [f EXCEPT !.to = to, !.ctrl = ctrl]
    OBVIOUS
  <1>4. g = [Call("Callback") EXCEPT !.to = to, !.ctrl = ctrl]
    BY <1>1, <1>3
  <1>5. IsFrame(g) /\ g.op = "Callback" /\ g.prot = None /\ g.n = 0 /\ g.to = to /\ g.ctrl = ctrl
    BY <1>2, <1>3 DEF IsFrame
  <1> QED BY <1>4, <1>5 DEF FrameOK, Idling, Installing, Listing, DriverOp

LEMMA LocateFrame ==
    ASSUME NEW to, to \in Event
    PROVE  FrameOK([Call("Locate") EXCEPT !.to = to])
  <1>1. PICK f : f = Call("Locate")
    OBVIOUS
  <1>2. IsFrame(f) /\ f.op = "Locate" /\ f.prot = None /\ f.n = 0
    BY <1>1, CallFacts
  <1>3. PICK g : g = [f EXCEPT !.to = to]
    OBVIOUS
  <1>4. g = [Call("Locate") EXCEPT !.to = to]
    BY <1>1, <1>3
  <1>5. IsFrame(g) /\ g.op = "Locate" /\ g.prot = None /\ g.n = 0 /\ g.to = to
    BY <1>2, <1>3 DEF IsFrame
  <1> QED BY <1>4, <1>5 DEF FrameOK, Idling, Installing, Listing, DriverOp

LEMMA ConnectAllFrame ==
    ASSUME NEW h
    PROVE  FrameOK(DoConnect(h)) /\ Idling(DoConnect(h))
  <1>1. <<>> \in Seq(Drivers)
    OBVIOUS
  <1> QED BY <1>1, ConnectFrame DEF DoConnect

\* The calls of applications and callbacks.
LEMMA ServiceFrame ==
    ASSUME NEW c \in AppCalls \cup CallbackCalls
    PROVE  FrameOK(c) /\ Idling(c)
  <1>1. ServiceCall(c)
    BY HandlesAssumption
  <1>2. c.agent \in Agent
    BY DEF Agent
  <1>3. CASE c = DoInstall(c.h, c.p, c.i) /\ c.p \in Protocol /\ c.i \in Interface
    BY <1>3, InstallFrame
  <1>4. CASE c = DoUninstall(c.h, c.p, c.i)
    BY <1>4, UninstallFrame
  <1>5. CASE c = DoReinstall(c.h, c.p, c.i, c.to) /\ c.to \in Interface
    BY <1>5, ReinstallFrame
  <1>6. CASE c = DoOpen(c.h, c.p, c.agent, c.ctrl, c.attr) /\ c.attr \in Attribute
    BY <1>2, <1>6, OpenFrame
  <1>7. CASE c = DoClose(c.h, c.p, c.agent, c.ctrl)
    BY <1>7, CloseFrame
  <1>8. CASE c = DoConnectWith(c.h, c.list) /\ c.list \in Seq(Drivers)
    BY <1>8, ConnectFrame
  <1>9. CASE c = DoDisconnect(c.h, c.agent, c.ctrl)
    BY <1>9, DisconnectFrame
  <1>10. CASE c = DoInstallMultiple(c.h, c.list) /\ c.list \in Seq(Protocol \X Interface)
    BY <1>10, InstallMultipleFrame
  <1>11. CASE c = DoUninstallMultiple(c.h, c.list) /\ c.list \in Seq(Protocol \X Interface)
    BY <1>11, UninstallMultipleFrame
  <1> QED BY <1>1, <1>3, <1>4, <1>5, <1>6, <1>7, <1>8, <1>9, <1>10, <1>11 DEF ServiceCall

\* A function that does not work on an interface yet has no target to lose.
LEMMA IdleTarget ==
    ASSUME NEW f, Idling(f), NEW pr
    PROVE  TargetOK(f, pr) /\ f.op # "Locate"
  BY DEF Idling, TargetOK, Working

-----------------------------------------------------------------------------
(* The stack *)

\* Tuples as sequences.
LEMMA EmptyTuple == <<>> \in Seq({}) /\ DOMAIN <<>> = {} /\ IsSeq(<<>>)
  BY DEF IsSeq

LEMMA TupleOne ==
    ASSUME NEW f, NEW c, c = <<f>>
    PROVE  IsSeq(c) /\ DOMAIN c = 1 .. 1 /\ c[1] = f
  <1>1. <<f>> \in Seq({f})
    OBVIOUS
  <1>2. IsSeq(<<f>>)
    BY <1>1, SeqIsSeq
  <1> QED BY <1>2

LEMMA TupleTwo ==
    ASSUME NEW f, NEW g, NEW c, c = <<f, g>>
    PROVE  IsSeq(c) /\ DOMAIN c = 1 .. 2 /\ c[1] = f /\ c[2] = g
  <1>1. <<f, g>> \in Seq({f, g})
    OBVIOUS
  <1>2. IsSeq(<<f, g>>)
    BY <1>1, SeqIsSeq
  <1> QED BY <1>2

LEMMA TupleThree ==
    ASSUME NEW f, NEW g, NEW h, NEW c, c = <<f, g, h>>
    PROVE  IsSeq(c) /\ DOMAIN c = 1 .. 3 /\ c[1] = f /\ c[2] = g /\ c[3] = h
  <1>1. <<f, g, h>> \in Seq({f, g, h})
    OBVIOUS
  <1>2. IsSeq(<<f, g, h>>)
    BY <1>1, SeqIsSeq
  <1> QED BY <1>2

\* Concatenation.
LEMMA ConcatIsSeq ==
    ASSUME NEW s, NEW t, IsSeq(s), IsSeq(t)
    PROVE  /\ IsSeq(s \o t) /\ Len(s \o t) = Len(s) + Len(t) /\ DOMAIN (s \o t) = 1 .. Len(s) + Len(t)
           /\ \A j \in 1 .. Len(s) : (s \o t)[j] = s[j]
           /\ \A j \in 1 .. Len(t) : (s \o t)[Len(s) + j] = t[j]
           /\ \A j \in 1 .. Len(s) + Len(t) : j \in 1 .. Len(s) \/ (j - Len(s) \in 1 .. Len(t) /\ (s \o t)[j] = t[j - Len(s)])
  <1> DEFINE A == {s[j] : j \in DOMAIN s}
             B == {t[j] : j \in DOMAIN t}
             S == A \cup B
  <1>1. s \in Seq(S) /\ t \in Seq(S)
    <2>1. s \in Seq(A) /\ t \in Seq(B)
      BY DEF IsSeq
    <2>2. A \subseteq S /\ B \subseteq S
      OBVIOUS
    <2> HIDE DEF A, B, S
    <2> QED BY <2>1, <2>2, SeqMonotonic
  <1> HIDE DEF S
  <1>2. /\ s \o t \in Seq(S) /\ Len(s \o t) = Len(s) + Len(t)
        /\ \A j \in 1 .. Len(s) + Len(t) :
              (s \o t)[j] = IF j <= Len(s) THEN s[j] ELSE t[j - Len(s)]
    BY <1>1, ConcatProperties
  <1>3. Len(s) \in Nat /\ Len(t) \in Nat
    BY <1>1
  <1>4. IsSeq(s \o t) /\ DOMAIN (s \o t) = 1 .. Len(s) + Len(t)
    BY <1>2, SeqIsSeq
  <1> DEFINE u == s \o t
  <1>5. \A j \in 1 .. Len(s) + Len(t) : u[j] = IF j <= Len(s) THEN s[j] ELSE t[j - Len(s)]
    BY <1>2
  <1>6. \A j \in 1 .. Len(s) : u[j] = s[j]
    <2> HIDE DEF u
    <2> QED BY <1>3, <1>5
  <1>7. \A j \in 1 .. Len(t) : u[Len(s) + j] = t[j]
    <2> HIDE DEF u
    <2> TAKE j \in 1 .. Len(t)
    <2>1. Len(s) + j \in 1 .. Len(s) + Len(t) /\ ~(Len(s) + j <= Len(s)) /\ (Len(s) + j) - Len(s) = j
      BY <1>3
    <2>2. u[Len(s) + j] = t[(Len(s) + j) - Len(s)]
      BY <2>1, <1>5
    <2> QED BY <2>1, <2>2
  <1>8. \A j \in 1 .. Len(s) + Len(t) : j \in 1 .. Len(s) \/ (j - Len(s) \in 1 .. Len(t) /\ u[j] = t[j - Len(s)])
    <2> HIDE DEF u
    <2> TAKE j \in 1 .. Len(s) + Len(t)
    <2>1. CASE j <= Len(s)
      BY <2>1, <1>3
    <2>2. CASE ~(j <= Len(s))
      <3>1. j - Len(s) \in 1 .. Len(t)
        BY <2>2, <1>3
      <3> QED BY <2>2, <3>1, <1>5
    <2> QED BY <2>1, <2>2
  <1> QED BY <1>2, <1>4, <1>6, <1>7, <1>8

\* The first part of a sequence.
LEMMA CutFacts ==
    ASSUME NEW S, NEW s \in Seq(S), NEW n \in 0 .. Len(s)
    PROVE  /\ SubSeq(s, 1, n) \in Seq(S) /\ Len(SubSeq(s, 1, n)) = n
           /\ \A j \in 1 .. n : SubSeq(s, 1, n)[j] = s[j]
  <1>1. 1 \in Int /\ n \in Int /\ \A j \in 1 .. n : s[j] \in S
    OBVIOUS
  <1>2. /\ SubSeq(s, 1, n) \in Seq(S)
        /\ Len(SubSeq(s, 1, n)) = IF 1 <= n THEN n - 1 + 1 ELSE 0
        /\ \A j \in 1 .. (n - 1 + 1) : SubSeq(s, 1, n)[j] = s[1 + j - 1]
    BY <1>1, SubSeqProperties
  <1> QED BY <1>1, <1>2

\* All of the stack but the running function.
LEMMA FrontFacts ==
    ASSUME NEW t, IsSeq(t), t # <<>>
    PROVE  /\ IsSeq(Front(t)) /\ Len(Front(t)) = Len(t) - 1 /\ Len(t) \in Nat /\ Len(t) > 0
           /\ \A j \in 1 .. Len(t) - 1 : Front(t)[j] = t[j]
           /\ Len(t) \in DOMAIN t /\ Last(t) = t[Len(t)]
  <1> DEFINE S == {t[j] : j \in DOMAIN t}
  <1>0. t \in Seq(S)
    BY DEF IsSeq
  <1> HIDE DEF S
  <1>1. Len(t) \in Nat /\ Len(t) > 0
    BY <1>0
  <1>2. /\ SubSeq(t, 1, Len(t) - 1) \in Seq(S) /\ Len(SubSeq(t, 1, Len(t) - 1)) = Len(t) - 1
        /\ \A j \in 1 .. Len(t) - 1 : SubSeq(t, 1, Len(t) - 1)[j] = t[j]
    <2>1. Len(t) - 1 \in 0 .. Len(t)
      BY <1>1
    <2> QED BY <1>0, <2>1, CutFacts
  <1>3. IsSeq(SubSeq(t, 1, Len(t) - 1))
    BY <1>2, SeqIsSeq
  <1>4. Len(t) \in DOMAIN t
    BY <1>0, <1>1
  <1> QED BY <1>1, <1>2, <1>3, <1>4 DEF Front, Last

\* The stack after a step of its last function: what is below stays.
Replaced(t, c, u) ==
    /\ IsSeq(u)
    /\ \A j \in 1 .. Len(t) - 1 : j \in DOMAIN t /\ j \in DOMAIN u /\ u[j] = t[j]
    /\ \A j \in DOMAIN t : j \in 1 .. Len(t) - 1 \/ t[j] = Last(t)
    /\ \A j \in DOMAIN u : j \in 1 .. Len(t) - 1 \/ \E m \in DOMAIN c : u[j] = c[m]
    /\ \A m \in DOMAIN c : \E j \in DOMAIN u : u[j] = c[m]

\* Goto replaces the running function by what it calls, and leaves its callers alone.
LEMMA GotoFacts ==
    ASSUME NEW t, IsSeq(t), t # <<>>, NEW c, IsSeq(c), NEW u, u = Front(t) \o c
    PROVE  Replaced(t, c, u)
  <1>1. /\ IsSeq(Front(t)) /\ Len(Front(t)) = Len(t) - 1 /\ Len(t) \in Nat /\ Len(t) > 0
        /\ \A j \in 1 .. Len(t) - 1 : Front(t)[j] = t[j]
        /\ Last(t) = t[Len(t)]
    BY FrontFacts
  <1>r. PICK r : r = Front(t)
    OBVIOUS
  <1>c. u = r \o c /\ IsSeq(r)
    BY <1>r, <1>1
  <1>2. /\ IsSeq(u) /\ DOMAIN u = 1 .. Len(r) + Len(c)
        /\ \A j \in 1 .. Len(r) : u[j] = r[j]
        /\ \A j \in 1 .. Len(c) : u[Len(r) + j] = c[j]
        /\ \A j \in 1 .. Len(r) + Len(c) : j \in 1 .. Len(r) \/ (j - Len(r) \in 1 .. Len(c) /\ u[j] = c[j - Len(r)])
    BY <1>c, ConcatIsSeq
  <1>3. Len(c) \in Nat /\ DOMAIN c = 1 .. Len(c) /\ DOMAIN t = 1 .. Len(t)
    BY IsSeqFacts
  <1>4. Len(r) = Len(t) - 1 /\ \A j \in 1 .. Len(t) - 1 : r[j] = t[j]
    BY <1>1, <1>r
  <1>5. \A j \in 1 .. Len(t) - 1 : j \in DOMAIN t /\ j \in DOMAIN u /\ u[j] = t[j]
    BY <1>1, <1>2, <1>3, <1>4
  <1>6. \A j \in DOMAIN t : j \in 1 .. Len(t) - 1 \/ t[j] = Last(t)
    BY <1>1, <1>3
  <1>7. \A j \in DOMAIN u : j \in 1 .. Len(t) - 1 \/ \E m \in DOMAIN c : u[j] = c[m]
    BY <1>2, <1>3, <1>4
  <1>8. \A m \in DOMAIN c : \E j \in DOMAIN u : u[j] = c[m]
    <2> TAKE m \in DOMAIN c
    <2>1. Len(r) + m \in DOMAIN u /\ u[Len(r) + m] = c[m]
      BY <1>1, <1>2, <1>3, <1>4
    <2> QED BY <2>1
  <1> QED BY <1>2, <1>5, <1>6, <1>7, <1>8 DEF Replaced

\* What a step may put on the stack.
Pushes(c, pr) ==
    /\ IsSeq(c)
    /\ \A m \in DOMAIN c : FrameOK(c[m]) /\ TargetOK(c[m], pr) /\ c[m].op # "Locate"

\* Calls that may be put on the stack.
LEMMA PushNone ==
    ASSUME NEW pr
    PROVE  Pushes(<<>>, pr)
  BY EmptyTuple DEF Pushes

LEMMA PushOne ==
    ASSUME NEW pr, NEW f, FrameOK(f), TargetOK(f, pr), f.op # "Locate"
    PROVE  Pushes(<<f>>, pr)
  <1>1. \A m \in 1 .. 1 : m = 1
    OBVIOUS
  <1>2. PICK c : c = <<f>>
    OBVIOUS
  <1>3. IsSeq(c) /\ DOMAIN c = 1 .. 1 /\ c[1] = f
    BY <1>2, TupleOne
  <1> QED BY <1>1, <1>2, <1>3 DEF Pushes

LEMMA PushTwo ==
    ASSUME NEW pr, NEW f, FrameOK(f), TargetOK(f, pr), f.op # "Locate",
           NEW g, FrameOK(g), TargetOK(g, pr), g.op # "Locate"
    PROVE  Pushes(<<f, g>>, pr)
  <1>1. \A m \in 1 .. 2 : m = 1 \/ m = 2
    OBVIOUS
  <1>2. PICK c : c = <<f, g>>
    OBVIOUS
  <1>3. IsSeq(c) /\ DOMAIN c = 1 .. 2 /\ c[1] = f /\ c[2] = g
    BY <1>2, TupleTwo
  <1> QED BY <1>1, <1>2, <1>3 DEF Pushes

LEMMA PushThree ==
    ASSUME NEW pr, NEW f, FrameOK(f), TargetOK(f, pr), f.op # "Locate",
           NEW g, FrameOK(g), TargetOK(g, pr), g.op # "Locate",
           NEW h, FrameOK(h), TargetOK(h, pr), h.op # "Locate"
    PROVE  Pushes(<<f, g, h>>, pr)
  <1>1. \A m \in 1 .. 3 : m = 1 \/ m = 2 \/ m = 3
    OBVIOUS
  <1>2. PICK c : c = <<f, g, h>>
    OBVIOUS
  <1>3. IsSeq(c) /\ DOMAIN c = 1 .. 3 /\ c[1] = f /\ c[2] = g /\ c[3] = h
    BY <1>2, TupleThree
  <1> QED BY <1>1, <1>2, <1>3 DEF Pushes

\* The stack after the running function made calls, if its callers keep their targets.
LEMMA StackKept ==
    ASSUME NEW t, NEW pr, NEW rg, NEW u, NEW qr, NEW sg, NEW c,
           StackOK(t, pr, rg), t # <<>>, u = Front(t) \o c, Pushes(c, qr),
           \A j \in 1 .. Len(t) - 1 : Working(t[j]) => SameInterface(qr[t[j].prot], pr[t[j].prot]),
           \A e \in Event : rg[e] # NotRegistered => sg[e] # NotRegistered
    PROVE  StackOK(u, qr, sg)
  <1>1. IsSeq(t) /\ IsSeq(c)
    BY DEF StackOK, Pushes
  <1>2. /\ IsSeq(u)
        /\ \A j \in 1 .. Len(t) - 1 : j \in DOMAIN t /\ j \in DOMAIN u /\ u[j] = t[j]
        /\ \A j \in DOMAIN t : j \in 1 .. Len(t) - 1 \/ t[j] = Last(t)
        /\ \A j \in DOMAIN u : j \in 1 .. Len(t) - 1 \/ \E m \in DOMAIN c : u[j] = c[m]
        /\ \A m \in DOMAIN c : \E j \in DOMAIN u : u[j] = c[m]
    <2>1. Replaced(t, c, u)
      BY <1>1, GotoFacts, Zenon
    <2> QED BY <2>1 DEF Replaced
  <1>3. ASSUME NEW j \in DOMAIN u
        PROVE  FrameOK(u[j]) /\ TargetOK(u[j], qr) /\ LocateOK(u, j, sg)
    <2>1. CASE j \in 1 .. Len(t) - 1
      <3>1. u[j] = t[j] /\ FrameOK(t[j]) /\ TargetOK(t[j], pr) /\ LocateOK(t, j, rg)
        BY <2>1, <1>2 DEF StackOK
      <3>2. TargetOK(t[j], qr)
        BY <2>1, <3>1 DEF TargetOK, SameInterface
      <3>3. ASSUME u[j].op = "Locate" PROVE LocateOK(u, j, sg)
        <4>1. t[j].to \in Event /\ rg[t[j].to] # NotRegistered
          BY <3>1, <3>3 DEF FrameOK, LocateOK
        <4>2. PICK i \in 1 .. j - 1 : t[i].op = "Callback"
          BY <3>1, <3>3 DEF LocateOK
        <4>3. Len(t) \in Nat
          BY <1>1, IsSeqFacts
        <4>4. i \in 1 .. Len(t) - 1
          BY <2>1, <4>3
        <4>5. u[i] = t[i]
          BY <4>4, <1>2
        <4> QED BY <3>1, <4>1, <4>2, <4>5 DEF LocateOK
      <3>4. LocateOK(u, j, sg)
        BY <3>3 DEF LocateOK
      <3> QED BY <3>1, <3>2, <3>4
    <2>2. CASE \E m \in DOMAIN c : u[j] = c[m]
      BY <2>2 DEF Pushes, LocateOK
    <2> QED BY <2>1, <2>2, <1>2
  <1> QED BY <1>2, <1>3 DEF StackOK

-----------------------------------------------------------------------------
(* Looking interfaces up *)

\* FirstOn finds an interface of the handle if there is one.
LEMMA FirstOnFacts ==
    ASSUME Types, NEW h \in Handle, NEW K
    PROVE  \/ FirstOn(h, K) = None /\ \A x \in K : ~ In(x, onHandle[h])
           \/ FirstOn(h, K) \in K \cap Prot /\ In(FirstOn(h, K), onHandle[h])
  <1> DEFINE s == onHandle[h]
             good == {j \in DOMAIN s : s[j] \in K}
  <1>1. s \in Seq(Prot)
    BY DEF Types
  <1> HIDE DEF s
  <1>2. good \subseteq Nat
    BY <1>1
  <1>3. CASE good = {}
    <2>1. FirstOn(h, K) = None
      BY <1>3 DEF FirstOn, s
    <2>2. \A x \in K : ~ In(x, s)
      BY <1>3 DEF In
    <2> QED BY <2>1, <2>2 DEF s
  <1>4. CASE good # {}
    <2>1. PICK m : m = Min(good)
      OBVIOUS
    <2>2. m \in good
      BY <1>2, <1>4, <2>1, MinFacts
    <2>3. FirstOn(h, K) = s[m]
      BY <1>4, <2>1 DEF FirstOn, s
    <2>4. m \in DOMAIN s /\ s[m] \in K /\ s[m] \in Prot
      BY <2>2, <1>1
    <2>5. In(s[m], s)
      BY <2>4 DEF In
    <2> QED BY <2>3, <2>4, <2>5 DEF s
  <1> QED BY <1>3, <1>4

\* GetProtocolEntry.
LEMMA EntryFacts ==
    ASSUME Types, Lists, NEW h \in Handle, NEW p, NEW k, k = GetProtocolEntry(h, p)
    PROVE  \/ k = None /\ \A x \in Prot : ~ (prot[x].h = h /\ prot[x].p = p)
           \/ k \in Prot /\ prot[k].h = h /\ prot[k].p = p
  <1> DEFINE K == {x \in Prot : prot[x].p = p}
  <1>1. k = FirstOn(h, K)
    BY DEF GetProtocolEntry
  <1>2. \A x : x \in K <=> x \in Prot /\ prot[x].p = p
    OBVIOUS
  <1> HIDE DEF K
  <1>3. \/ k = None /\ \A x \in K : ~ In(x, onHandle[h])
        \/ k \in K \cap Prot /\ In(k, onHandle[h])
    BY <1>1, FirstOnFacts
  <1>4. \A x \in Prot : In(x, onHandle[h]) <=> prot[x].h = h
    BY DEF Lists
  <1> QED BY <1>2, <1>3, <1>4

\* FindProtocolInterface.
LEMMA FindFacts ==
    ASSUME Types, Lists, NEW h \in Handle, NEW p, NEW i, NEW k, k = FindProtocolInterface(h, p, i)
    PROVE  \/ k = None /\ \A x \in Prot : ~ (prot[x].h = h /\ prot[x].p = p /\ prot[x].i = i)
           \/ k \in Prot /\ prot[k].h = h /\ prot[k].p = p /\ prot[k].i = i
  <1> DEFINE K == {x \in Prot : prot[x].p = p /\ prot[x].i = i}
  <1>1. k = FirstOn(h, K)
    BY DEF FindProtocolInterface
  <1>2. \A x : x \in K <=> x \in Prot /\ prot[x].p = p /\ prot[x].i = i
    OBVIOUS
  <1> HIDE DEF K
  <1>3. \/ k = None /\ \A x \in K : ~ In(x, onHandle[h])
        \/ k \in K \cap Prot /\ In(k, onHandle[h])
    BY <1>1, FirstOnFacts
  <1>4. \A x \in Prot : In(x, onHandle[h]) <=> prot[x].h = h
    BY DEF Lists
  <1> QED BY <1>2, <1>3, <1>4

-----------------------------------------------------------------------------
(* Steps that neither install nor remove an interface *)

\* The running function.
LEMMA TopFacts ==
    ASSUME IInv, NEW op, Running(op)
    PROVE  /\ todo # <<>> /\ Last(todo).op = op
           /\ IsFrame(Last(todo)) /\ FrameOK(Last(todo)) /\ TargetOK(Last(todo), prot)
  <1>1. todo # <<>> /\ Last(todo).op = op
    BY DEF Running
  <1>2. IsSeq(todo)
    BY DEF IInv, StackOK
  <1>3. Len(todo) \in DOMAIN todo /\ Last(todo) = todo[Len(todo)]
    BY <1>1, <1>2, FrontFacts
  <1>4. FrameOK(Last(todo)) /\ TargetOK(Last(todo), prot)
    BY <1>3 DEF IInv, StackOK
  <1> QED BY <1>1, <1>4 DEF FrameOK

\* No interface comes, goes or changes.
NoneMoved == \A k \in Prot : SameInterface(prot'[k], prot[k])

\* A step that changes at most who has interfaces open keeps the invariant.
LEMMA PureStep ==
    ASSUME IInv, todo # <<>>, Last(todo).op \notin {"Locate", "Reinstalled"},
           NEW c, todo' = Front(todo) \o c, Pushes(c, prot'),
           UNCHANGED <<handles, onHandle, byProtocol, notes, interrupts>>,
           ProtTypes(prot'), Opened(prot'), NoneMoved,
           \A k \in Prot : prot[k] = Freed => prot'[k] = Freed
    PROVE  IInv'
  <1>0. /\ Types /\ Lists /\ StackOK(todo, prot, reg) /\ Registrants /\ SeenExactly /\ NotMissed
    BY DEF IInv
  <1>u. /\ handles' = handles /\ onHandle' = onHandle /\ byProtocol' = byProtocol
        /\ reg' = reg /\ signalled' = signalled /\ got' = got /\ interrupts' = interrupts
    BY DEF notes
  <1>1. Types'
    BY <1>0, <1>u DEF Types
  <1>2. Lists'
    BY <1>0, <1>u DEF Lists, NoneMoved, SameInterface
  <1>3. StackOK(todo', prot', reg')
    <2>1. ASSUME NEW j \in 1 .. Len(todo) - 1, Working(todo[j])
          PROVE  SameInterface(prot'[todo[j].prot], prot[todo[j].prot])
      <3>1. IsSeq(todo)
        BY <1>0 DEF StackOK
      <3>2. j \in DOMAIN todo
        BY <3>1, IsSeqFacts
      <3>3. todo[j].prot \in Prot
        BY <1>0, <2>1, <3>2 DEF StackOK, TargetOK
      <3> QED BY <3>3 DEF NoneMoved
    <2> HIDE DEF NoneMoved
    <2> QED BY <1>0, <1>u, <2>1, StackKept
  <1>4. Registrants' /\ SeenExactly'
    BY <1>0, <1>u DEF Registrants, SeenExactly
  <1>5. NotMissed'
    <2>1. Replaced(todo, c, todo')
      BY <1>0, GotoFacts DEF StackOK, Pushes
    <2>2. ASSUME NEW j \in DOMAIN todo, todo[j].op \in {"Locate", "Reinstalled"}
          PROVE  j \in DOMAIN todo' /\ todo'[j] = todo[j]
      BY <2>1, <2>2 DEF Replaced
    <2> QED BY <1>0, <1>u, <2>2 DEF NotMissed
  <1> QED BY <1>1, <1>2, <1>3, <1>4, <1>5 DEF IInv

\* ... and one that only makes calls.
LEMMA PureCall ==
    ASSUME IInv, todo # <<>>, Last(todo).op \notin {"Locate", "Reinstalled"},
           NEW c, todo' = Front(todo) \o c, Pushes(c, prot), UNCHANGED <<db, notes, interrupts>>
    PROVE  IInv' /\ NoneMoved
  <1>1. prot' = prot /\ UNCHANGED <<handles, onHandle, byProtocol, notes, interrupts>>
    BY DEF db
  <1>2. NoneMoved
    BY <1>1 DEF NoneMoved, SameInterface
  <1>3. ProtTypes(prot') /\ Opened(prot')
    BY <1>1 DEF IInv, Types
  <1>4. Pushes(c, prot')
    BY <1>1
  <1>5. \A k \in Prot : prot[k] = Freed => prot'[k] = Freed
    BY <1>1
  <1>6. IInv'
    BY <1>1, <1>2, <1>3, <1>4, <1>5, PureStep
  <1> QED BY <1>2, <1>6

\* A function that only returns.
LEMMA PureReturn ==
    ASSUME IInv, todo # <<>>, Last(todo).op \notin {"Locate", "Reinstalled"},
           Goto(<<>>), UNCHANGED <<db, notes, interrupts>>
    PROVE  IInv' /\ NoneMoved
  BY PushNone, PureCall DEF Goto

\* Sorted is a list of drivers.  A recursive function is defined on an initial segment
\* of the naturals, so that the argument is by the least n for which none exists.
LEMMA SortedFacts ==
    ASSUME NEW first \in Seq(Drivers)
    PROVE  Sorted(first) \in Seq(Drivers)
  <1> DEFINE Body(K, j) == IF j = 0 THEN first
                           ELSE IF Driver[j] \in Range(first) THEN K[j - 1]
                           ELSE Append(K[j - 1], Driver[j])
             Good(K, n) == K = [j \in 0 .. n |-> Body(K, j)]
             Bad == {n \in Nat : \A K : ~ Good(K, n)}
  <1>0. Driver \in Seq(Drivers) /\ Len(Driver) \in Nat /\ DOMAIN Driver = 1 .. Len(Driver)
    BY HandlesAssumption
  <1>1. Bad = {}
    <2> SUFFICES ASSUME Bad # {} PROVE FALSE
      OBVIOUS
    <2>1. PICK m \in Bad : \A y \in Bad : m <= y
      BY LeastNat
    <2>2. m # 0
      <3> SUFFICES ASSUME m = 0 PROVE FALSE
        OBVIOUS
      <3> DEFINE K == [j \in 0 .. 0 |-> first]
      <3>1. \A j \in 0 .. 0 : Body(K, j) = first
        OBVIOUS
      <3>2. Good(K, 0)
        BY <3>1
      <3> QED BY <3>2, <2>1
    <2>3. m - 1 \in Nat /\ m - 1 \notin Bad
      <3>1. Bad \in SUBSET Nat
        OBVIOUS
      <3> HIDE DEF Bad
      <3> QED BY <2>1, <2>2, <3>1
    <2>4. PICK J : Good(J, m - 1)
      BY <2>3
    <2> DEFINE K == [j \in 0 .. m |-> IF j = m THEN Body(J, m) ELSE J[j]]
    <2>5. \A j \in 0 .. m - 1 : J[j] = Body(J, j)
      BY <2>4, <2>3
    <2>6. \A j \in 0 .. m : K[j] = Body(K, j)
      <3> TAKE j \in 0 .. m
      <3>1. CASE j = m
        <4>1. K[m - 1] = J[m - 1]
          BY <2>3
        <4> QED BY <3>1, <4>1
      <3>2. CASE j # m /\ j # 0
        <4>0. j \in 0 .. m - 1 /\ j - 1 \in 0 .. m /\ j - 1 # m
          BY <3>2, <2>3
        <4>1. J[j] = Body(J, j)
          BY <4>0, <2>5
        <4>2. K[j - 1] = J[j - 1] /\ K[j] = J[j]
          BY <4>0, <3>2
        <4> QED BY <4>1, <4>2
      <3>3. CASE j = 0
        <4>0. j \in 0 .. m - 1 /\ j # m
          BY <3>3, <2>2, <2>3
        <4>1. J[j] = Body(J, j)
          BY <4>0, <2>5
        <4>2. K[j] = J[j]
          BY <4>0
        <4> QED BY <4>1, <4>2, <3>3
      <3> QED BY <3>1, <3>2, <3>3
    <2>7. Good(K, m)
      <3> HIDE DEF Body
      <3>1. K = [j \in 0 .. m |-> K[j]]
        OBVIOUS
      <3> HIDE DEF K
      <3> QED BY <2>6, <3>1
    <2> QED BY <2>7, <2>1
  <1>2. \E K : Good(K, Len(Driver))
    <2> HIDE DEF Good
    <2> QED BY <1>0, <1>1
  <1> DEFINE rec == CHOOSE K : Good(K, Len(Driver))
  <1>3. Good(rec, Len(Driver))
    BY <1>2
  <1>4. Sorted(first) = rec[Len(Driver)]
    BY DEF Sorted
  <1>5. \A j \in 0 .. Len(Driver) : rec[j] = Body(rec, j)
    BY <1>3, Zenon
  <1> DEFINE Wrong == {n \in 0 .. Len(Driver) : rec[n] \notin Seq(Drivers)}
  <1> HIDE DEF rec
  <1>6. Wrong = {}
    <2> SUFFICES ASSUME Wrong # {} PROVE FALSE
      OBVIOUS
    <2>0. Wrong \in SUBSET Nat
      OBVIOUS
    <2>1. PICK m \in Wrong : \A y \in Wrong : m <= y
      BY <2>0, LeastNat
    <2>2. m # 0
      <3>1. rec[0] = first
        BY <1>0, <1>5
      <3> QED BY <3>1, <2>1
    <2>3. m - 1 \in 0 .. Len(Driver) /\ m - 1 \notin Wrong /\ m \in 1 .. Len(Driver)
      BY <2>1, <2>2, <1>0
    <2>4. rec[m - 1] \in Seq(Drivers) /\ Driver[m] \in Drivers
      BY <2>3, <1>0
    <2>5. rec[m] = rec[m - 1] \/ rec[m] = Append(rec[m - 1], Driver[m])
      BY <1>5, <2>3, <2>2
    <2>6. rec[m] \in Seq(Drivers)
      <3>1. CASE rec[m] = rec[m - 1]
        BY <3>1, <2>4
      <3>2. CASE rec[m] = Append(rec[m - 1], Driver[m])
        <4>1. \A s \in Seq(Drivers), d \in Drivers : Append(s, d) \in Seq(Drivers)
          OBVIOUS
        <4> QED BY <3>2, <4>1, <2>4, Zenon
      <3> QED BY <3>1, <3>2, <2>5
    <2> QED BY <2>6, <2>1
  <1>7. Len(Driver) \in 0 .. Len(Driver)
    BY <1>0
  <1> QED BY <1>4, <1>6, <1>7

-----------------------------------------------------------------------------
(* What a step puts on the stack *)

Fits(f, pr) == FrameOK(f) /\ TargetOK(f, pr) /\ f.op # "Locate"

LEMMA IdlingFits ==
    ASSUME NEW f, FrameOK(f), Idling(f), NEW pr
    PROVE  Fits(f, pr)
  BY IdleTarget DEF Fits

LEMMA OthersFit ==
    ASSUME NEW f, FrameOK(f), f.op \notin {"Uninstall", "Reinstall", "Open", "Locate"}, NEW pr
    PROVE  Fits(f, pr)
  BY DEF Fits, TargetOK, Working

\* The top of the stack is a function that is not about to notify.
Pure == IInv /\ todo # <<>> /\ Last(todo).op \notin {"Locate", "Reinstalled"}

\* Steps that only replace the running function by one call, two, three or none.
LEMMA PureOne ==
    ASSUME Pure, NEW f, Fits(f, prot), Goto(<<f>>), UNCHANGED <<db, notes, interrupts>>
    PROVE  IInv' /\ NoneMoved
  BY PushOne, PureCall DEF Goto, Fits, Pure

LEMMA PureTwo ==
    ASSUME Pure, NEW f, Fits(f, prot), NEW g, Fits(g, prot), Goto(<<f, g>>),
           UNCHANGED <<db, notes, interrupts>>
    PROVE  IInv' /\ NoneMoved
  BY PushTwo, PureCall DEF Goto, Fits, Pure

LEMMA PureThree ==
    ASSUME Pure, NEW f, Fits(f, prot), NEW g, Fits(g, prot), NEW h, Fits(h, prot), Goto(<<f, g, h>>),
           UNCHANGED <<db, notes, interrupts>>
    PROVE  IInv' /\ NoneMoved
  BY PushThree, PureCall DEF Goto, Fits, Pure

LEMMA PureNone ==
    ASSUME Pure, Goto(<<>>), UNCHANGED <<db, notes, interrupts>>
    PROVE  IInv' /\ NoneMoved
  BY PureReturn DEF Pure

\* The running function is neither a notification function nor about to signal.
LEMMA RunningIsPure ==
    ASSUME IInv, NEW op, Running(op), op \notin {"Locate", "Reinstalled"}
    PROVE  /\ Pure /\ Last(todo).op = op /\ IsFrame(Last(todo)) /\ FrameOK(Last(todo))
           /\ TargetOK(Last(todo), prot)
  BY TopFacts DEF Pure

-----------------------------------------------------------------------------
(* Installing and uninstalling lists of interfaces *)

\* InstallProtocolInterface, before it has the lock.
LEMMA InstallStep ==
    ASSUME IInv, Install
    PROVE  IInv' /\ NoneMoved
  <1>1. PICK f : f = Last(todo)
    OBVIOUS
  <1>2. /\ Pure /\ f.op = "Install" /\ IsFrame(f) /\ FrameOK(f)
    BY <1>1, RunningIsPure DEF Install
  <1>u. UNCHANGED <<db, notes, interrupts>>
    BY DEF Install
  <1>3. CASE f.h \in handles /\ GetProtocolEntry(f.h, f.p) # None
    <2>1. Goto(<<>>)
      BY <1>1, <1>3 DEF Install, Return
    <2> QED BY <1>2, <1>u, <2>1, PureNone
  <1>4. CASE ~(f.h \in handles /\ GetProtocolEntry(f.h, f.p) # None)
    <2>1. PICK g : g = [f EXCEPT !.op = "InstallLocked"]
      OBVIOUS
    <2>2. Goto(<<g>>)
      BY <1>1, <1>4, <2>1 DEF Install, Enter
    <2>3. IsFrame(g) /\ g.op = "InstallLocked" /\ g.p = f.p /\ g.i = f.i
      BY <1>2, <2>1 DEF IsFrame
    <2>4. f.p \in Protocol /\ f.i \in Interface
      BY <1>2 DEF FrameOK, Installing
    <2>5. FrameOK(g)
      BY <2>3, <2>4 DEF FrameOK, Installing, Listing, DriverOp
    <2>6. Fits(g, prot)
      BY <2>3, <2>5, OthersFit
    <2> QED BY <1>2, <1>u, <2>2, <2>6, PureOne
  <1> QED BY <1>3, <1>4

\* An item of the list of InstallMultiple or UninstallMultiple.
LEMMA ListItem ==
    ASSUME NEW list \in Seq(Protocol \X Interface), NEW n \in 0 .. Len(list), n < Len(list),
           NEW x, x = list[n + 1]
    PROVE  n + 1 \in 0 .. Len(list) /\ x[1] \in Protocol /\ x[2] \in Interface
  <1>1. n + 1 \in 1 .. Len(list)
    OBVIOUS
  <1>2. x \in Protocol \X Interface
    BY <1>1
  <1> QED BY <1>1, <1>2

\* One more of a list of interfaces.
LEMMA NextItem ==
    ASSUME NEW f, FrameOK(f), f.op \in Listing, f.n < Len(f.list), NEW h,
           NEW g, g = [f EXCEPT !.h = h, !.n = @ + 1] \/ g = [f EXCEPT !.n = @ + 1],
           NEW x, x = f.list[f.n + 1]
    PROVE  Fits(g, prot) /\ x[1] \in Protocol /\ x[2] \in Interface
  <1>1. IsFrame(f) /\ f.list \in Seq(Protocol \X Interface) /\ f.n \in 0 .. Len(f.list)
    BY DEF FrameOK
  <1>2. IsFrame(g) /\ g.op = f.op /\ g.list = f.list /\ g.n = f.n + 1
    BY <1>1 DEF IsFrame
  <1>3. f.n + 1 \in 0 .. Len(f.list) /\ x[1] \in Protocol /\ x[2] \in Interface
    BY <1>1, ListItem
  <1>4. FrameOK(g)
    BY <1>1, <1>2, <1>3 DEF FrameOK, Installing, Listing, DriverOp
  <1>5. Fits(g, prot)
    BY <1>2, <1>4, OthersFit DEF Listing
  <1> QED BY <1>3, <1>5

\* A list that is undone as far as it was done.
LEMMA UndoItems ==
    ASSUME NEW f, FrameOK(f), f.op \in Listing, f.n > 0, NEW op \in {"UndoInstalls", "UndoUninstalls"},
           NEW st, NEW g, g = [f EXCEPT !.op = op, !.n = 0, !.to = st, !.list = SubSeq(@, 1, f.n - 1)]
    PROVE  Fits(g, prot)
  <1>1. IsFrame(f) /\ f.list \in Seq(Protocol \X Interface) /\ f.n \in 0 .. Len(f.list)
    BY DEF FrameOK
  <1>2. PICK l : l = SubSeq(f.list, 1, f.n - 1)
    OBVIOUS
  <1>3. g = [f EXCEPT !.op = op, !.n = 0, !.to = st, !.list = l]
    BY <1>1, <1>2 DEF IsFrame
  <1>4. IsFrame(g) /\ g.op = op /\ g.list = l /\ g.n = 0
    BY <1>1, <1>3 DEF IsFrame
  <1>5. l \in Seq(Protocol \X Interface)
    <2>1. f.n - 1 \in 0 .. Len(f.list)
      BY <1>1
    <2> QED BY <1>1, <1>2, <2>1, CutFacts
  <1>6. 0 \in 0 .. Len(l)
    BY <1>5
  <1>7. FrameOK(g)
    BY <1>4, <1>5, <1>6 DEF FrameOK, Installing, Listing, DriverOp
  <1> QED BY <1>4, <1>7, OthersFit

\* The functions that work on lists of interfaces.
LEMMA InstallMultipleStep ==
    ASSUME IInv, InstallMultiple
    PROVE  IInv' /\ NoneMoved
  <1>1. PICK f : f = Last(todo)
    OBVIOUS
  <1>2. /\ Pure /\ f.op = "InstallMultiple" /\ FrameOK(f)
    BY <1>1, RunningIsPure DEF InstallMultiple
  <1>l. f.op \in Listing
    BY <1>2 DEF Listing
  <1>u. UNCHANGED <<db, notes, interrupts>>
    BY DEF InstallMultiple
  <1>3. PICK h : h = IF f.n > 0 /\ ~Err THEN ret.h ELSE f.h
    OBVIOUS
  <1>4. \/ /\ f.n > 0
           /\ Goto(<<[f EXCEPT !.op = "UndoInstalls", !.n = 0, !.to = ret.status,
                               !.list = SubSeq(@, 1, f.n - 1)]>>)
        \/ /\ f.n < Len(f.list)
           /\ Goto(<<[f EXCEPT !.h = h, !.n = @ + 1], DoInstall(h, f.list[f.n + 1][1], f.list[f.n + 1][2])>>)
        \/ Goto(<<>>)
    BY <1>1, <1>3 DEF InstallMultiple, Enter
  <1>5. ASSUME f.n > 0, NEW g, Goto(<<g>>),
               g = [f EXCEPT !.op = "UndoInstalls", !.n = 0, !.to = ret.status,
                             !.list = SubSeq(@, 1, f.n - 1)]
        PROVE  IInv' /\ NoneMoved
    <2>1. Fits(g, prot)
      BY <1>2, <1>l, <1>5, UndoItems
    <2> QED BY <1>2, <1>5, <1>u, <2>1, PureOne
  <1>6. ASSUME f.n < Len(f.list), NEW g, g = [f EXCEPT !.h = h, !.n = @ + 1],
               Goto(<<g, DoInstall(h, f.list[f.n + 1][1], f.list[f.n + 1][2])>>)
        PROVE  IInv' /\ NoneMoved
    <2>1. PICK x : x = f.list[f.n + 1]
      OBVIOUS
    <2>2. Fits(g, prot) /\ x[1] \in Protocol /\ x[2] \in Interface
      BY <1>2, <1>l, <1>6, <2>1, NextItem
    <2>3. PICK c : c = DoInstall(h, x[1], x[2])
      OBVIOUS
    <2>4. Fits(c, prot)
      BY <2>2, <2>3, InstallFrame, IdlingFits
    <2>5. Goto(<<g, c>>)
      BY <1>6, <2>1, <2>3
    <2> QED BY <1>2, <1>u, <2>2, <2>4, <2>5, PureTwo
  <1>7. CASE Goto(<<>>)
    BY <1>2, <1>7, <1>u, PureNone
  <1> QED BY <1>4, <1>5, <1>6, <1>7, Zenon

LEMMA UndoInstallsStep ==
    ASSUME IInv, UndoInstalls
    PROVE  IInv' /\ NoneMoved
  <1>1. PICK f : f = Last(todo)
    OBVIOUS
  <1>2. /\ Pure /\ f.op = "UndoInstalls" /\ IsFrame(f) /\ FrameOK(f)
    BY <1>1, RunningIsPure DEF UndoInstalls
  <1>u. UNCHANGED <<db, notes, interrupts>>
    BY DEF UndoInstalls
  <1>3. CASE ToUndo(f)
    <2>1. PICK g : g = [f EXCEPT !.n = @ + 1]
      OBVIOUS
    <2>2. PICK c : c = DoUninstall(f.h, f.list[f.n + 1][1], f.list[f.n + 1][2])
      OBVIOUS
    <2>3. Goto(<<g, c>>)
      BY <1>1, <1>3, <2>1, <2>2 DEF UndoInstalls, Enter
    <2>4. IsFrame(g) /\ g.op = "UndoInstalls"
      BY <1>2, <2>1 DEF IsFrame
    <2>5. FrameOK(g)
      BY <2>4 DEF FrameOK, Installing, Listing, DriverOp
    <2>6. Fits(g, prot)
      BY <2>4, <2>5, OthersFit
    <2>7. Fits(c, prot)
      BY <2>2, UninstallFrame, IdlingFits
    <2> QED BY <1>2, <1>u, <2>3, <2>6, <2>7, PureTwo
  <1>4. CASE ~ToUndo(f)
    <2>1. Goto(<<>>)
      BY <1>1, <1>4 DEF UndoInstalls, Return
    <2> QED BY <1>2, <1>u, <2>1, PureNone
  <1> QED BY <1>3, <1>4

LEMMA UninstallMultipleStep ==
    ASSUME IInv, UninstallMultiple
    PROVE  IInv' /\ NoneMoved
  <1>1. PICK f : f = Last(todo)
    OBVIOUS
  <1>2. /\ Pure /\ f.op = "UninstallMultiple" /\ FrameOK(f)
    BY <1>1, RunningIsPure DEF UninstallMultiple
  <1>l. f.op \in Listing
    BY <1>2 DEF Listing
  <1>u. UNCHANGED <<db, notes, interrupts>>
    BY DEF UninstallMultiple
  <1>4. \/ /\ f.n > 0
           /\ Goto(<<[f EXCEPT !.op = "UndoUninstalls", !.n = 0, !.to = ret.status,
                               !.list = SubSeq(@, 1, f.n - 1)]>>)
        \/ /\ f.n < Len(f.list)
           /\ Goto(<<[f EXCEPT !.n = @ + 1], DoUninstall(f.h, f.list[f.n + 1][1], f.list[f.n + 1][2])>>)
        \/ Goto(<<>>)
    BY <1>1 DEF UninstallMultiple, Enter, Return
  <1>5. ASSUME f.n > 0, NEW g, Goto(<<g>>),
               g = [f EXCEPT !.op = "UndoUninstalls", !.n = 0, !.to = ret.status,
                             !.list = SubSeq(@, 1, f.n - 1)]
        PROVE  IInv' /\ NoneMoved
    <2>1. Fits(g, prot)
      BY <1>2, <1>l, <1>5, UndoItems
    <2> QED BY <1>2, <1>5, <1>u, <2>1, PureOne
  <1>6. ASSUME f.n < Len(f.list), NEW g, g = [f EXCEPT !.n = @ + 1],
               Goto(<<g, DoUninstall(f.h, f.list[f.n + 1][1], f.list[f.n + 1][2])>>)
        PROVE  IInv' /\ NoneMoved
    <2>1. PICK x : x = f.list[f.n + 1]
      OBVIOUS
    <2>2. Fits(g, prot)
      BY <1>2, <1>l, <1>6, <2>1, NextItem
    <2>3. PICK c : c = DoUninstall(f.h, x[1], x[2])
      OBVIOUS
    <2>4. Fits(c, prot)
      BY <2>3, UninstallFrame, IdlingFits
    <2>5. Goto(<<g, c>>)
      BY <1>6, <2>1, <2>3
    <2> QED BY <1>2, <1>u, <2>2, <2>4, <2>5, PureTwo
  <1>7. CASE Goto(<<>>)
    BY <1>2, <1>7, <1>u, PureNone
  <1> QED BY <1>4, <1>5, <1>6, <1>7, Zenon

LEMMA UndoUninstallsStep ==
    ASSUME IInv, UndoUninstalls
    PROVE  IInv' /\ NoneMoved
  <1>1. PICK f : f = Last(todo)
    OBVIOUS
  <1>2. /\ Pure /\ f.op = "UndoUninstalls" /\ FrameOK(f)
    BY <1>1, RunningIsPure DEF UndoUninstalls
  <1>l. f.op \in Listing
    BY <1>2 DEF Listing
  <1>u. UNCHANGED <<db, notes, interrupts>>
    BY DEF UndoUninstalls
  <1>3. CASE ToUndo(f)
    <2>1. PICK g : g = [f EXCEPT !.n = @ + 1]
      OBVIOUS
    <2>x. PICK x : x = f.list[f.n + 1]
      OBVIOUS
    <2>2. PICK c : c = DoInstall(f.h, x[1], x[2])
      OBVIOUS
    <2>3. Goto(<<g, c>>)
      BY <1>1, <1>3, <2>1, <2>2, <2>x DEF UndoUninstalls, Enter
    <2>4. Fits(g, prot) /\ x[1] \in Protocol /\ x[2] \in Interface
      BY <1>2, <1>l, <1>3, <2>1, <2>x, NextItem DEF ToUndo
    <2>7. Fits(c, prot)
      BY <2>2, <2>4, InstallFrame, IdlingFits
    <2> QED BY <1>2, <1>u, <2>3, <2>4, <2>7, PureTwo
  <1>4. CASE ~ToUndo(f)
    <2>1. Goto(<<>>)
      BY <1>1, <1>4 DEF UndoUninstalls, Return
    <2> QED BY <1>2, <1>u, <2>1, PureNone
  <1> QED BY <1>3, <1>4

LEMMA DenyStep ==
    ASSUME IInv, Deny
    PROVE  IInv' /\ NoneMoved
  <1>1. Pure /\ Goto(<<>>) /\ UNCHANGED <<db, notes, interrupts>>
    BY RunningIsPure DEF Deny, Return
  <1> QED BY <1>1, PureNone

LEMMA CallbackReturnsStep ==
    ASSUME IInv, CallbackReturns
    PROVE  IInv' /\ NoneMoved
  <1>1. Pure /\ Goto(<<>>) /\ UNCHANGED <<db, notes, interrupts>>
    BY RunningIsPure DEF CallbackReturns
  <1> QED BY <1>1, PureNone

-----------------------------------------------------------------------------
(* Connecting and disconnecting *)

\* Connecting and disconnecting.
LEMMA ConnectControllerStep ==
    ASSUME IInv, ConnectController
    PROVE  IInv' /\ NoneMoved
  <1>1. PICK f : f = Last(todo)
    OBVIOUS
  <1>2. /\ Pure /\ f.op = "Connect" /\ IsFrame(f) /\ FrameOK(f)
    BY <1>1, RunningIsPure DEF ConnectController
  <1>u. UNCHANGED <<db, notes, interrupts>>
    BY DEF ConnectController
  <1>3. CASE Valid(f.h)
    <2>0. PICK l : l = Sorted(f.list)
      OBVIOUS
    <2>1. PICK g : g = [f EXCEPT !.op = "StartDrivers", !.list = l]
      OBVIOUS
    <2>2. Goto(<<g>>)
      BY <1>1, <1>3, <2>0, <2>1 DEF ConnectController, Enter
    <2>3. IsFrame(g) /\ g.op = "StartDrivers" /\ g.list = l
      BY <1>2, <2>1 DEF IsFrame
    <2>4. l \in Seq(Drivers)
      <3>1. f.list \in Seq(Drivers)
        BY <1>2 DEF FrameOK
      <3> QED BY <2>0, <3>1, SortedFacts
    <2>5. FrameOK(g)
      BY <2>3, <2>4 DEF FrameOK, Installing, Listing, DriverOp
    <2>6. Fits(g, prot)
      BY <2>3, <2>5, OthersFit
    <2> QED BY <1>2, <1>u, <2>2, <2>6, PureOne
  <1>4. CASE ~Valid(f.h)
    <2>1. Goto(<<>>)
      BY <1>1, <1>4 DEF ConnectController, Return
    <2> QED BY <1>2, <1>u, <2>1, PureNone
  <1> QED BY <1>3, <1>4

LEMMA ConnectSingleControllerStep ==
    ASSUME IInv, ConnectSingleController
    PROVE  IInv' /\ NoneMoved
  <1>1. PICK f : f = Last(todo)
    OBVIOUS
  <1>2. /\ Pure /\ f.op = "StartDrivers" /\ IsFrame(f) /\ FrameOK(f)
    BY <1>1, RunningIsPure DEF ConnectSingleController
  <1>l. f.list \in Seq(Drivers)
    BY <1>2 DEF FrameOK
  <1>u. UNCHANGED <<db, notes, interrupts>>
    BY DEF ConnectSingleController
  <1> DEFINE able == {j \in DOMAIN f.list : Supported(f.list[j], f.h)}
  <1>n. PICK n : n = IF f.agent # None /\ ~Err THEN 1 ELSE f.n
    OBVIOUS
  <1>3. CASE able = {}
    <2>0. PICK S : S = ChildrenOf(Opens(f.h))
      OBVIOUS
    <2>1. PICK g : g = [f EXCEPT !.op = "ConnectChildren", !.n = n, !.list = <<>>, !.agent = None,
                                 !.set = S]
      OBVIOUS
    <2>2. Goto(<<g>>)
      BY <1>1, <1>n, <1>3, <2>0, <2>1 DEF ConnectSingleController, Enter
    <2>3. IsFrame(g) /\ g.op = "ConnectChildren"
      BY <1>2, <2>1 DEF IsFrame
    <2>5. FrameOK(g)
      BY <2>3 DEF FrameOK, Installing, Listing, DriverOp
    <2>6. Fits(g, prot)
      BY <2>3, <2>5, OthersFit
    <2> QED BY <1>2, <1>u, <2>2, <2>6, PureOne
  <1>4. CASE able # {}
    <2>0. PICK j : j = Min(able)
      OBVIOUS
    <2>1. able \in SUBSET Nat
      BY <1>l
    <2>2. j \in DOMAIN f.list
      <3>1. j \in able
        BY <1>4, <2>0, <2>1, MinFacts
      <3> QED BY <3>1
    <2>3. PICK l : l = RemoveAt(f.list, j)
      OBVIOUS
    <2>4. l \in Seq(Drivers) /\ f.list[j] \in Drivers
      BY <1>l, <2>2, <2>3, RemoveAtFacts
    <2>5. PICK g : g = [f EXCEPT !.n = n, !.agent = f.list[j], !.list = l]
      OBVIOUS
    <2>6. PICK c : c = DoStart(f.list[j], f.h)
      OBVIOUS
    <2>7. IsFrame(g) /\ g.op = "StartDrivers" /\ g.list = l
      BY <1>2, <2>5 DEF IsFrame
    <2>8. g = [f EXCEPT !.n = n, !.agent = f.list[j], !.list = RemoveAt(@, j)]
      BY <1>2, <2>3, <2>5 DEF IsFrame
    <2>9. Goto(<<g, c>>)
      BY <1>1, <1>n, <1>4, <2>0, <2>8, <2>6 DEF ConnectSingleController, Enter
    <2>10. FrameOK(g)
      BY <2>4, <2>7 DEF FrameOK, Installing, Listing, DriverOp
    <2>11. Fits(g, prot)
      BY <2>7, <2>10, OthersFit
    <2>12. Fits(c, prot)
      BY <2>4, <2>6, StartFrame, IdlingFits
    <2> QED BY <1>2, <1>u, <2>9, <2>11, <2>12, PureTwo
  <1> QED BY <1>3, <1>4

LEMMA ConnectChildrenStep ==
    ASSUME IInv, ConnectChildren
    PROVE  IInv' /\ NoneMoved
  <1>1. PICK f : f = Last(todo)
    OBVIOUS
  <1>2. /\ Pure /\ f.op = "ConnectChildren" /\ IsFrame(f) /\ FrameOK(f)
    BY <1>1, RunningIsPure DEF ConnectChildren
  <1>u. UNCHANGED <<db, notes, interrupts>>
    BY DEF ConnectChildren
  <1>3. CASE Goto(<<>>)
    BY <1>2, <1>3, <1>u, PureNone
  <1>4. CASE ~Goto(<<>>)
    <2>1. PICK c \in f.set : Goto(<<[f EXCEPT !.set = @ \ {c}], DoConnect(c)>>)
      BY <1>1, <1>4 DEF ConnectChildren, Return, Enter
    <2>2. PICK g : g = [f EXCEPT !.set = @ \ {c}]
      OBVIOUS
    <2>3. PICK d : d = DoConnect(c)
      OBVIOUS
    <2>4. Goto(<<g, d>>)
      BY <2>1, <2>2, <2>3
    <2>5. IsFrame(g) /\ g.op = "ConnectChildren"
      BY <1>2, <2>2 DEF IsFrame
    <2>6. FrameOK(g)
      BY <2>5 DEF FrameOK, Installing, Listing, DriverOp
    <2>7. Fits(g, prot)
      BY <2>5, <2>6, OthersFit
    <2>8. Fits(d, prot)
      BY <2>3, ConnectAllFrame, IdlingFits
    <2> QED BY <1>2, <1>u, <2>4, <2>7, <2>8, PureTwo
  <1> QED BY <1>3, <1>4

LEMMA DisconnectControllerStep ==
    ASSUME IInv, DisconnectController
    PROVE  IInv' /\ NoneMoved
  <1>1. PICK f : f = Last(todo)
    OBVIOUS
  <1>2. /\ Pure /\ f.op = "Disconnect" /\ IsFrame(f) /\ FrameOK(f)
    BY <1>1, RunningIsPure DEF DisconnectController
  <1>u. UNCHANGED <<db, notes, interrupts>>
    BY DEF DisconnectController
  <1>3. CASE Goto(<<>>)
    BY <1>2, <1>3, <1>u, PureNone
  <1>4. CASE ~Goto(<<>>)
    <2>0. PICK S : S = IF f.agent = None THEN {o.agent : o \in DriverOpens(Opens(f.h))} ELSE {f.agent}
      OBVIOUS
    <2>1. PICK g : g = [f EXCEPT !.op = "StopDrivers", !.agent = None, !.set = S]
      OBVIOUS
    <2>2. Goto(<<g>>)
      BY <1>1, <1>4, <2>0, <2>1 DEF DisconnectController, Return, Enter
    <2>3. IsFrame(g) /\ g.op = "StopDrivers"
      BY <1>2, <2>1 DEF IsFrame
    <2>4. FrameOK(g)
      BY <2>3 DEF FrameOK, Installing, Listing, DriverOp
    <2>5. Fits(g, prot)
      BY <2>3, <2>4, OthersFit
    <2> QED BY <1>2, <1>u, <2>2, <2>5, PureOne
  <1> QED BY <1>3, <1>4

LEMMA StopDriversStep ==
    ASSUME IInv, StopDrivers
    PROVE  IInv' /\ NoneMoved
  <1>1. PICK f : f = Last(todo)
    OBVIOUS
  <1>2. /\ Pure /\ f.op = "StopDrivers" /\ IsFrame(f) /\ FrameOK(f)
    BY <1>1, RunningIsPure DEF StopDrivers
  <1>u. UNCHANGED <<db, notes, interrupts>>
    BY DEF StopDrivers
  <1>n. PICK n : n = IF f.agent # None /\ ~Err THEN 1 ELSE f.n
    OBVIOUS
  <1>3. CASE Goto(<<>>)
    BY <1>2, <1>3, <1>u, PureNone
  <1>4. CASE ~Goto(<<>>)
    <2>1. PICK d \in f.set \cap Drivers :
                LET mine == {o \in Opens(f.h) : o.agent = d}
                    children == ChildrenOf(mine)
                    next == [f EXCEPT !.n = n, !.set = @ \ {d}, !.agent = d]
                    last == [Call("StopLast") EXCEPT !.agent = d, !.h = f.h]
                IN  IF DriverOpens(mine) = {} \/ (f.ctrl # None /\ f.ctrl \notin children)
                    THEN Goto(<<[next EXCEPT !.agent = None]>>)
                    ELSE IF f.ctrl # None THEN Goto(<<next, DoStop(d, f.h, {f.ctrl})>>)
                    ELSE IF children # {} THEN Goto(<<next, last, DoStop(d, f.h, children)>>)
                    ELSE Goto(<<next, DoStop(d, f.h, {})>>)
      BY <1>1, <1>n, <1>4 DEF StopDrivers, Return, Enter
    <2>2. PICK S : S = ChildrenOf({o \in Opens(f.h) : o.agent = d})
      OBVIOUS
    <2>3. PICK g : g = [f EXCEPT !.n = n, !.set = @ \ {d}, !.agent = d]
      OBVIOUS
    <2>4. PICK g2 : g2 = [g EXCEPT !.agent = None]
      OBVIOUS
    <2>5. PICK l : l = [Call("StopLast") EXCEPT !.agent = d, !.h = f.h]
      OBVIOUS
    <2>6. \/ Goto(<<g2>>) \/ \E T : Goto(<<g, DoStop(d, f.h, T)>>)
          \/ Goto(<<g, l, DoStop(d, f.h, S)>>)
      BY <2>1, <2>2, <2>3, <2>4, <2>5
    <2>7. IsFrame(g) /\ g.op = "StopDrivers"
      BY <1>2, <2>3 DEF IsFrame
    <2>8. IsFrame(g2) /\ g2.op = "StopDrivers"
      BY <2>4, <2>7 DEF IsFrame
    <2>9. FrameOK(g) /\ FrameOK(g2)
      BY <2>7, <2>8 DEF FrameOK, Installing, Listing, DriverOp
    <2>10. Fits(g, prot) /\ Fits(g2, prot)
      BY <2>7, <2>8, <2>9, OthersFit
    <2>11. d \in Drivers
      BY <2>1
    <2>12. Fits(l, prot)
      BY <2>5, <2>11, StopLastFrame, IdlingFits
    <2>13. \A T : Fits(DoStop(d, f.h, T), prot)
      BY <2>11, StopFrame, IdlingFits
    <2>14. CASE Goto(<<g2>>)
      BY <1>2, <1>u, <2>10, <2>14, PureOne
    <2>15. ASSUME NEW T, Goto(<<g, DoStop(d, f.h, T)>>) PROVE IInv' /\ NoneMoved
      <3>1. PICK c : c = DoStop(d, f.h, T)
        OBVIOUS
      <3>2. Fits(c, prot) /\ Goto(<<g, c>>)
        BY <2>13, <2>15, <3>1
      <3> QED BY <1>2, <1>u, <2>10, <3>2, PureTwo
    <2>16. CASE Goto(<<g, l, DoStop(d, f.h, S)>>)
      <3>1. PICK c : c = DoStop(d, f.h, S)
        OBVIOUS
      <3>2. Fits(c, prot) /\ Goto(<<g, l, c>>)
        BY <2>13, <2>16, <3>1
      <3> QED BY <1>2, <1>u, <2>10, <2>12, <3>2, PureThree
    <2> QED BY <2>6, <2>14, <2>15, <2>16
  <1> QED BY <1>3, <1>4

LEMMA StopLastStep ==
    ASSUME IInv, StopLast
    PROVE  IInv' /\ NoneMoved
  <1>1. PICK f : f = Last(todo)
    OBVIOUS
  <1>2. /\ Pure /\ f.op = "StopLast" /\ FrameOK(f)
    BY <1>1, RunningIsPure DEF StopLast
  <1>u. UNCHANGED <<db, notes, interrupts>>
    BY DEF StopLast
  <1>3. CASE Err
    <2>1. Goto(<<>>)
      BY <1>3 DEF StopLast, Enter
    <2> QED BY <1>2, <1>u, <2>1, PureNone
  <1>4. CASE ~Err
    <2>1. PICK c : c = DoStop(f.agent, f.h, {})
      OBVIOUS
    <2>2. Goto(<<c>>)
      BY <1>1, <1>4, <2>1 DEF StopLast, Enter
    <2>3. f.agent \in Drivers
      BY <1>2 DEF FrameOK, DriverOp
    <2>4. Fits(c, prot)
      BY <2>1, <2>3, StopFrame, IdlingFits
    <2> QED BY <1>2, <1>u, <2>2, <2>4, PureOne
  <1> QED BY <1>3, <1>4

-----------------------------------------------------------------------------
(* The drivers *)

LEMMA DriverFrame ==
    ASSUME NEW f, FrameOK(f), f.op \in DriverOp, NEW op \in DriverOp \cup {"Fail", "Succeed"},
           NEW g, \/ g = At(f, op)
                  \/ \E c : g = [f EXCEPT !.set = @ \ {c}, !.ctrl = c, !.op = op]
                  \/ g = [At(f, op) EXCEPT !.n = 1]
    PROVE  Fits(g, prot)
  <1>1. IsFrame(f) /\ f.agent \in Drivers
    BY DEF FrameOK
  <1>2. IsFrame(g) /\ g.op = op /\ g.agent = f.agent
    <2>1. CASE g = At(f, op)
      BY <1>1, <2>1 DEF At, IsFrame
    <2>2. ASSUME NEW c, g = [f EXCEPT !.set = @ \ {c}, !.ctrl = c, !.op = op]
          PROVE  IsFrame(g) /\ g.op = op /\ g.agent = f.agent
      BY <1>1, <2>2 DEF IsFrame
    <2>3. CASE g = [At(f, op) EXCEPT !.n = 1]
      <3>1. PICK a : a = At(f, op)
        OBVIOUS
      <3>2. IsFrame(a) /\ a.op = op /\ a.agent = f.agent
        BY <1>1, <3>1 DEF At, IsFrame
      <3>3. g = [a EXCEPT !.n = 1]
        BY <2>3, <3>1
      <3> QED BY <3>2, <3>3 DEF IsFrame
    <2> QED BY <2>1, <2>2, <2>3
  <1>3. FrameOK(g)
    BY <1>1, <1>2 DEF FrameOK, Installing, Listing, DriverOp
  <1> QED BY <1>2, <1>3, OthersFit DEF DriverOp

LEMMA TagFacts == Tag \in Interface
  BY HandlesAssumption DEF Tag

LEMMA DrivingFacts ==
    ASSUME IInv, NEW op \in DriverOp \cup {"Fail", "Succeed"}, Driving(op), NEW f, f = Last(todo)
    PROVE  /\ Pure /\ f.op = op /\ FrameOK(f) /\ UNCHANGED <<db, notes, interrupts>>
           /\ op \in DriverOp => f.op \in DriverOp /\ f.agent \in Drivers /\ f.agent \in Agent
  <1>1. Running(op) /\ UNCHANGED <<db, notes, interrupts>>
    BY DEF Driving
  <1>2. Pure /\ f.op = op /\ FrameOK(f)
    BY <1>1, RunningIsPure DEF DriverOp
  <1>3. op \in DriverOp => f.agent \in Drivers
    BY <1>2 DEF FrameOK
  <1> QED BY <1>1, <1>2, <1>3, DriversAreAgents

\* A driver calls a service and goes on at op.
LEMMA DriverCalls ==
    ASSUME Pure, NEW f, FrameOK(f), f.op \in DriverOp, UNCHANGED <<db, notes, interrupts>>,
           NEW op \in DriverOp \cup {"Fail", "Succeed"},
           NEW g, \/ g = At(f, op)
                  \/ \E c : g = [f EXCEPT !.set = @ \ {c}, !.ctrl = c, !.op = op]
                  \/ g = [At(f, op) EXCEPT !.n = 1],
           NEW d, FrameOK(d), Idling(d), Goto(<<g, d>>)
    PROVE  IInv' /\ NoneMoved
  <1>1. Fits(g, prot)
    BY DriverFrame
  <1>2. Fits(d, prot)
    BY IdlingFits
  <1> QED BY <1>1, <1>2, PureTwo

\* The drivers.
LEMMA StartStep ==
    ASSUME IInv, Start
    PROVE  IInv' /\ NoneMoved
  <1>1. PICK f : f = Last(todo)
    OBVIOUS
  <1>2. BY_DRIVER \in Attribute /\ BY_CHILD \in Attribute
    BY DEF Attribute
  <1>3. ASSUME Driving("Start"),
               Goto(<<At(f, "StartOpened"), DoOpen(f.h, Binds[f.agent], f.agent, f.h, BY_DRIVER)>>)
        PROVE  IInv' /\ NoneMoved
    <2>1. "Start" \in DriverOp /\ "StartOpened" \in DriverOp
      BY DEF DriverOp
    <2>2. /\ Pure /\ FrameOK(f) /\ UNCHANGED <<db, notes, interrupts>>
          /\ f.op \in DriverOp /\ f.agent \in Agent
      BY <1>1, <1>3, <2>1, DrivingFacts
    <2>3. PICK d : d = DoOpen(f.h, Binds[f.agent], f.agent, f.h, BY_DRIVER)
      OBVIOUS
    <2>4. FrameOK(d) /\ Idling(d)
      BY <1>2, <2>2, <2>3, OpenFrame
    <2>5. PICK g : g = At(f, "StartOpened")
      OBVIOUS
    <2>6. Goto(<<g, d>>)
      BY <1>3, <2>3, <2>5
    <2> QED BY <2>1, <2>2, <2>4, <2>5, <2>6, DriverCalls
  <1>4. ASSUME Driving("StartOpened"),
               Goto(IF Err \/ Makes[f.agent] = None THEN <<>>
                    ELSE <<At(f, "StartChild"), DoInstall(New, Makes[f.agent], Tag)>>)
        PROVE  IInv' /\ NoneMoved
    <2>1. "StartOpened" \in DriverOp /\ "StartChild" \in DriverOp
      BY DEF DriverOp
    <2>2. /\ Pure /\ FrameOK(f) /\ UNCHANGED <<db, notes, interrupts>>
          /\ f.op \in DriverOp /\ f.agent \in Drivers
      BY <1>1, <1>4, <2>1, DrivingFacts
    <2>3. CASE Err \/ Makes[f.agent] = None
      <3>1. Goto(<<>>)
        BY <1>4, <2>3
      <3> QED BY <2>2, <3>1, PureNone
    <2>4. CASE ~(Err \/ Makes[f.agent] = None)
      <3>1. Makes[f.agent] \in Protocol
        BY <2>2, <2>4, HandlesAssumption
      <3>2. PICK d : d = DoInstall(New, Makes[f.agent], Tag)
        OBVIOUS
      <3>3. FrameOK(d) /\ Idling(d)
        BY <3>1, <3>2, TagFacts, InstallFrame
      <3>4. PICK g : g = At(f, "StartChild")
        OBVIOUS
      <3>5. Goto(<<g, d>>)
        BY <1>4, <2>4, <3>2, <3>4
      <3> QED BY <2>1, <2>2, <3>3, <3>4, <3>5, DriverCalls
    <2> QED BY <2>3, <2>4
  <1>5. ASSUME Driving("StartChild"),
               IF Err
               THEN Goto(<<At(f, "Fail"), DoClose(f.h, Binds[f.agent], f.agent, f.h)>>)
               ELSE Goto(<<DoOpen(f.h, Binds[f.agent], f.agent, ret.h, BY_CHILD)>>)
        PROVE  IInv' /\ NoneMoved
    <2>1. "StartChild" \in DriverOp
      BY DEF DriverOp
    <2>2. /\ Pure /\ FrameOK(f) /\ UNCHANGED <<db, notes, interrupts>>
          /\ f.op \in DriverOp /\ f.agent \in Agent
      BY <1>1, <1>5, <2>1, DrivingFacts
    <2>3. CASE Err
      <3>1. PICK d : d = DoClose(f.h, Binds[f.agent], f.agent, f.h)
        OBVIOUS
      <3>2. FrameOK(d) /\ Idling(d)
        BY <3>1, CloseFrame
      <3>3. PICK g : g = At(f, "Fail")
        OBVIOUS
      <3>4. Goto(<<g, d>>)
        BY <1>5, <2>3, <3>1, <3>3
      <3> QED BY <2>2, <3>2, <3>3, <3>4, DriverCalls
    <2>4. CASE ~Err
      <3>1. PICK d : d = DoOpen(f.h, Binds[f.agent], f.agent, ret.h, BY_CHILD)
        OBVIOUS
      <3>2. Fits(d, prot)
        BY <1>2, <2>2, <3>1, OpenFrame, IdlingFits
      <3>3. Goto(<<d>>)
        BY <1>5, <2>4, <3>1
      <3> QED BY <2>2, <3>2, <3>3, PureOne
    <2> QED BY <2>3, <2>4
  <1>6. ASSUME Driving("Fail") \/ Driving("Succeed"), Goto(<<>>)
        PROVE  IInv' /\ NoneMoved
    <2>1. Pure /\ UNCHANGED <<db, notes, interrupts>>
      BY <1>1, <1>6, DrivingFacts
    <2> QED BY <1>6, <2>1, PureNone
  <1> QED BY <1>1, <1>3, <1>4, <1>5, <1>6 DEF Start, Enter, Return

LEMMA StopStep ==
    ASSUME IInv, Stop
    PROVE  IInv' /\ NoneMoved
  <1>1. PICK f : f = Last(todo)
    OBVIOUS
  <1>2. BY_CHILD \in Attribute
    BY DEF Attribute
  <1>3. ASSUME NEW op \in {"Stop", "StopChildren"}, Driving(op), Goto(<<>>)
        PROVE  IInv' /\ NoneMoved
    <2>0. op \in DriverOp
      BY DEF DriverOp
    <2>1. Pure /\ UNCHANGED <<db, notes, interrupts>>
      BY <1>1, <1>3, <2>0, DrivingFacts
    <2> QED BY <1>3, <2>1, PureNone
  <1>4. ASSUME Driving("Stop"),
               Goto(<<At(f, "Succeed"), DoClose(f.h, Binds[f.agent], f.agent, f.h)>>)
        PROVE  IInv' /\ NoneMoved
    <2>1. "Stop" \in DriverOp
      BY DEF DriverOp
    <2>2. /\ Pure /\ FrameOK(f) /\ UNCHANGED <<db, notes, interrupts>> /\ f.op \in DriverOp
      BY <1>1, <1>4, <2>1, DrivingFacts
    <2>3. PICK d : d = DoClose(f.h, Binds[f.agent], f.agent, f.h)
      OBVIOUS
    <2>4. FrameOK(d) /\ Idling(d)
      BY <2>3, CloseFrame
    <2>5. PICK g : g = At(f, "Succeed")
      OBVIOUS
    <2>6. Goto(<<g, d>>)
      BY <1>4, <2>3, <2>5
    <2> QED BY <2>1, <2>2, <2>4, <2>5, <2>6, DriverCalls
  <1>5. ASSUME NEW op \in {"Stop", "ChildGone"}, Driving(op), Goto(<<At(f, "StopChildren")>>)
        PROVE  IInv' /\ NoneMoved
    <2>1. op \in DriverOp /\ "StopChildren" \in DriverOp
      BY DEF DriverOp
    <2>2. /\ Pure /\ FrameOK(f) /\ UNCHANGED <<db, notes, interrupts>> /\ f.op \in DriverOp
      BY <1>1, <1>5, <2>1, DrivingFacts
    <2>3. PICK g : g = At(f, "StopChildren")
      OBVIOUS
    <2>4. Fits(g, prot)
      BY <2>1, <2>2, <2>3, DriverFrame
    <2>5. Goto(<<g>>)
      BY <1>5, <2>3
    <2> QED BY <2>2, <2>4, <2>5, PureOne
  <1>6. ASSUME Driving("StopChildren"), NEW c \in f.set,
               Goto(<<[f EXCEPT !.set = @ \ {c}, !.ctrl = c, !.op = "ChildClosed"],
                      DoClose(f.h, Binds[f.agent], f.agent, c)>>)
        PROVE  IInv' /\ NoneMoved
    <2>1. "StopChildren" \in DriverOp /\ "ChildClosed" \in DriverOp
      BY DEF DriverOp
    <2>2. /\ Pure /\ FrameOK(f) /\ UNCHANGED <<db, notes, interrupts>> /\ f.op \in DriverOp
      BY <1>1, <1>6, <2>1, DrivingFacts
    <2>3. PICK d : d = DoClose(f.h, Binds[f.agent], f.agent, c)
      OBVIOUS
    <2>4. FrameOK(d) /\ Idling(d)
      BY <2>3, CloseFrame
    <2>5. PICK g : g = [f EXCEPT !.set = @ \ {c}, !.ctrl = c, !.op = "ChildClosed"]
      OBVIOUS
    <2>6. Goto(<<g, d>>)
      BY <1>6, <2>3, <2>5
    <2>7. Fits(g, prot)
      BY <2>1, <2>2, <2>5, DriverFrame
    <2>8. Fits(d, prot)
      BY <2>4, IdlingFits
    <2> QED BY <2>2, <2>6, <2>7, <2>8, PureTwo
  <1>7. ASSUME Driving("ChildClosed"),
               Goto(<<At(f, "ChildGone"), DoUninstall(f.ctrl, Makes[f.agent], Tag)>>)
        PROVE  IInv' /\ NoneMoved
    <2>1. "ChildClosed" \in DriverOp /\ "ChildGone" \in DriverOp
      BY DEF DriverOp
    <2>2. /\ Pure /\ FrameOK(f) /\ UNCHANGED <<db, notes, interrupts>> /\ f.op \in DriverOp
      BY <1>1, <1>7, <2>1, DrivingFacts
    <2>3. PICK d : d = DoUninstall(f.ctrl, Makes[f.agent], Tag)
      OBVIOUS
    <2>4. FrameOK(d) /\ Idling(d)
      BY <2>3, UninstallFrame
    <2>5. PICK g : g = At(f, "ChildGone")
      OBVIOUS
    <2>6. Goto(<<g, d>>)
      BY <1>7, <2>3, <2>5
    <2> QED BY <2>1, <2>2, <2>4, <2>5, <2>6, DriverCalls
  <1>8. ASSUME Driving("ChildGone"),
               Goto(<<[At(f, "StopChildren") EXCEPT !.n = 1],
                      DoOpen(f.h, Binds[f.agent], f.agent, f.ctrl, BY_CHILD)>>)
        PROVE  IInv' /\ NoneMoved
    <2>1. "StopChildren" \in DriverOp /\ "ChildGone" \in DriverOp
      BY DEF DriverOp
    <2>2. /\ Pure /\ FrameOK(f) /\ UNCHANGED <<db, notes, interrupts>> /\ f.op \in DriverOp
          /\ f.agent \in Agent
      BY <1>1, <1>8, <2>1, DrivingFacts
    <2>3. PICK d : d = DoOpen(f.h, Binds[f.agent], f.agent, f.ctrl, BY_CHILD)
      OBVIOUS
    <2>4. FrameOK(d) /\ Idling(d)
      BY <1>2, <2>2, <2>3, OpenFrame
    <2>5. PICK g : g = [At(f, "StopChildren") EXCEPT !.n = 1]
      OBVIOUS
    <2>6. Goto(<<g, d>>)
      BY <1>8, <2>3, <2>5
    <2> QED BY <2>1, <2>2, <2>4, <2>5, <2>6, DriverCalls
  <1> QED BY <1>1, <1>3, <1>4, <1>5, <1>6, <1>7, <1>8 DEF Stop, Enter, Return

-----------------------------------------------------------------------------
(* Opening and closing *)

LEMMA LiveFacts ==
    ASSUME Lists, NEW k \in Prot, prot[k].h # None
    PROVE  /\ prot[k] # Freed /\ prot[k].h \in handles /\ prot[k].p \in Protocol
           /\ prot[k].i \in Interface
  <1>1. Freed.h = None
    BY DEF Freed
  <1> QED BY <1>1 DEF Lists

\* Taking opens away.
LEMMA FewerOpens ==
    ASSUME NEW S, OpenOK(S), NEW T \in SUBSET S
    PROVE  OpenOK(T)
  BY DEF OpenOK, DriverOpens

\* Only who has an interface open changes.
LEMMA OpenChanged ==
    ASSUME IInv, NEW k \in Prot, prot[k].h # None, NEW S, OpenOK(S), NEW pr,
           pr = [prot EXCEPT ![k].open = S]
    PROVE  /\ ProtTypes(pr) /\ Opened(pr) /\ \A x \in Prot : SameInterface(pr[x], prot[x])
           /\ \A x \in Prot : prot[x] = Freed => pr[x] = Freed
  <1>1. ProtTypes(prot) /\ Opened(prot) /\ Lists
    BY DEF IInv, Types
  <1>2. PICK r : r = [prot[k] EXCEPT !.open = S]
    OBVIOUS
  <1>3. IsProt(r) /\ r.h = prot[k].h /\ r.p = prot[k].p /\ r.i = prot[k].i /\ r.open = S
    BY <1>1, <1>2 DEF ProtTypes, IsProt
  <1>4. prot = [x \in Prot |-> prot[x]]
    BY <1>1 DEF ProtTypes
  <1>5. pr = [x \in Prot |-> IF x = k THEN r ELSE prot[x]]
    BY <1>2, <1>4
  <1>6. \A x \in Prot : pr[x] = IF x = k THEN r ELSE prot[x]
    BY <1>5
  <1>7. ProtTypes(pr)
    <2>1. pr = [x \in Prot |-> pr[x]]
      BY <1>5
    <2> QED BY <1>1, <1>3, <1>6, <2>1 DEF ProtTypes
  <1>8. Opened(pr)
    BY <1>1, <1>3, <1>6 DEF Opened
  <1>9. prot[k] # Freed
    BY <1>1, LiveFacts
  <1> QED BY <1>3, <1>6, <1>7, <1>8, <1>9 DEF SameInterface

\* A step that changes who has one interface open.
LEMMA PureOpen ==
    ASSUME Pure, NEW k \in Prot, prot[k].h # None, NEW S, OpenOK(S), prot' = [prot EXCEPT ![k].open = S],
           NEW c, Goto(c), Pushes(c, prot'), UNCHANGED <<handles, onHandle, byProtocol, notes, interrupts>>
    PROVE  IInv' /\ NoneMoved
  <1>1. IInv
    BY DEF Pure
  <1>2. /\ ProtTypes(prot') /\ Opened(prot') /\ \A x \in Prot : SameInterface(prot'[x], prot[x])
        /\ \A x \in Prot : prot[x] = Freed => prot'[x] = Freed
    BY <1>1, OpenChanged
  <1>3. NoneMoved
    BY <1>2 DEF NoneMoved
  <1>4. IInv'
    BY <1>2, <1>3, PureStep DEF Pure, Goto
  <1> QED BY <1>3, <1>4

\* CloseProtocol only takes opens away.
LEMMA CloseProtocolStep ==
    ASSUME IInv, CloseProtocol
    PROVE  IInv' /\ NoneMoved
  <1>1. PICK f : f = Last(todo)
    OBVIOUS
  <1>2. /\ Pure /\ f.op = "Close" /\ FrameOK(f)
    BY <1>1, RunningIsPure DEF CloseProtocol
  <1>u. UNCHANGED <<handles, onHandle, byProtocol, notes, interrupts>>
    BY DEF CloseProtocol
  <1>3. PICK k : k = GetProtocolEntry(f.h, f.p)
    OBVIOUS
  <1>4. CASE prot' = prot /\ Goto(<<>>)
    BY <1>2, <1>4, <1>u, PureNone DEF db
  <1>5. CASE ~(prot' = prot /\ Goto(<<>>))
    <2> DEFINE S == {o \in prot[k].open : ~(o.agent = f.agent /\ o.ctrl = f.ctrl)}
    <2>1. /\ Valid(f.h) /\ k # None /\ Goto(<<>>)
          /\ prot' = [prot EXCEPT ![k].open = {o \in @ : ~(o.agent = f.agent /\ o.ctrl = f.ctrl)}]
      BY <1>1, <1>3, <1>5 DEF CloseProtocol, Return
    <2>2. f.h \in Handle /\ Types /\ Lists /\ Opened(prot)
      BY <2>1 DEF Valid, IInv, Types
    <2>3. k \in Prot /\ prot[k].h = f.h
      BY <1>3, <2>1, <2>2, EntryFacts
    <2>4. prot[k].h # None
      BY <2>2, <2>3, NoneFacts
    <2>5. OpenOK(S)
      <3>1. OpenOK(prot[k].open)
        BY <2>2, <2>3 DEF Opened
      <3> QED BY <3>1, FewerOpens
    <2>6. prot' = [prot EXCEPT ![k].open = S]
      <3>1. k \in DOMAIN prot /\ "open" \in DOMAIN prot[k]
        BY <2>2, <2>3 DEF Types, ProtTypes, IsProt
      <3> QED BY <2>1, <3>1
    <2> HIDE DEF S
    <2> QED BY <1>2, <1>u, <2>1, <2>3, <2>4, <2>5, <2>6, PushNone, PureOpen
  <1> QED BY <1>4, <1>5

\* OpenProtocol adds a driver only where there is none.
LEMMA AddOpenStep ==
    ASSUME Pure, NEW f, f.agent \in Agent, f.attr \in Attribute,
           NEW k \in Prot, prot[k].h # None, AddOpen(f, k), UNCHANGED interrupts,
           f.attr \in {BY_DRIVER, DRIVER_EXCLUSIVE} => DriverOpens(prot[k].open) = {}
    PROVE  IInv' /\ NoneMoved
  <1> DEFINE S == prot[k].open \cup {OpenData(f)}
  <1>1. OpenOK(S)
    <2>1. PICK d : d = OpenData(f)
      OBVIOUS
    <2>2. d.agent = f.agent /\ d.attr = f.attr
      BY <2>1 DEF OpenData
    <2>3. OpenOK(prot[k].open)
      BY DEF Pure, IInv, Opened
    <2>4. \A o \in S : o \in prot[k].open \/ o = d
      BY <2>1
    <2> HIDE DEF S
    <2> QED BY <2>2, <2>3, <2>4 DEF OpenOK, DriverOpens
  <1>2. /\ prot' = [prot EXCEPT ![k].open = @ \cup {OpenData(f)}] /\ Goto(<<>>)
        /\ UNCHANGED <<handles, onHandle, byProtocol, notes, interrupts>>
    BY DEF AddOpen, Return
  <1>3. prot' = [prot EXCEPT ![k].open = S]
    <2>1. k \in DOMAIN prot /\ "open" \in DOMAIN prot[k]
      BY DEF Pure, IInv, Types, ProtTypes, IsProt
    <2> QED BY <1>2, <2>1
  <1> HIDE DEF S
  <1> QED BY <1>1, <1>2, <1>3, PushNone, PureOpen

\* The drivers of k are stopped for a call that works on it.
LEMMA StopUsersStep ==
    ASSUME Pure, NEW f, FrameOK(f), f.op \in {"Uninstall", "Reinstall", "Open"},
           NEW k \in Prot, f.h \in Handle, prot[k].h = f.h, prot[k].p = f.p,
           f.op # "Open" => prot[k].i = f.i, StopUsers(f, k), UNCHANGED interrupts
    PROVE  IInv' /\ NoneMoved
  <1>1. PICK o \in DriverOpens(prot[k].open) :
            Goto(<<[f EXCEPT !.prot = k], DoDisconnect(f.h, o.agent, None)>>)
    BY DEF StopUsers, Enter
  <1>2. UNCHANGED <<db, notes, interrupts>>
    BY DEF StopUsers
  <1>3. PICK g : g = [f EXCEPT !.prot = k]
    OBVIOUS
  <1>4. PICK d : d = DoDisconnect(f.h, o.agent, None)
    OBVIOUS
  <1>5. Goto(<<g, d>>)
    BY <1>1, <1>3, <1>4
  <1>6. /\ IsFrame(g) /\ g.op = f.op /\ g.h = f.h /\ g.p = f.p /\ g.i = f.i /\ g.to = f.to
        /\ g.agent = f.agent /\ g.attr = f.attr /\ g.prot = k
    BY <1>3 DEF FrameOK, IsFrame
  <1>7. FrameOK(g)
    BY <1>6 DEF FrameOK, Installing, Listing, DriverOp
  <1>8. TargetOK(g, prot)
    BY <1>6 DEF TargetOK
  <1>9. Fits(g, prot)
    BY <1>6, <1>7, <1>8 DEF Fits
  <1>10. Fits(d, prot)
    BY <1>4, DisconnectFrame, IdlingFits
  <1> QED BY <1>2, <1>5, <1>9, <1>10, PureTwo

LEMMA OpenProtocolStep ==
    ASSUME IInv, OpenProtocol
    PROVE  IInv' /\ NoneMoved
  <1>1. PICK f : f = Last(todo)
    OBVIOUS
  <1>2. /\ Pure /\ f.op = "Open" /\ FrameOK(f) /\ TargetOK(f, prot)
    BY <1>1, RunningIsPure DEF OpenProtocol
  <1>a. f.agent \in Agent /\ f.attr \in Attribute
    BY <1>2 DEF FrameOK
  <1>i. UNCHANGED interrupts
    BY DEF OpenProtocol
  <1>3. CASE Goto(<<>>) /\ UNCHANGED <<db, notes>>
    BY <1>2, <1>3, <1>i, PureNone
  <1>4. CASE f.prot = None /\ OpenEntry(f) /\ ~(Goto(<<>>) /\ UNCHANGED <<db, notes>>)
    <2>1. PICK k : k = GetProtocolEntry(f.h, f.p)
      OBVIOUS
    <2>2. /\ ~Invalid(f) /\ k # None
          /\ \/ StopUsers(f, k)
             \/ /\ ~InTheWay(f, prot[k].open)
                /\ ~(WantsExclusive(f) /\ DriverOpens(prot[k].open) # {})
                /\ AddOpen(f, k)
      BY <1>4, <2>1 DEF OpenEntry, Return
    <2>3. f.h \in Handle /\ Types /\ Lists
      BY <2>2 DEF Invalid, Valid, IInv, Types
    <2>4. k \in Prot /\ prot[k].h = f.h /\ prot[k].p = f.p
      BY <2>1, <2>2, <2>3, EntryFacts
    <2>5. prot[k].h # None
      BY <2>3, <2>4, NoneFacts
    <2>6. CASE StopUsers(f, k)
      BY <1>2, <1>i, <2>3, <2>4, <2>6, StopUsersStep
    <2>7. CASE ~StopUsers(f, k)
      <3>1. f.attr \in {BY_DRIVER, DRIVER_EXCLUSIVE} => DriverOpens(prot[k].open) = {}
        BY <2>2, <2>7 DEF InTheWay, WantsExclusive
      <3>2. AddOpen(f, k)
        BY <2>2, <2>7
      <3> QED BY <1>2, <1>a, <1>i, <2>4, <2>5, <3>1, <3>2, AddOpenStep
    <2> QED BY <2>6, <2>7
  <1>5. ASSUME f.prot # None,
               StopUsers(f, f.prot) \/ (DriverOpens(prot[f.prot].open) = {} /\ AddOpen(f, f.prot))
        PROVE  IInv' /\ NoneMoved
    <2>1. PICK k : k = f.prot
      OBVIOUS
    <2>2. k \in Prot /\ f.h \in Handle /\ prot[k].h = f.h /\ prot[k].p = f.p
      BY <1>2, <1>5, <2>1 DEF TargetOK, Working
    <2>3. prot[k].h # None
      BY <2>2, NoneFacts
    <2>4. CASE StopUsers(f, k)
      BY <1>2, <1>i, <2>2, <2>4, StopUsersStep
    <2>5. CASE ~StopUsers(f, k)
      <3>1. DriverOpens(prot[k].open) = {} /\ AddOpen(f, k)
        BY <1>5, <2>1, <2>5
      <3> QED BY <1>2, <1>a, <1>i, <2>2, <2>3, <3>1, AddOpenStep
    <2> QED BY <2>4, <2>5
  <1> QED BY <1>1, <1>3, <1>4, <1>5 DEF OpenProtocol, Return

-----------------------------------------------------------------------------
(* Uninstalling and reinstalling: the steps that remove nothing *)

\* The interface a call works on is the one it was called for.
LEMMA TargetFacts ==
    ASSUME IInv, NEW f, FrameOK(f), TargetOK(f, prot), f.op \in {"Uninstall", "Reinstall"}, HasTarget(f),
           NEW k, k = Target(f)
    PROVE  /\ k \in Prot /\ f.h \in Handle /\ prot[k].h = f.h /\ prot[k].p = f.p /\ prot[k].i = f.i
           /\ prot[k].h # None
  <1>1. k \in Prot /\ f.h \in Handle /\ prot[k].h = f.h /\ prot[k].p = f.p /\ prot[k].i = f.i
    <2>1. CASE f.prot # None
      BY <2>1 DEF Target, TargetOK, Working
    <2>2. CASE f.prot = None
      <3>1. f.h \in Handle /\ Types /\ Lists /\ k # None /\ k = FindProtocolInterface(f.h, f.p, f.i)
        BY <2>2 DEF HasTarget, Target, IInv, Types
      <3> QED BY <3>1, FindFacts
    <2> QED BY <2>1, <2>2
  <1> QED BY <1>1, NoneFacts

LEMMA PushConcat ==
    ASSUME NEW pr, NEW c, Pushes(c, pr), NEW d, Pushes(d, pr)
    PROVE  Pushes(c \o d, pr)
  <1>1. IsSeq(c) /\ IsSeq(d)
    BY DEF Pushes
  <1>2. PICK u : u = c \o d
    OBVIOUS
  <1>3. /\ IsSeq(u) /\ DOMAIN u = 1 .. Len(c) + Len(d)
        /\ \A j \in 1 .. Len(c) : u[j] = c[j]
        /\ \A j \in 1 .. Len(c) + Len(d) :
              j \in 1 .. Len(c) \/ (j - Len(c) \in 1 .. Len(d) /\ u[j] = d[j - Len(c)])
    BY <1>1, <1>2, ConcatIsSeq
  <1>4. DOMAIN c = 1 .. Len(c) /\ DOMAIN d = 1 .. Len(d)
    BY <1>1, IsSeqFacts
  <1>5. \A m \in DOMAIN u : (\E j \in DOMAIN c : u[m] = c[j]) \/ (\E j \in DOMAIN d : u[m] = d[j])
    BY <1>3, <1>4
  <1>6. Pushes(u, pr)
    BY <1>3, <1>5 DEF Pushes
  <1> QED BY <1>2, <1>6

\* Opens are left: they are dropped and the drivers are connected again.
LEMMA ReconnectStep ==
    ASSUME Pure, NEW f, NEW k \in Prot, prot[k].h # None, NEW rest,
           rest = <<Denied>> \/ rest = <<Denied, DoConnect(f.h)>>,
           Reconnect(f, k, rest), UNCHANGED interrupts
    PROVE  IInv' /\ NoneMoved
  <1> DEFINE S == Kept(k)
  <1>1. OpenOK(S)
    <2>1. OpenOK(prot[k].open) /\ S \subseteq prot[k].open
      BY DEF Pure, IInv, Opened, Kept
    <2> QED BY <2>1, FewerOpens
  <1>2. /\ prot' = [prot EXCEPT ![k].open = S] /\ Goto(rest \o <<DoConnect(f.h)>>)
        /\ UNCHANGED <<handles, onHandle, byProtocol, notes, interrupts>>
    BY DEF Reconnect, Dropped, Enter
  <1>3. PICK d : d = DoConnect(f.h)
    OBVIOUS
  <1>4. PICK e : e = Denied
    OBVIOUS
  <1>5. Fits(d, prot') /\ Fits(e, prot')
    BY <1>3, <1>4, ConnectAllFrame, DeniedFrame, IdlingFits
  <1>6. Pushes(rest, prot')
    <2>1. CASE rest = <<Denied>>
      BY <1>4, <1>5, <2>1, PushOne DEF Fits
    <2>2. CASE rest = <<Denied, DoConnect(f.h)>>
      BY <1>3, <1>4, <1>5, <2>2, PushTwo DEF Fits
    <2> QED BY <2>1, <2>2
  <1>7. Pushes(rest \o <<DoConnect(f.h)>>, prot')
    <2>1. Pushes(<<d>>, prot')
      BY <1>5, PushOne DEF Fits
    <2> QED BY <1>3, <1>6, <2>1, PushConcat
  <1> HIDE DEF S
  <1> QED BY <1>1, <1>2, <1>7, PureOpen

-----------------------------------------------------------------------------
(* Removing and replacing an interface *)

\* Range, element by element.
LEMMA RangeIn ==
    ASSUME NEW s
    PROVE  \A x : x \in Range(s) <=> In(x, s)
  BY DEF Range, In

\* What a registrant has been told of is in the list.
LEMMA UpToIn ==
    ASSUME NEW S, NEW s \in Seq(S), NEW x, x = None \/ In(x, s)
    PROVE  \A y \in UpTo(s, x) : In(y, s)
  <1>1. CASE x = None
    BY <1>1 DEF UpTo
  <1>2. CASE x # None
    <2>1. Place(s, x) \in 1 .. Len(s) /\ Len(s) \in Nat /\ DOMAIN s = 1 .. Len(s)
      BY <1>2, PlaceFacts
    <2>2. UpTo(s, x) = {s[j] : j \in 1 .. Place(s, x)}
      BY <1>2 DEF UpTo
    <2>3. \A j \in 1 .. Place(s, x) : j \in DOMAIN s
      BY <2>1
    <2> QED BY <2>2, <2>3 DEF In
  <1> QED BY <1>1, <1>2

\* Callers stay on the stack.
LEMMA FramesStay ==
    ASSUME Pure, NEW c, IsSeq(c), Goto(c)
    PROVE  /\ \A j \in DOMAIN todo : todo[j].op \in {"Locate", "Reinstalled"} =>
                  j \in DOMAIN todo' /\ todo'[j] = todo[j]
           /\ \A m \in DOMAIN c : \E j \in DOMAIN todo' : todo'[j] = c[m]
  <1>1. IsSeq(todo)
    BY DEF Pure, IInv, StackOK
  <1>2. Replaced(todo, c, todo')
    BY <1>1, GotoFacts DEF Pure, Goto
  <1> QED BY <1>2 DEF Replaced, Pure

\* How the registrations of k's protocol follow when k leaves its list.
LEMMA BackedUp ==
    ASSUME IInv, NEW k \in Prot, prot[k].h # None, BackUp(k), Forget(k),
           NEW p, p = prot[k].p, NEW t, t = RemoveEntryList(byProtocol[p], k)
    PROVE  /\ reg' \in [Event -> [p : Protocol \cup {None}, pos : Prot \cup {None}]]
           /\ got' \in [Event -> SUBSET Prot]
           /\ \A e \in Event :
                 /\ reg'[e].p = reg[e].p
                 /\ reg'[e] = NotRegistered <=> reg[e] = NotRegistered
                 /\ reg[e] # NotRegistered /\ reg[e].p # p => reg'[e] = reg[e] /\ got'[e] = got[e]
                 /\ reg[e] # NotRegistered /\ reg[e].p = p =>
                       /\ got'[e] = got[e] \ {k}
                       /\ reg'[e].pos = None \/ In(reg'[e].pos, t)
                       /\ got'[e] = UpTo(t, reg'[e].pos)
                 /\ got[e] = {} => got'[e] = {}
  <1>0. Types /\ Lists /\ Registrants /\ SeenExactly
    BY DEF IInv
  <1>1. p \in Protocol
    BY <1>0, LiveFacts
  <1> DEFINE s == byProtocol[p]
  <1>2. s \in Seq(Prot) /\ Once(s) /\ In(k, s) /\ None \notin Prot /\ k # None
    BY <1>0, <1>1, NoneFacts DEF Types, Lists
  <1>t. t = RemoveEntryList(s, k)
    OBVIOUS
  <1> HIDE DEF s
  <1>3. t \in Seq(Prot) /\ Once(t) /\ \A x : In(x, t) <=> In(x, s) /\ x # k
    BY <1>2, <1>t, RemoveFacts
  <1>4. /\ Before(s, k) = None \/ In(Before(s, k), t)
        /\ UpTo(t, Before(s, k)) = UpTo(s, k) \ {k}
    BY <1>2, <1>t, UpToRemoved
  <1>5. \A x : In(x, t) => x \in Prot
    BY <1>3 DEF In
  <1>6. /\ reg' = [e \in Event |-> IF reg[e].pos = k /\ reg[e].p = p
                                   THEN [reg[e] EXCEPT !.pos = Before(s, k)]
                                   ELSE reg[e]]
        /\ got' = [e \in Event |-> got[e] \ {k}]
    BY DEF BackUp, Forget, s
  <1>7. ASSUME NEW e \in Event
        PROVE  /\ reg'[e] \in [p : Protocol \cup {None}, pos : Prot \cup {None}]
               /\ got'[e] \in SUBSET Prot
               /\ reg'[e].p = reg[e].p
               /\ reg'[e] = NotRegistered <=> reg[e] = NotRegistered
               /\ reg[e] # NotRegistered /\ reg[e].p # p => reg'[e] = reg[e] /\ got'[e] = got[e]
               /\ reg[e] # NotRegistered /\ reg[e].p = p =>
                     /\ got'[e] = got[e] \ {k}
                     /\ reg'[e].pos = None \/ In(reg'[e].pos, t)
                     /\ got'[e] = UpTo(t, reg'[e].pos)
               /\ got[e] = {} => got'[e] = {}
    <2>1. reg[e] \in [p : Protocol \cup {None}, pos : Prot \cup {None}] /\ got[e] \in SUBSET Prot
      BY <1>0 DEF Types
    <2>2. PICK b : b = Before(s, k)
      OBVIOUS
    <2>3. b = None \/ b \in Prot
      BY <1>4, <1>5, <2>2
    <2>4. reg'[e] = (IF reg[e].pos = k /\ reg[e].p = p THEN [reg[e] EXCEPT !.pos = b] ELSE reg[e])
          /\ got'[e] = got[e] \ {k}
      BY <1>6, <2>2
    <2>5. /\ reg'[e] \in [p : Protocol \cup {None}, pos : Prot \cup {None}]
          /\ reg'[e].p = reg[e].p
          /\ reg'[e].pos = IF reg[e].pos = k /\ reg[e].p = p THEN b ELSE reg[e].pos
      BY <2>1, <2>3, <2>4
    <2>6. reg'[e] = NotRegistered <=> reg[e] = NotRegistered
      <3>1. NotRegistered.p = None /\ NotRegistered.pos = None
        BY DEF NotRegistered
      <3>2. reg[e] = NotRegistered => reg'[e] = NotRegistered
        BY <3>1, <2>4, <1>2
      <3>3. reg'[e] = NotRegistered => reg[e] = NotRegistered
        BY <3>1, <2>5, <1>0 DEF Registrants
      <3> QED BY <3>2, <3>3
    <2>7. ASSUME reg[e] # NotRegistered
          PROVE  /\ reg[e].pos = None \/ In(reg[e].pos, byProtocol[reg[e].p])
                 /\ got[e] = UpTo(byProtocol[reg[e].p], reg[e].pos)
      <3>1. /\ reg[e].pos \in {None} \cup Range(byProtocol[reg[e].p])
            /\ got[e] = UpTo(byProtocol[reg[e].p], reg[e].pos)
        BY <1>0, <2>7 DEF SeenExactly
      <3> QED BY <3>1, RangeIn
    <2>8. ASSUME reg[e] # NotRegistered, reg[e].p # p
          PROVE  reg'[e] = reg[e] /\ got'[e] = got[e]
      <3>1. reg[e].p \in Protocol
        BY <1>0, <2>1, <2>8 DEF Registrants
      <3>2. byProtocol[reg[e].p] \in Seq(Prot) /\ ~ In(k, byProtocol[reg[e].p])
        BY <1>0, <2>8, <3>1 DEF Types, Lists
      <3>3. k \notin got[e]
        BY <2>7, <2>8, <3>2, UpToIn
      <3> QED BY <2>4, <2>8, <3>3
    <2>9. ASSUME reg[e] # NotRegistered, reg[e].p = p
          PROVE  /\ reg'[e].pos = None \/ In(reg'[e].pos, t)
                 /\ got'[e] = UpTo(t, reg'[e].pos)
      <3>1. PICK x : x = reg[e].pos
        OBVIOUS
      <3>2. (x = None \/ In(x, s)) /\ got[e] = UpTo(s, x)
        BY <2>7, <2>9, <3>1 DEF s
      <3>3. CASE x = k
        <4>1. reg'[e].pos = b
          BY <2>5, <2>9, <3>1, <3>3
        <4> QED BY <4>1, <3>2, <3>3, <2>2, <2>4, <1>4
      <3>4. CASE x # k
        <4>1. reg'[e].pos = x
          BY <2>5, <3>1, <3>4
        <4>2. CASE x = None
          <5>1. got[e] = {} /\ UpTo(t, x) = {}
            BY <3>2, <4>2 DEF UpTo
          <5> QED BY <4>1, <4>2, <5>1, <2>4
        <4>3. CASE x # None
          <5>1. In(x, s) /\ In(x, t)
            BY <1>3, <3>2, <3>4, <4>3
          <5>2. UpTo(t, x) = UpTo(s, x) \ {k}
            BY <1>2, <1>t, <3>4, <5>1, UpToRemoved
          <5> QED BY <4>1, <5>1, <5>2, <3>2, <2>4
        <4> QED BY <4>2, <4>3
      <3> QED BY <3>3, <3>4
    <2> QED BY <2>1, <2>4, <2>5, <2>6, <2>8, <2>9
  <1>8. reg' \in [Event -> [p : Protocol \cup {None}, pos : Prot \cup {None}]]
    <2>1. reg' = [e \in Event |-> reg'[e]]
      BY <1>6
    <2> QED BY <1>7, <2>1
  <1>9. got' \in [Event -> SUBSET Prot]
    <2>1. got' = [e \in Event |-> got'[e]]
      BY <1>6
    <2> QED BY <1>7, <2>1
  <1> QED BY <1>7, <1>8, <1>9

\* List u begins as t does.
Extends(u, t) ==
    \A x : x = None \/ In(x, t) => (x = None \/ In(x, u)) /\ UpTo(u, x) = UpTo(t, x)

\* The registrations after k left its protocol's list, which is now u.
LEMMA SeenAfter ==
    ASSUME IInv, NEW k \in Prot, prot[k].h # None, BackUp(k), Forget(k),
           NEW u \in Seq(Prot), byProtocol' = [byProtocol EXCEPT ![prot[k].p] = u],
           Extends(u, RemoveEntryList(byProtocol[prot[k].p], k)), signalled' = signalled
    PROVE  /\ SeenExactly' /\ Registrants'
           /\ \A e \in Event : reg[e] # NotRegistered => reg'[e] # NotRegistered
  <1>p. PICK p : p = prot[k].p
    OBVIOUS
  <1>t. PICK t : t = RemoveEntryList(byProtocol[p], k)
    OBVIOUS
  <1>x. Extends(u, t) /\ byProtocol' = [byProtocol EXCEPT ![p] = u]
    BY <1>p, <1>t
  <1>0. Types /\ Lists /\ Registrants /\ SeenExactly /\ p \in Protocol
    BY <1>p, LiveFacts DEF IInv
  <1>1. \A e \in Event :
           /\ reg'[e].p = reg[e].p
           /\ reg'[e] = NotRegistered <=> reg[e] = NotRegistered
           /\ reg[e] # NotRegistered /\ reg[e].p # p => reg'[e] = reg[e] /\ got'[e] = got[e]
           /\ reg[e] # NotRegistered /\ reg[e].p = p =>
                 /\ got'[e] = got[e] \ {k}
                 /\ reg'[e].pos = None \/ In(reg'[e].pos, t)
                 /\ got'[e] = UpTo(t, reg'[e].pos)
           /\ got[e] = {} => got'[e] = {}
    BY <1>p, <1>t, BackedUp
  <1>2. byProtocol'[p] = u /\ \A q \in Protocol : q # p => byProtocol'[q] = byProtocol[q]
    BY <1>0, <1>x DEF Types
  <1>3. ASSUME NEW e \in Event, reg'[e] # NotRegistered
        PROVE  /\ reg'[e].pos \in {None} \cup Range(byProtocol'[reg'[e].p])
               /\ got'[e] = UpTo(byProtocol'[reg'[e].p], reg'[e].pos)
    <2>1. reg[e] # NotRegistered /\ reg'[e].p = reg[e].p
      BY <1>1, <1>3
    <2>2. reg[e].p \in Protocol
      BY <1>0, <2>1 DEF Types, Registrants
    <2>3. CASE reg[e].p = p
      <3>1. (reg'[e].pos = None \/ In(reg'[e].pos, t)) /\ got'[e] = UpTo(t, reg'[e].pos)
        BY <1>1, <2>1, <2>3
      <3>2. (reg'[e].pos = None \/ In(reg'[e].pos, u)) /\ UpTo(u, reg'[e].pos) = UpTo(t, reg'[e].pos)
        BY <3>1, <1>x DEF Extends
      <3>3. byProtocol'[reg'[e].p] = u
        BY <1>2, <2>1, <2>3
      <3> QED BY <3>1, <3>2, <3>3, RangeIn
    <2>4. CASE reg[e].p # p
      <3>1. reg'[e] = reg[e] /\ got'[e] = got[e] /\ byProtocol'[reg'[e].p] = byProtocol[reg[e].p]
        BY <1>1, <1>2, <2>1, <2>2, <2>4
      <3> QED BY <1>0, <2>1, <3>1 DEF SeenExactly
    <2> QED BY <2>3, <2>4
  <1>4. SeenExactly'
    BY <1>3 DEF SeenExactly, NotRegistered
  <1>5. Registrants'
    BY <1>0, <1>1 DEF Registrants, NotRegistered
  <1> QED BY <1>1, <1>4, <1>5

\* prot after the opens of interface t were dropped, and k was freed or replaced.
LEMMA DroppedFacts ==
    ASSUME IInv, NEW t \in Prot, prot[t].h # None, NEW pr, pr = Dropped(t)
    PROVE  /\ ProtTypes(pr) /\ Opened(pr) /\ \A x \in Prot : SameInterface(pr[x], prot[x])
           /\ \A x \in Prot : prot[x] = Freed => pr[x] = Freed
  <1>0. PICK S : S = Kept(t)
    OBVIOUS
  <1>1. OpenOK(S)
    <2>1. OpenOK(prot[t].open) /\ S \subseteq prot[t].open
      BY <1>0 DEF IInv, Opened, Kept
    <2> QED BY <2>1, FewerOpens
  <1>2. PICK q : q = [prot EXCEPT ![t].open = S]
    OBVIOUS
  <1>3. /\ ProtTypes(q) /\ Opened(q) /\ \A x \in Prot : SameInterface(q[x], prot[x])
        /\ \A x \in Prot : prot[x] = Freed => q[x] = Freed
    BY <1>1, <1>2, OpenChanged
  <1>4. pr = q
    BY <1>0, <1>2 DEF Dropped
  <1> QED BY <1>3, <1>4

Removed(k) ==
    /\ k \in Prot /\ prot'[k] = Freed
    /\ \A x \in Prot : x # k => SameInterface(prot'[x], prot[x])
    /\ prot[k].h # None

LEMMA FreedFacts ==
    /\ IsProt(Freed) /\ Freed.h = None /\ Freed.p = None /\ OpenOK(Freed.open)
  <1>1. IsProt(Freed) /\ Freed.h = None /\ Freed.p = None /\ Freed.open = {}
    BY DEF Freed, IsProt
  <1> QED BY <1>1 DEF OpenOK, DriverOpens

\* UninstallProtocolInterface removes an interface that is closed, from all lists.
LEMMA RemoveInterfaceStep ==
    ASSUME IInv, TargetsStay, Pure, NEW f, f = Last(todo), FrameOK(f), TargetOK(f, prot), f.op = "Uninstall",
           HasTarget(f), Idle(f, Target(f)), RemoveInterface(f), UNCHANGED interrupts
    PROVE  IInv' /\ \E k \in Prot : Removed(k)
  <1>0. /\ Types /\ Lists /\ Opened(prot) /\ StackOK(todo, prot, reg) /\ Registrants
        /\ SeenExactly /\ NotMissed
    BY DEF IInv
  <1>1. PICK t : t = Target(f)
    OBVIOUS
  <1>2. /\ t \in Prot /\ f.h \in Handle /\ prot[t].h = f.h /\ prot[t].p = f.p /\ prot[t].i = f.i
        /\ prot[t].h # None
    BY <1>1, TargetFacts
  <1>3. PICK k : k = FindProtocolInterface(f.h, f.p, f.i)
    OBVIOUS
  <1>4. k \in Prot /\ k # None /\ prot[k].h = f.h /\ prot[k].p = f.p
    BY <1>0, <1>2, <1>3, FindFacts, NoneFacts
  <1>5. prot[k].h # None /\ f.h \in handles /\ f.p \in Protocol
    BY <1>0, <1>2, <1>4, LiveFacts
  <1>6. PICK left : left = RemoveEntryList(onHandle[f.h], k)
    OBVIOUS
  <1>7. /\ BackUp(k) /\ Forget(k)
        /\ byProtocol' = [byProtocol EXCEPT ![f.p] = RemoveEntryList(@, k)]
        /\ onHandle' = [onHandle EXCEPT ![f.h] = left]
        /\ handles' = HandlesLeft(f.h, left)
        /\ prot' = [Dropped(t) EXCEPT ![k] = Freed]
        /\ Goto(<<>>) /\ signalled' = signalled
    BY <1>1, <1>3, <1>4, <1>6 DEF RemoveInterface, Return
  <1>8. PICK s : s = byProtocol[f.p]
    OBVIOUS
  <1>9. PICK u : u = RemoveEntryList(s, k)
    OBVIOUS
  <1>10. /\ s \in Seq(Prot) /\ Once(s) /\ In(k, s)
         /\ onHandle[f.h] \in Seq(Prot) /\ Once(onHandle[f.h]) /\ In(k, onHandle[f.h])
    BY <1>0, <1>2, <1>4, <1>5, <1>8 DEF Types, Lists
  <1>11. u \in Seq(Prot) /\ Once(u) /\ \A x : In(x, u) <=> In(x, s) /\ x # k
    BY <1>9, <1>10, RemoveFacts
  <1>12. left \in Seq(Prot) /\ Once(left) /\ \A x : In(x, left) <=> In(x, onHandle[f.h]) /\ x # k
    BY <1>6, <1>10, RemoveFacts
  <1>13. byProtocol' = [byProtocol EXCEPT ![f.p] = u]
    BY <1>0, <1>5, <1>7, <1>8, <1>9 DEF Types
  <1>14. /\ SeenExactly' /\ Registrants'
         /\ \A e \in Event : reg[e] # NotRegistered => reg'[e] # NotRegistered
    <2>1. Extends(u, u)
      BY DEF Extends
    <2>2. /\ byProtocol' = [byProtocol EXCEPT ![prot[k].p] = u]
          /\ Extends(u, RemoveEntryList(byProtocol[prot[k].p], k))
      BY <1>4, <1>8, <1>9, <1>13, <2>1
    <2> QED BY <1>4, <1>5, <1>7, <1>11, <2>2, SeenAfter
  <1>15. /\ reg' \in [Event -> [p : Protocol \cup {None}, pos : Prot \cup {None}]]
         /\ got' \in [Event -> SUBSET Prot]
         /\ \A e \in Event :
               /\ reg'[e].p = reg[e].p
               /\ reg'[e] = NotRegistered <=> reg[e] = NotRegistered
               /\ reg[e] # NotRegistered /\ reg[e].p # f.p => reg'[e] = reg[e] /\ got'[e] = got[e]
               /\ reg[e] # NotRegistered /\ reg[e].p = f.p => got'[e] = got[e] \ {k}
    <2>1. /\ reg' \in [Event -> [p : Protocol \cup {None}, pos : Prot \cup {None}]]
          /\ got' \in [Event -> SUBSET Prot]
          /\ \A e \in Event :
               /\ reg'[e].p = reg[e].p
               /\ reg'[e] = NotRegistered <=> reg[e] = NotRegistered
               /\ reg[e] # NotRegistered /\ reg[e].p # f.p => reg'[e] = reg[e] /\ got'[e] = got[e]
               /\ reg[e] # NotRegistered /\ reg[e].p = f.p =>
                     /\ got'[e] = got[e] \ {k}
                     /\ reg'[e].pos = None \/ In(reg'[e].pos, u)
                     /\ got'[e] = UpTo(u, reg'[e].pos)
               /\ got[e] = {} => got'[e] = {}
      BY <1>4, <1>5, <1>7, <1>8, <1>9, BackedUp
    <2> QED BY <2>1
  <1>16. PICK pr : pr = Dropped(t)
    OBVIOUS
  <1>17. /\ ProtTypes(pr) /\ Opened(pr) /\ \A x \in Prot : SameInterface(pr[x], prot[x])
         /\ \A x \in Prot : prot[x] = Freed => pr[x] = Freed
    BY <1>2, <1>16, DroppedFacts
  <1>18. /\ prot' = [x \in Prot |-> prot'[x]]
         /\ prot'[k] = Freed /\ \A x \in Prot : x # k => prot'[x] = pr[x]
    <2>1. pr = [x \in Prot |-> pr[x]]
      BY <1>17 DEF ProtTypes
    <2>2. prot' = [x \in Prot |-> IF x = k THEN Freed ELSE pr[x]]
      BY <1>7, <1>16, <2>1
    <2> QED BY <1>4, <2>2
  <1>19. ProtTypes(prot') /\ Opened(prot')
    BY <1>17, <1>18, FreedFacts DEF ProtTypes, Opened
  <1>20. \A x \in Prot : x # k => SameInterface(prot'[x], prot[x])
    BY <1>17, <1>18
  <1>21. \A x \in Prot : prot[x] = Freed => prot'[x] = Freed
    BY <1>17, <1>18
  <1>22. /\ onHandle'[f.h] = left /\ \A h \in Handle : h # f.h => onHandle'[h] = onHandle[h]
         /\ byProtocol'[f.p] = u /\ \A p \in Protocol : p # f.p => byProtocol'[p] = byProtocol[p]
         /\ onHandle' \in [Handle -> Seq(Prot)] /\ byProtocol' \in [Protocol -> Seq(Prot)]
    BY <1>0, <1>2, <1>5, <1>7, <1>11, <1>12, <1>13 DEF Types
  <1>23. /\ handles' \subseteq Handle
         /\ \A h : h # f.h => (h \in handles' <=> h \in handles)
         /\ f.h \in handles' <=> left # <<>>
    BY <1>0, <1>5, <1>7 DEF HandlesLeft, Types
  <1>24. Types'
    BY <1>0, <1>7, <1>15, <1>19, <1>22, <1>23 DEF Types
  <1>25. Lists'
    <2>1. ASSUME NEW x \in Prot
          PROVE  \/ prot'[x] = Freed
                 \/ prot'[x].h \in handles' /\ prot'[x].p \in Protocol /\ prot'[x].i \in Interface
      <3>1. CASE x = k
        BY <3>1, <1>18
      <3>2. CASE x # k /\ prot[x] = Freed
        BY <3>2, <1>21
      <3>3. CASE x # k /\ prot[x] # Freed
        <4>1. /\ prot'[x].h = prot[x].h /\ prot'[x].p = prot[x].p /\ prot'[x].i = prot[x].i
              /\ prot[x].h \in handles /\ prot[x].p \in Protocol /\ prot[x].i \in Interface
          BY <3>3, <1>0, <1>20 DEF SameInterface, Lists
        <4>2. CASE prot[x].h # f.h
          BY <4>1, <4>2, <1>23
        <4>3. CASE prot[x].h = f.h
          <5>1. In(x, onHandle[f.h])
            BY <4>3, <1>0, <1>2 DEF Lists
          <5>2. In(x, left)
            BY <5>1, <3>3, <1>12
          <5>3. left # <<>>
            BY <5>2, EmptyTuple DEF In
          <5> QED BY <4>1, <4>3, <5>3, <1>23
        <4> QED BY <4>2, <4>3
      <3> QED BY <3>1, <3>2, <3>3
    <2>2. ASSUME NEW h \in Handle
          PROVE  /\ Once(onHandle'[h]) /\ (h \in handles' <=> onHandle'[h] # <<>>)
                 /\ \A x \in Prot : In(x, onHandle'[h]) <=> prot'[x].h = h
      <3>0. h # None /\ prot'[k].h = None
        BY <1>18, NoneFacts, FreedFacts
      <3>1. CASE h = f.h
        <4>1. Once(left) /\ \A x \in Prot : In(x, left) <=> prot[x].h = h /\ x # k
          BY <3>1, <1>0, <1>12 DEF Lists
        <4>2. onHandle'[h] = left /\ (h \in handles' <=> left # <<>>)
          BY <3>1, <1>22, <1>23
        <4>3. \A x \in Prot : In(x, left) <=> prot'[x].h = h
          BY <3>0, <4>1, <1>20 DEF SameInterface
        <4> QED BY <4>1, <4>2, <4>3
      <3>2. CASE h # f.h
        <4>1. /\ Once(onHandle[h]) /\ (h \in handles <=> onHandle[h] # <<>>)
              /\ \A x \in Prot : In(x, onHandle[h]) <=> prot[x].h = h
          BY <1>0 DEF Lists
        <4>2. prot[k].h # h
          BY <3>2, <1>4
        <4> QED BY <3>0, <3>2, <4>1, <4>2, <1>20, <1>22, <1>23 DEF SameInterface
      <3> QED BY <3>1, <3>2
    <2>3. ASSUME NEW p \in Protocol
          PROVE  /\ Once(byProtocol'[p])
                 /\ \A x \in Prot : In(x, byProtocol'[p]) <=> prot'[x].p = p
      <3>0. p # None /\ prot'[k].p = None
        BY <1>18, NoneFacts, FreedFacts
      <3>1. CASE p = f.p
        <4>1. \A x \in Prot : In(x, u) <=> prot[x].p = p /\ x # k
          BY <3>1, <1>0, <1>8, <1>11 DEF Lists
        <4>2. byProtocol'[p] = u
          BY <3>1, <1>22
        <4>3. \A x \in Prot : In(x, u) <=> prot'[x].p = p
          BY <3>0, <4>1, <1>20 DEF SameInterface
        <4> QED BY <4>2, <4>3, <1>11
      <3>2. CASE p # f.p
        <4>1. Once(byProtocol[p]) /\ \A x \in Prot : In(x, byProtocol[p]) <=> prot[x].p = p
          BY <1>0 DEF Lists
        <4>2. prot[k].p # p
          BY <3>2, <1>4
        <4> QED BY <3>0, <3>2, <4>1, <4>2, <1>20, <1>22 DEF SameInterface
      <3> QED BY <3>1, <3>2
    <2> QED BY <2>1, <2>2, <2>3 DEF Lists, Freed
  <1>26. StackOK(todo', prot', reg')
    <2>1. \A j \in 1 .. Len(todo) - 1 : Working(todo[j]) =>
              SameInterface(prot'[todo[j].prot], prot[todo[j].prot])
      BY DEF TargetsStay
    <2>2. Pushes(<<>>, prot') /\ todo' = Front(todo) \o <<>> /\ todo # <<>>
      BY <1>7, PushNone DEF Goto, Pure
    <2> QED BY <1>0, <1>14, <2>1, <2>2, StackKept
  <1>27. NotMissed'
    <2>1. \A j \in DOMAIN todo : todo[j].op \in {"Locate", "Reinstalled"} =>
              j \in DOMAIN todo' /\ todo'[j] = todo[j]
      BY <1>7, EmptyTuple, FramesStay
    <2>2. ASSUME NEW e \in Event, reg'[e] # NotRegistered, got'[e] # Range(byProtocol'[reg'[e].p])
          PROVE  /\ reg[e] # NotRegistered /\ got[e] # Range(byProtocol[reg[e].p])
                 /\ reg'[e].p = reg[e].p
      <3>1. reg[e] # NotRegistered /\ reg'[e].p = reg[e].p
        BY <2>2, <1>15
      <3>2. reg[e].p \in Protocol
        BY <1>0, <3>1 DEF Types, Registrants
      <3>3. CASE reg[e].p = f.p
        <4>1. got'[e] = got[e] \ {k} /\ byProtocol'[reg'[e].p] = u
          BY <3>1, <3>3, <1>15, <1>22
        <4>2. Range(u) = Range(s) \ {k}
          BY <1>11, RangeIn
        <4> QED BY <3>1, <3>3, <4>1, <4>2, <2>2, <1>8
      <3>4. CASE reg[e].p # f.p
        BY <3>1, <3>2, <3>4, <2>2, <1>15, <1>22
      <3> QED BY <3>1, <3>3, <3>4
    <2> QED BY <1>0, <1>7, <2>1, <2>2 DEF NotMissed, NotRegistered
  <1>28. Removed(k)
    BY <1>2, <1>4, <1>5, <1>18, <1>20 DEF Removed
  <1> QED BY <1>4, <1>14, <1>19, <1>24, <1>25, <1>26, <1>27, <1>28 DEF IInv

LEMMA UninstallStep ==
    ASSUME IInv, TargetsStay, Uninstall
    PROVE  IInv' /\ (NoneMoved \/ \E k \in Prot : Removed(k))
  <1>1. PICK f : f = Last(todo)
    OBVIOUS
  <1>2. /\ Pure /\ f.op = "Uninstall" /\ FrameOK(f) /\ TargetOK(f, prot)
    BY <1>1, RunningIsPure DEF Uninstall
  <1>i. UNCHANGED interrupts
    BY DEF Uninstall
  <1>3. CASE Goto(<<>>) /\ UNCHANGED <<db, notes>>
    BY <1>2, <1>3, <1>i, PureNone
  <1>4. CASE /\ HasTarget(f)
             /\ \/ StopUsers(f, Target(f)) \/ Reconnect(f, Target(f), <<Denied>>)
                \/ Idle(f, Target(f)) /\ RemoveInterface(f)
    <2>1. PICK k : k = Target(f)
      OBVIOUS
    <2>2. /\ k \in Prot /\ f.h \in Handle /\ prot[k].h = f.h /\ prot[k].p = f.p /\ prot[k].i = f.i
          /\ prot[k].h # None
      BY <1>2, <1>4, <2>1, TargetFacts
    <2>3. CASE StopUsers(f, k)
      BY <1>2, <1>i, <2>2, <2>3, StopUsersStep
    <2>4. CASE Reconnect(f, k, <<Denied>>)
      BY <1>2, <1>i, <2>2, <2>4, ReconnectStep
    <2>5. CASE Idle(f, Target(f)) /\ RemoveInterface(f)
      BY <1>1, <1>2, <1>4, <1>i, <2>5, RemoveInterfaceStep
    <2> QED BY <1>4, <2>1, <2>3, <2>4, <2>5
  <1> QED BY <1>1, <1>3, <1>4 DEF Uninstall, NoTarget, Return

Replacing == \A x \in Prot : prot'[x].h = prot[x].h /\ prot'[x].p = prot[x].p

\* ReinstallProtocolInterface replaces an interface and moves it to the end of the list.
LEMMA MoveInterfaceStep ==
    ASSUME IInv, TargetsStay, Pure, NEW f, f = Last(todo), FrameOK(f), TargetOK(f, prot), f.op = "Reinstall",
           HasTarget(f), MoveInterface(f), UNCHANGED interrupts
    PROVE  IInv' /\ Replacing
  <1>0. /\ Types /\ Lists /\ Opened(prot) /\ StackOK(todo, prot, reg) /\ Registrants
        /\ SeenExactly /\ NotMissed /\ IsFrame(f) /\ f.to \in Interface
    BY DEF IInv, FrameOK
  <1>1. PICK t : t = Target(f)
    OBVIOUS
  <1>2. /\ t \in Prot /\ f.h \in Handle /\ prot[t].h = f.h /\ prot[t].p = f.p /\ prot[t].i = f.i
        /\ prot[t].h # None
    BY <1>1, TargetFacts
  <1>3. PICK k : k = FindProtocolInterface(f.h, f.p, f.i)
    OBVIOUS
  <1>4. k \in Prot /\ k # None /\ prot[k].h = f.h /\ prot[k].p = f.p
    BY <1>0, <1>2, <1>3, FindFacts, NoneFacts
  <1>5. prot[k].h # None /\ prot[k] # Freed /\ f.p \in Protocol
    BY <1>0, <1>2, <1>4, LiveFacts
  <1>g. PICK g : g = [f EXCEPT !.op = "Reinstalled"]
    OBVIOUS
  <1>d. PICK d : d = DoConnect(f.h)
    OBVIOUS
  <1>7. /\ BackUp(k) /\ Forget(k)
        /\ byProtocol' = [byProtocol EXCEPT ![f.p] = Append(RemoveEntryList(@, k), k)]
        /\ prot' = [Dropped(t) EXCEPT ![k].i = f.to]
        /\ Goto(<<g, d>>) /\ signalled' = signalled /\ handles' = handles /\ onHandle' = onHandle
    BY <1>1, <1>3, <1>4, <1>g, <1>d DEF MoveInterface, Enter
  <1>8. PICK s : s = byProtocol[f.p]
    OBVIOUS
  <1>9. PICK r : r = RemoveEntryList(s, k)
    OBVIOUS
  <1>w. PICK u : u = Append(r, k)
    OBVIOUS
  <1>10. s \in Seq(Prot) /\ Once(s) /\ In(k, s)
    BY <1>0, <1>4, <1>5, <1>8 DEF Types, Lists
  <1>11. r \in Seq(Prot) /\ Once(r) /\ \A x : In(x, r) <=> In(x, s) /\ x # k
    BY <1>9, <1>10, RemoveFacts
  <1>12. u \in Seq(Prot) /\ Once(u) /\ \A x : In(x, u) <=> In(x, s)
    <2>1. ~ In(k, r)
      BY <1>11
    <2>2. u \in Seq(Prot) /\ Once(u) /\ \A x : In(x, u) <=> In(x, r) \/ x = k
      BY <1>4, <1>11, <1>w, <2>1, AppendedFacts
    <2> QED BY <1>10, <1>11, <2>2
  <1>13. byProtocol' = [byProtocol EXCEPT ![f.p] = u]
    BY <1>0, <1>5, <1>7, <1>8, <1>9, <1>w DEF Types
  <1>a. Extends(u, r)
    <2> SUFFICES ASSUME NEW x, x = None \/ In(x, r)
                 PROVE  (x = None \/ In(x, u)) /\ UpTo(u, x) = UpTo(r, x)
      BY DEF Extends
    <2>1. ~ In(k, r)
      BY <1>11
    <2>2. UpTo(u, x) = UpTo(r, x)
      BY <1>4, <1>11, <1>w, <2>1, UpToAppended
    <2> QED BY <1>11, <1>12, <2>2
  <1>14. /\ SeenExactly' /\ Registrants'
         /\ \A e \in Event : reg[e] # NotRegistered => reg'[e] # NotRegistered
    <2>2. /\ byProtocol' = [byProtocol EXCEPT ![prot[k].p] = u]
          /\ Extends(u, RemoveEntryList(byProtocol[prot[k].p], k))
      BY <1>4, <1>8, <1>9, <1>13, <1>a
    <2> QED BY <1>4, <1>5, <1>7, <1>12, <2>2, SeenAfter
  <1>15. /\ reg' \in [Event -> [p : Protocol \cup {None}, pos : Prot \cup {None}]]
         /\ got' \in [Event -> SUBSET Prot]
         /\ \A e \in Event :
               /\ reg'[e].p = reg[e].p
               /\ reg'[e] = NotRegistered <=> reg[e] = NotRegistered
               /\ reg[e] # NotRegistered /\ reg[e].p # f.p => reg'[e] = reg[e] /\ got'[e] = got[e]
    <2>1. /\ reg' \in [Event -> [p : Protocol \cup {None}, pos : Prot \cup {None}]]
          /\ got' \in [Event -> SUBSET Prot]
          /\ \A e \in Event :
               /\ reg'[e].p = reg[e].p
               /\ reg'[e] = NotRegistered <=> reg[e] = NotRegistered
               /\ reg[e] # NotRegistered /\ reg[e].p # f.p => reg'[e] = reg[e] /\ got'[e] = got[e]
               /\ reg[e] # NotRegistered /\ reg[e].p = f.p =>
                     /\ got'[e] = got[e] \ {k}
                     /\ reg'[e].pos = None \/ In(reg'[e].pos, r)
                     /\ got'[e] = UpTo(r, reg'[e].pos)
               /\ got[e] = {} => got'[e] = {}
      BY <1>4, <1>5, <1>7, <1>8, <1>9, BackedUp
    <2> QED BY <2>1
  <1>16. PICK pr : pr = Dropped(t)
    OBVIOUS
  <1>17. /\ ProtTypes(pr) /\ Opened(pr) /\ \A x \in Prot : SameInterface(pr[x], prot[x])
         /\ \A x \in Prot : prot[x] = Freed => pr[x] = Freed
    BY <1>2, <1>16, DroppedFacts
  <1>q. PICK q : q = [pr[k] EXCEPT !.i = f.to]
    OBVIOUS
  <1>18. /\ prot' = [x \in Prot |-> prot'[x]]
         /\ prot'[k] = q /\ \A x \in Prot : x # k => prot'[x] = pr[x]
    <2>1. pr = [x \in Prot |-> pr[x]]
      BY <1>17 DEF ProtTypes
    <2>2. prot' = [x \in Prot |-> IF x = k THEN q ELSE pr[x]]
      BY <1>7, <1>16, <1>q, <2>1
    <2> QED BY <1>4, <2>2
  <1>19. IsProt(q) /\ q.h = f.h /\ q.p = f.p /\ q.i = f.to /\ q.open = pr[k].open
    <2>1. IsProt(pr[k]) /\ pr[k].h = f.h /\ pr[k].p = f.p
      BY <1>4, <1>17 DEF ProtTypes, SameInterface
    <2> QED BY <1>q, <2>1 DEF IsProt
  <1>20. ProtTypes(prot') /\ Opened(prot')
    BY <1>4, <1>17, <1>18, <1>19 DEF ProtTypes, Opened
  <1>21. \A x \in Prot : x # k => SameInterface(prot'[x], prot[x])
    BY <1>17, <1>18
  <1>r. Replacing
    BY <1>4, <1>18, <1>19, <1>21 DEF Replacing, SameInterface
  <1>22. /\ byProtocol'[f.p] = u /\ \A p \in Protocol : p # f.p => byProtocol'[p] = byProtocol[p]
         /\ byProtocol' \in [Protocol -> Seq(Prot)]
    BY <1>0, <1>5, <1>12, <1>13 DEF Types
  <1>24. Types'
    BY <1>0, <1>7, <1>15, <1>20, <1>22 DEF Types
  <1>25. Lists'
    <2>1. ASSUME NEW x \in Prot
          PROVE  \/ prot'[x] = Freed
                 \/ prot'[x].h \in handles /\ prot'[x].p \in Protocol /\ prot'[x].i \in Interface
      <3>1. CASE x = k
        BY <3>1, <1>0, <1>4, <1>5, <1>18, <1>19 DEF Lists
      <3>2. CASE x # k /\ prot[x] = Freed
        BY <3>2, <1>17, <1>18
      <3>3. CASE x # k /\ prot[x] # Freed
        BY <3>3, <1>0, <1>21 DEF SameInterface, Lists
      <3> QED BY <3>1, <3>2, <3>3
    <2>2. ASSUME NEW h \in Handle
          PROVE  /\ Once(onHandle[h]) /\ (h \in handles <=> onHandle[h] # <<>>)
                 /\ \A x \in Prot : In(x, onHandle[h]) <=> prot'[x].h = h
      BY <1>0, <1>r DEF Lists, Replacing
    <2>3. ASSUME NEW p \in Protocol
          PROVE  /\ Once(byProtocol'[p])
                 /\ \A x \in Prot : In(x, byProtocol'[p]) <=> prot'[x].p = p
      <3>1. CASE p = f.p
        <4>1. \A x \in Prot : In(x, u) <=> prot[x].p = p
          BY <3>1, <1>0, <1>8, <1>12 DEF Lists
        <4>2. byProtocol'[p] = u
          BY <3>1, <1>22
        <4>3. \A x \in Prot : In(x, u) <=> prot'[x].p = p
          BY <4>1, <1>r DEF Replacing
        <4> QED BY <4>2, <4>3, <1>12
      <3>2. CASE p # f.p
        <4>1. Once(byProtocol[p]) /\ \A x \in Prot : In(x, byProtocol[p]) <=> prot[x].p = p
          BY <1>0 DEF Lists
        <4> QED BY <3>2, <4>1, <1>r, <1>22 DEF Replacing
      <3> QED BY <3>1, <3>2
    <2> QED BY <2>1, <2>2, <2>3, <1>7, SMTT(30) DEF Lists, Freed
  <1>f. IsFrame(g) /\ g.op = "Reinstalled" /\ g.p = f.p
    BY <1>0, <1>g DEF IsFrame
  <1>p. Pushes(<<g, d>>, prot')
    <2>1. FrameOK(g)
      BY <1>5, <1>f DEF FrameOK, Installing, Listing, DriverOp
    <2>2. Fits(g, prot')
      BY <1>f, <2>1, OthersFit
    <2>3. Fits(d, prot')
      BY <1>d, ConnectAllFrame, IdlingFits
    <2> QED BY <2>2, <2>3, PushTwo DEF Fits
  <1>26. StackOK(todo', prot', reg')
    <2>1. \A j \in 1 .. Len(todo) - 1 : Working(todo[j]) =>
              SameInterface(prot'[todo[j].prot], prot[todo[j].prot])
      BY DEF TargetsStay
    <2>c. PICK c : c = <<g, d>>
      OBVIOUS
    <2>2. todo' = Front(todo) \o c /\ todo # <<>> /\ Pushes(c, prot')
      BY <1>7, <1>p, <2>c DEF Goto, Pure
    <2> QED BY <1>0, <1>14, <2>1, <2>2, StackKept
  <1>27. NotMissed'
    <2>1. /\ \A j \in DOMAIN todo : todo[j].op \in {"Locate", "Reinstalled"} =>
                j \in DOMAIN todo' /\ todo'[j] = todo[j]
          /\ \E j \in DOMAIN todo' : todo'[j] = g
      <3>1. PICK c : c = <<g, d>>
        OBVIOUS
      <3>2. IsSeq(c) /\ DOMAIN c = 1 .. 2 /\ c[1] = g
        BY <3>1, TupleTwo
      <3>3. /\ \A j \in DOMAIN todo : todo[j].op \in {"Locate", "Reinstalled"} =>
                  j \in DOMAIN todo' /\ todo'[j] = todo[j]
            /\ \A m \in DOMAIN c : \E j \in DOMAIN todo' : todo'[j] = c[m]
        BY <1>7, <3>1, <3>2, FramesStay
      <3>4. 1 \in DOMAIN c
        BY <3>2
      <3> QED BY <3>2, <3>3, <3>4
    <2>2. ASSUME NEW e \in Event, reg'[e] # NotRegistered, reg'[e].p # f.p,
                 got'[e] # Range(byProtocol'[reg'[e].p])
          PROVE  /\ reg[e] # NotRegistered /\ got[e] # Range(byProtocol[reg[e].p])
                 /\ reg'[e].p = reg[e].p
      <3>1. reg[e] # NotRegistered /\ reg'[e].p = reg[e].p
        BY <2>2, <1>15
      <3>2. reg[e].p \in Protocol
        BY <1>0, <3>1 DEF Types, Registrants
      <3> QED BY <3>1, <3>2, <2>2, <1>15, <1>22
    <2>3. \E j \in DOMAIN todo' : todo'[j].op = "Reinstalled" /\ todo'[j].p = f.p
      BY <2>1, <1>f
    <2>4. ASSUME NEW e \in Event, reg'[e] # NotRegistered, got'[e] # Range(byProtocol'[reg'[e].p])
          PROVE  \/ e \in signalled'
                 \/ \E j \in DOMAIN todo' : todo'[j].op = "Locate" /\ todo'[j].to = e
                 \/ \E j \in DOMAIN todo' : todo'[j].op = "Reinstalled" /\ todo'[j].p = reg'[e].p
      <3>1. CASE reg'[e].p = f.p
        BY <3>1, <2>3
      <3>2. CASE reg'[e].p # f.p
        <4>1. \/ e \in signalled
              \/ \E j \in DOMAIN todo : todo[j].op = "Locate" /\ todo[j].to = e
              \/ \E j \in DOMAIN todo : todo[j].op = "Reinstalled" /\ todo[j].p = reg'[e].p
          BY <1>0, <2>2, <2>4, <3>2 DEF NotMissed
        <4> QED BY <4>1, <1>7, <2>1
      <3> QED BY <3>1, <3>2
    <2> QED BY <2>4 DEF NotMissed, NotRegistered
  <1> QED BY <1>14, <1>20, <1>24, <1>25, <1>26, <1>27, <1>r DEF IInv

LEMMA ReinstallStep ==
    ASSUME IInv, TargetsStay, Reinstall
    PROVE  IInv' /\ (NoneMoved \/ Replacing)
  <1>1. PICK f : f = Last(todo)
    OBVIOUS
  <1>2. /\ Pure /\ f.op = "Reinstall" /\ FrameOK(f) /\ TargetOK(f, prot)
    BY <1>1, RunningIsPure DEF Reinstall
  <1>i. UNCHANGED interrupts
    BY DEF Reinstall
  <1>3. CASE Goto(<<>>) /\ UNCHANGED <<db, notes>>
    BY <1>2, <1>3, <1>i, PureNone
  <1>4. CASE Goto(<<Denied, DoConnect(f.h)>>) /\ UNCHANGED <<db, notes>>
    <2>1. PICK d : d = DoConnect(f.h)
      OBVIOUS
    <2>2. PICK e : e = Denied
      OBVIOUS
    <2>3. Fits(d, prot) /\ Fits(e, prot) /\ Goto(<<e, d>>)
      BY <1>4, <2>1, <2>2, ConnectAllFrame, DeniedFrame, IdlingFits
    <2> QED BY <1>2, <1>4, <1>i, <2>3, PureTwo
  <1>5. CASE /\ HasTarget(f)
             /\ \/ StopUsers(f, Target(f)) \/ Reconnect(f, Target(f), <<Denied, DoConnect(f.h)>>)
                \/ MoveInterface(f)
    <2>1. PICK k : k = Target(f)
      OBVIOUS
    <2>2. /\ k \in Prot /\ f.h \in Handle /\ prot[k].h = f.h /\ prot[k].p = f.p /\ prot[k].i = f.i
          /\ prot[k].h # None
      BY <1>2, <1>5, <2>1, TargetFacts
    <2>3. CASE StopUsers(f, k)
      BY <1>2, <1>i, <2>2, <2>3, StopUsersStep
    <2>4. CASE Reconnect(f, k, <<Denied, DoConnect(f.h)>>)
      BY <1>2, <1>i, <2>2, <2>4, ReconnectStep
    <2>5. CASE MoveInterface(f)
      BY <1>1, <1>2, <1>5, <1>i, <2>5, MoveInterfaceStep
    <2> QED BY <1>5, <2>1, <2>3, <2>4, <2>5
  <1> QED BY <1>1, <1>3, <1>4, <1>5 DEF Reinstall, NoTarget, Return, Enter

-----------------------------------------------------------------------------
(* Adding an interface *)

Added(k) ==
    /\ k \in Prot /\ prot[k] = Freed
    /\ \A x \in Prot : x # k => prot'[x] = prot[x]

\* InstallProtocolInterface adds an interface to both lists.
LEMMA AddInterfaceStep ==
    ASSUME IInv, Pure, NEW h \in Handle, NEW k \in Prot, prot[k] = Freed, NEW p \in Protocol,
           NEW i \in Interface, AddInterface(k, h, p, i), NotifyProtocolEntry(p), Goto(<<>>),
           UNCHANGED <<reg, got, interrupts>>
    PROVE  IInv' /\ prot'[k].h = h /\ prot'[k].p = p /\ \A x \in Prot : x # k => prot'[x] = prot[x]
  <1>0. /\ Types /\ Lists /\ Opened(prot) /\ StackOK(todo, prot, reg) /\ Registrants
        /\ SeenExactly /\ NotMissed /\ h # None /\ p # None
    BY NoneFacts DEF IInv
  <1>1. PICK r : r = [h |-> h, p |-> p, i |-> i, open |-> {}]
    OBVIOUS
  <1>2. /\ IsProt(r) /\ r.h = h /\ r.p = p /\ r.i = i /\ r.open = {} /\ OpenOK(r.open)
    BY <1>1 DEF IsProt, OpenOK, DriverOpens
  <1>3. prot' = [prot EXCEPT ![k] = r]
    BY <1>1 DEF AddInterface
  <1>4. /\ prot' = [x \in Prot |-> prot'[x]] /\ prot'[k] = r
        /\ \A x \in Prot : x # k => prot'[x] = prot[x]
    <2>1. prot = [x \in Prot |-> prot[x]]
      BY <1>0 DEF Types, ProtTypes
    <2>2. prot' = [x \in Prot |-> IF x = k THEN r ELSE prot[x]]
      BY <1>3, <2>1
    <2> QED BY <2>2
  <1>5. ProtTypes(prot') /\ Opened(prot')
    BY <1>0, <1>2, <1>4 DEF Types, ProtTypes, Opened
  <1>6. prot[k].h = None /\ prot[k].p = None
    BY FreedFacts
  <1>7. PICK l : l = <<k>> \o onHandle[h]
    OBVIOUS
  <1>8. PICK s : s = byProtocol[p]
    OBVIOUS
  <1>9. PICK u : u = Append(s, k)
    OBVIOUS
  <1>10. /\ onHandle[h] \in Seq(Prot) /\ Once(onHandle[h]) /\ ~ In(k, onHandle[h])
         /\ s \in Seq(Prot) /\ Once(s) /\ ~ In(k, s)
    BY <1>0, <1>6, <1>8 DEF Types, Lists
  <1>11. l \in Seq(Prot) /\ Once(l) /\ l # <<>> /\ \A x : In(x, l) <=> In(x, onHandle[h]) \/ x = k
    BY <1>7, <1>10, ConsFacts
  <1>12. u \in Seq(Prot) /\ Once(u) /\ \A x : In(x, u) <=> In(x, s) \/ x = k
    BY <1>9, <1>10, AppendedFacts
  <1>13. /\ onHandle' = [onHandle EXCEPT ![h] = l] /\ byProtocol' = [byProtocol EXCEPT ![p] = u]
         /\ handles' = handles \cup {h}
    BY <1>0, <1>7, <1>8, <1>9 DEF AddInterface, Types
  <1>14. /\ onHandle'[h] = l /\ \A x \in Handle : x # h => onHandle'[x] = onHandle[x]
         /\ byProtocol'[p] = u /\ \A x \in Protocol : x # p => byProtocol'[x] = byProtocol[x]
         /\ onHandle' \in [Handle -> Seq(Prot)] /\ byProtocol' \in [Protocol -> Seq(Prot)]
    BY <1>0, <1>11, <1>12, <1>13 DEF Types
  <1>15. /\ signalled \subseteq signalled' /\ signalled' \subseteq Event
         /\ \A e \in Event : e \in signalled' <=> e \in signalled \/ reg[e].p = p
    BY <1>0 DEF NotifyProtocolEntry, Registered, Types
  <1>16. reg' = reg /\ got' = got /\ interrupts' = interrupts
    OBVIOUS
  <1>17. Types'
    BY <1>0, <1>5, <1>13, <1>14, <1>15, <1>16 DEF Types
  <1>18. Lists'
    <2>1. ASSUME NEW x \in Prot
          PROVE  \/ prot'[x] = Freed
                 \/ prot'[x].h \in handles' /\ prot'[x].p \in Protocol /\ prot'[x].i \in Interface
      BY <1>0, <1>2, <1>4, <1>13 DEF Lists
    <2>2. ASSUME NEW g \in Handle
          PROVE  /\ Once(onHandle'[g]) /\ (g \in handles' <=> onHandle'[g] # <<>>)
                 /\ \A x \in Prot : In(x, onHandle'[g]) <=> prot'[x].h = g
      <3>0. /\ Once(onHandle[g]) /\ (g \in handles <=> onHandle[g] # <<>>)
            /\ \A x \in Prot : In(x, onHandle[g]) <=> prot[x].h = g
            /\ g # None
        BY <1>0, NoneFacts DEF Lists
      <3>1. CASE g = h
        <4>1. onHandle'[g] = l /\ g \in handles'
          BY <3>1, <1>13, <1>14
        <4>2. \A x \in Prot : In(x, l) <=> prot'[x].h = g
          BY <3>0, <3>1, <1>2, <1>4, <1>11
        <4> QED BY <4>1, <4>2, <1>11
      <3>2. CASE g # h
        <4>1. onHandle'[g] = onHandle[g] /\ (g \in handles' <=> g \in handles)
          BY <3>2, <1>13, <1>14
        <4>2. \A x \in Prot : prot[x].h = g <=> prot'[x].h = g
          BY <3>0, <3>2, <1>2, <1>4, <1>6
        <4> QED BY <3>0, <4>1, <4>2
      <3> QED BY <3>1, <3>2
    <2>3. ASSUME NEW q \in Protocol
          PROVE  /\ Once(byProtocol'[q])
                 /\ \A x \in Prot : In(x, byProtocol'[q]) <=> prot'[x].p = q
      <3>0. /\ Once(byProtocol[q]) /\ \A x \in Prot : In(x, byProtocol[q]) <=> prot[x].p = q
            /\ q # None
        BY <1>0, NoneFacts DEF Lists
      <3>1. CASE q = p
        <4>1. byProtocol'[q] = u
          BY <3>1, <1>14
        <4>2. \A x \in Prot : In(x, u) <=> prot'[x].p = q
          BY <3>0, <3>1, <1>2, <1>4, <1>8, <1>12
        <4> QED BY <4>1, <4>2, <1>12
      <3>2. CASE q # p
        <4>1. byProtocol'[q] = byProtocol[q]
          BY <3>2, <1>14
        <4>2. \A x \in Prot : prot[x].p = q <=> prot'[x].p = q
          BY <3>0, <3>2, <1>2, <1>4, <1>6
        <4> QED BY <3>0, <4>1, <4>2
      <3> QED BY <3>1, <3>2
    <2> QED BY <2>1, <2>2, <2>3 DEF Lists, Freed
  <1>19. StackOK(todo', prot', reg')
    <2>1. ASSUME NEW j \in 1 .. Len(todo) - 1, Working(todo[j])
          PROVE  SameInterface(prot'[todo[j].prot], prot[todo[j].prot])
      <3>1. j \in DOMAIN todo
        BY <1>0, IsSeqFacts DEF StackOK
      <3>2. todo[j].prot \in Prot /\ todo[j].h \in Handle /\ prot[todo[j].prot].h = todo[j].h
        BY <1>0, <2>1, <3>1 DEF StackOK, TargetOK
      <3>3. todo[j].prot # k
        BY <3>2, <1>6, NoneFacts
      <3> QED BY <3>2, <3>3, <1>4 DEF SameInterface
    <2>2. Pushes(<<>>, prot') /\ todo' = Front(todo) \o <<>> /\ todo # <<>>
      BY PushNone DEF Goto, Pure
    <2> QED BY <1>0, <1>16, <2>1, <2>2, StackKept
  <1>20. Registrants'
    BY <1>0, <1>15, <1>16 DEF Registrants, NotRegistered
  <1>21. SeenExactly'
    <2>1. ASSUME NEW e \in Event, reg[e] # NotRegistered
          PROVE  /\ reg[e].pos \in {None} \cup Range(byProtocol'[reg[e].p])
                 /\ got[e] = UpTo(byProtocol'[reg[e].p], reg[e].pos)
      <3>1. /\ reg[e].pos = None \/ In(reg[e].pos, byProtocol[reg[e].p])
            /\ got[e] = UpTo(byProtocol[reg[e].p], reg[e].pos)
        <4>1. /\ reg[e].pos \in {None} \cup Range(byProtocol[reg[e].p])
              /\ got[e] = UpTo(byProtocol[reg[e].p], reg[e].pos)
          BY <1>0, <2>1 DEF SeenExactly
        <4> QED BY <4>1, RangeIn
      <3>2. reg[e].p \in Protocol
        BY <1>0, <2>1 DEF Types, Registrants
      <3>3. CASE reg[e].p = p
        <4>1. PICK x : x = reg[e].pos
          OBVIOUS
        <4>2. x = None \/ In(x, s)
          BY <3>1, <3>3, <4>1, <1>8
        <4>3. UpTo(u, x) = UpTo(s, x)
          BY <4>2, <1>9, <1>10, UpToAppended
        <4>4. x = None \/ In(x, u)
          BY <4>2, <1>12
        <4> QED BY <3>1, <3>3, <4>1, <4>3, <4>4, <1>8, <1>14, RangeIn
      <3>4. CASE reg[e].p # p
        <4>1. byProtocol'[reg[e].p] = byProtocol[reg[e].p]
          BY <3>2, <3>4, <1>14
        <4> QED BY <3>1, <4>1, RangeIn
      <3> QED BY <3>3, <3>4
    <2> QED BY <2>1, <1>16 DEF SeenExactly, NotRegistered
  <1>22. NotMissed'
    <2>1. \A j \in DOMAIN todo : todo[j].op \in {"Locate", "Reinstalled"} =>
              j \in DOMAIN todo' /\ todo'[j] = todo[j]
      BY EmptyTuple, FramesStay
    <2>2. ASSUME NEW e \in Event, reg[e] # NotRegistered, got[e] # Range(byProtocol'[reg[e].p])
          PROVE  \/ e \in signalled'
                 \/ \E j \in DOMAIN todo' : todo'[j].op = "Locate" /\ todo'[j].to = e
                 \/ \E j \in DOMAIN todo' : todo'[j].op = "Reinstalled" /\ todo'[j].p = reg[e].p
      <3>1. CASE reg[e].p = p
        BY <3>1, <1>15
      <3>2. CASE reg[e].p # p
        <4>1. reg[e].p \in Protocol
          BY <1>0, <2>2 DEF Types, Registrants
        <4>2. byProtocol'[reg[e].p] = byProtocol[reg[e].p]
          BY <3>2, <4>1, <1>14
        <4>3. \/ e \in signalled
              \/ \E j \in DOMAIN todo : todo[j].op = "Locate" /\ todo[j].to = e
              \/ \E j \in DOMAIN todo : todo[j].op = "Reinstalled" /\ todo[j].p = reg[e].p
          BY <1>0, <2>2, <4>2 DEF NotMissed
        <4> QED BY <4>3, <1>15, <2>1
      <3> QED BY <3>1, <3>2
    <2> QED BY <2>2, <1>16 DEF NotMissed, NotRegistered
  <1> QED BY <1>2, <1>4, <1>5, <1>17, <1>18, <1>19, <1>20, <1>21, <1>22 DEF IInv

LEMMA InstallLockedStep ==
    ASSUME IInv, InstallLocked
    PROVE  IInv' /\ (NoneMoved \/ \E k \in Prot : Added(k))
  <1>1. PICK f : f = Last(todo)
    OBVIOUS
  <1>2. /\ Pure /\ f.op = "InstallLocked" /\ FrameOK(f)
    BY <1>1, RunningIsPure DEF InstallLocked
  <1>u. UNCHANGED <<reg, got, interrupts>>
    BY DEF InstallLocked
  <1>3. CASE Goto(<<>>) /\ UNCHANGED <<db, signalled>>
    <2>1. UNCHANGED <<db, notes, interrupts>>
      BY <1>3, <1>u DEF notes
    <2> QED BY <1>2, <1>3, <2>1, PureNone
  <1>4. CASE ~(Goto(<<>>) /\ UNCHANGED <<db, signalled>>)
    <2>1. PICK h : h = CHOOSE x \in HandleFor(f) : TRUE
      OBVIOUS
    <2>2. PICK k : k = CHOOSE x \in FreeProt : TRUE
      OBVIOUS
    <2>3. /\ FreeProt # {} /\ HandleFor(f) # {} /\ (f.h = New \/ f.h \in handles)
          /\ AddInterface(k, h, f.p, f.i) /\ NotifyProtocolEntry(f.p) /\ Goto(<<>>)
      BY <1>1, <1>4, <2>1, <2>2 DEF InstallLocked, Return
    <2>4. k \in Prot /\ prot[k] = Freed
      BY <2>2, <2>3 DEF FreeProt
    <2>5. Types /\ Lists
      BY DEF IInv
    <2>6. h \in Handle /\ (h \notin handles \/ (h = f.h /\ h \in handles))
      <3>1. h \in HandleFor(f)
        BY <2>1, <2>3
      <3> QED BY <2>3, <2>5, <3>1 DEF HandleFor, Types
    <2>7. f.p \in Protocol /\ f.i \in Interface
      BY <1>2 DEF FrameOK, Installing
    <2>8. IInv' /\ prot'[k].h = h /\ prot'[k].p = f.p /\ \A x \in Prot : x # k => prot'[x] = prot[x]
      BY <1>2, <1>u, <2>3, <2>4, <2>6, <2>7, AddInterfaceStep
    <2>9. Added(k)
      BY <2>4, <2>8 DEF Added
    <2> QED BY <2>4, <2>8, <2>9
  <1> QED BY <1>3, <1>4

-----------------------------------------------------------------------------
(* Registrations *)

\* At the end of ReinstallProtocolInterface the registrants are signalled.
LEMMA ReinstalledStep ==
    ASSUME IInv, Reinstalled
    PROVE  IInv' /\ NoneMoved
  <1>0. /\ Types /\ Lists /\ Opened(prot) /\ StackOK(todo, prot, reg) /\ Registrants
        /\ SeenExactly /\ NotMissed
    BY DEF IInv
  <1>1. PICK f : f = Last(todo)
    OBVIOUS
  <1>2. todo # <<>> /\ f.op = "Reinstalled" /\ FrameOK(f)
    BY <1>1, TopFacts DEF Reinstalled
  <1>3. f.p \in Protocol /\ f.p # None
    BY <1>2, NoneFacts DEF FrameOK
  <1>4. /\ handles' = handles /\ prot' = prot /\ onHandle' = onHandle /\ byProtocol' = byProtocol
        /\ reg' = reg /\ got' = got /\ interrupts' = interrupts
        /\ todo' = Front(todo) \o <<>> /\ signalled' = signalled \cup Registered(f.p)
    BY <1>1 DEF Reinstalled, db, Return, Goto, NotifyProtocolEntry
  <1>5. /\ signalled' \subseteq Event
        /\ \A e \in Event : e \in signalled' <=> e \in signalled \/ reg[e].p = f.p
    BY <1>0, <1>4 DEF Registered, Types
  <1>6. Types' /\ Lists' /\ Opened(prot')
    BY <1>0, <1>4, <1>5 DEF Types, Lists, Freed
  <1>7. StackOK(todo', prot', reg')
    BY <1>0, <1>2, <1>4, PushNone, StackKept DEF SameInterface
  <1>8. Registrants' /\ SeenExactly'
    BY <1>0, <1>3, <1>4, <1>5 DEF Registrants, SeenExactly, NotRegistered
  <1>9. NotMissed'
    <2>1. Replaced(todo, <<>>, todo')
      BY <1>0, <1>2, <1>4, EmptyTuple, GotoFacts DEF StackOK
    <2>2. \A j \in DOMAIN todo : (j \in DOMAIN todo' /\ todo'[j] = todo[j]) \/ todo[j] = f
      BY <1>1, <2>1 DEF Replaced
    <2>3. ASSUME NEW e \in Event, reg[e] # NotRegistered, got[e] # Range(byProtocol[reg[e].p])
          PROVE  \/ e \in signalled'
                 \/ \E j \in DOMAIN todo' : todo'[j].op = "Locate" /\ todo'[j].to = e
                 \/ \E j \in DOMAIN todo' : todo'[j].op = "Reinstalled" /\ todo'[j].p = reg[e].p
      <3>1. \/ e \in signalled
            \/ \E j \in DOMAIN todo : todo[j].op = "Locate" /\ todo[j].to = e
            \/ \E j \in DOMAIN todo : todo[j].op = "Reinstalled" /\ todo[j].p = reg[e].p
        BY <1>0, <2>3 DEF NotMissed
      <3> QED BY <3>1, <1>2, <1>5, <2>2
    <2> QED BY <2>3, <1>4 DEF NotMissed, NotRegistered
  <1>10. NoneMoved
    BY <1>4 DEF NoneMoved, SameInterface
  <1> QED BY <1>6, <1>7, <1>8, <1>9, <1>10 DEF IInv

\* The list up to the next position.
LEMMA NextFacts ==
    ASSUME NEW S, NEW s \in Seq(S), Once(s), None \notin S, NEW x, x = None \/ In(x, s),
           NEW j, j = IF x = None THEN 1 ELSE 1 + Place(s, x)
    PROVE  /\ j \in DOMAIN s => s[j] \in S /\ UpTo(s, s[j]) = UpTo(s, x) \cup {s[j]}
           /\ j \notin DOMAIN s => UpTo(s, x) = Range(s)
  <1>0. Len(s) \in Nat /\ DOMAIN s = 1 .. Len(s)
    OBVIOUS
  <1>1. j \in Nat \ {0} /\ j - 1 \in 0 .. Len(s) /\ UpTo(s, x) = {s[m] : m \in 1 .. j - 1}
    <2>1. CASE x = None
      <3>1. 1 .. j - 1 = {} /\ UpTo(s, x) = {}
        BY <2>1 DEF UpTo
      <3> QED BY <2>1, <3>1, <1>0
    <2>2. CASE x # None
      <3>1. Place(s, x) \in 1 .. Len(s)
        BY <2>2, <1>0, PlaceFacts
      <3>2. j - 1 = Place(s, x) /\ j \in Nat \ {0}
        BY <2>2, <3>1
      <3> QED BY <2>2, <3>1, <3>2, <1>0 DEF UpTo
    <2> QED BY <2>1, <2>2
  <1>2. ASSUME j \in DOMAIN s
        PROVE  s[j] \in S /\ UpTo(s, s[j]) = UpTo(s, x) \cup {s[j]}
    <2>1. s[j] \in S /\ s[j] # None /\ Place(s, s[j]) = j
      BY <1>2, PlaceOnce
    <2>2. UpTo(s, s[j]) = {s[m] : m \in 1 .. j}
      BY <2>1 DEF UpTo
    <2>3. \A m : m \in 1 .. j <=> m \in 1 .. j - 1 \/ m = j
      BY <1>1
    <2> QED BY <1>1, <2>1, <2>2, <2>3
  <1>3. ASSUME j \notin DOMAIN s
        PROVE  UpTo(s, x) = Range(s)
    <2>1. j - 1 = Len(s)
      BY <1>0, <1>1, <1>3
    <2> QED BY <1>0, <1>1, <2>1 DEF Range
  <1> QED BY <1>2, <1>3

\* LocateHandle by registration moves the position by one.
LEMMA LocateHandleStep ==
    ASSUME IInv, LocateHandle
    PROVE  IInv' /\ NoneMoved
  <1>0. /\ Types /\ Lists /\ Opened(prot) /\ StackOK(todo, prot, reg) /\ Registrants
        /\ SeenExactly /\ NotMissed
    BY DEF IInv
  <1>1. PICK f : f = Last(todo)
    OBVIOUS
  <1>2. todo # <<>> /\ f.op = "Locate" /\ FrameOK(f)
    BY <1>1, TopFacts DEF LocateHandle
  <1>e. PICK e : e = f.to
    OBVIOUS
  <1>3. Len(todo) \in DOMAIN todo /\ f = todo[Len(todo)]
    BY <1>0, <1>1, <1>2, FrontFacts DEF StackOK
  <1>4. e \in Event /\ reg[e] # NotRegistered
    BY <1>0, <1>2, <1>3, <1>e DEF FrameOK, StackOK, LocateOK
  <1>5. reg[e].p \in Protocol
    BY <1>0, <1>4 DEF Types, Registrants
  <1>s. PICK s : s = byProtocol[reg[e].p]
    OBVIOUS
  <1>x. PICK x : x = reg[e].pos
    OBVIOUS
  <1>j. PICK j : j = IF x = None THEN 1 ELSE 1 + Place(s, x)
    OBVIOUS
  <1>6. s \in Seq(Prot) /\ Once(s) /\ None \notin Prot
    BY <1>0, <1>5, <1>s, NoneFacts DEF Types, Lists
  <1>7. (x = None \/ In(x, s)) /\ got[e] = UpTo(s, x)
    <2>1. x \in {None} \cup Range(s) /\ got[e] = UpTo(s, x)
      BY <1>0, <1>4, <1>s, <1>x DEF SeenExactly
    <2> QED BY <2>1, RangeIn
  <1>8. /\ j \in DOMAIN s => s[j] \in Prot /\ UpTo(s, s[j]) = UpTo(s, x) \cup {s[j]}
        /\ j \notin DOMAIN s => UpTo(s, x) = Range(s)
    BY <1>6, <1>7, <1>j, NextFacts
  <1>9. j = NextPosition(e)
    BY <1>s, <1>x, <1>j DEF NextPosition
  <1>u. /\ handles' = handles /\ prot' = prot /\ onHandle' = onHandle /\ byProtocol' = byProtocol
        /\ signalled' = signalled /\ interrupts' = interrupts
    BY DEF LocateHandle, db
  <1>m. NoneMoved
    BY <1>u DEF NoneMoved, SameInterface
  <1>l. Lists' /\ Opened(prot')
    BY <1>0, <1>u DEF Lists, Freed
  <1>10. CASE j \in DOMAIN s
    <2>1. PICK y : y = s[j]
      OBVIOUS
    <2>2. /\ reg' = [reg EXCEPT ![e].pos = y] /\ got' = [got EXCEPT ![e] = @ \cup {y}]
          /\ todo' = todo
      BY <1>1, <1>e, <1>s, <1>9, <1>10, <2>1 DEF LocateHandle
    <2>3. y \in Prot /\ In(y, s) /\ UpTo(s, y) = UpTo(s, x) \cup {y}
      BY <1>8, <1>10, <2>1 DEF In
    <2>4. /\ reg[e] \in [p : Protocol \cup {None}, pos : Prot \cup {None}]
          /\ reg \in [Event -> [p : Protocol \cup {None}, pos : Prot \cup {None}]]
          /\ got \in [Event -> SUBSET Prot]
      BY <1>0, <1>4 DEF Types
    <2>5. /\ reg' \in [Event -> [p : Protocol \cup {None}, pos : Prot \cup {None}]]
          /\ reg'[e].p = reg[e].p /\ reg'[e].pos = y
          /\ \A d \in Event : d # e => reg'[d] = reg[d] /\ got'[d] = got[d]
          /\ got' \in [Event -> SUBSET Prot] /\ got'[e] = got[e] \cup {y}
      BY <1>4, <2>2, <2>3, <2>4
    <2>6. reg'[e] # NotRegistered
      BY <1>5, <2>5, NoneFacts DEF NotRegistered
    <2>7. Types'
      BY <1>0, <1>u, <2>5 DEF Types
    <2>8. StackOK(todo', prot', reg')
      <3>1. \A d \in Event : reg[d] # NotRegistered => reg'[d] # NotRegistered
        BY <2>5, <2>6
      <3>2. ASSUME NEW i \in DOMAIN todo
            PROVE  FrameOK(todo[i]) /\ TargetOK(todo[i], prot) /\ LocateOK(todo, i, reg')
        <4>1. FrameOK(todo[i]) /\ TargetOK(todo[i], prot) /\ LocateOK(todo, i, reg)
          BY <1>0 DEF StackOK
        <4> QED BY <3>1, <4>1 DEF LocateOK, FrameOK
      <3> QED BY <1>0, <1>u, <2>2, <3>2 DEF StackOK
    <2>9. Registrants'
      BY <1>0, <1>4, <1>5, <1>u, <2>5, <2>6, NoneFacts DEF Registrants, NotRegistered
    <2>10. SeenExactly'
      <3>1. ASSUME NEW d \in Event, reg'[d] # NotRegistered
            PROVE  /\ reg'[d].pos \in {None} \cup Range(byProtocol[reg'[d].p])
                   /\ got'[d] = UpTo(byProtocol[reg'[d].p], reg'[d].pos)
        <4>1. CASE d = e
          BY <4>1, <2>3, <2>5, <1>7, <1>s, RangeIn
        <4>2. CASE d # e
          BY <4>2, <3>1, <2>5, <1>0 DEF SeenExactly
        <4> QED BY <4>1, <4>2
      <3> QED BY <3>1, <1>u DEF SeenExactly, NotRegistered
    <2>11. NotMissed'
      <3>1. ASSUME NEW d \in Event, reg'[d] # NotRegistered, got'[d] # Range(byProtocol[reg'[d].p])
            PROVE  \/ d \in signalled
                   \/ \E i \in DOMAIN todo : todo[i].op = "Locate" /\ todo[i].to = d
                   \/ \E i \in DOMAIN todo : todo[i].op = "Reinstalled" /\ todo[i].p = reg'[d].p
        <4>1. CASE d = e
          BY <4>1, <1>2, <1>3, <1>e
        <4>2. CASE d # e
          BY <4>2, <3>1, <2>5, <1>0 DEF NotMissed
        <4> QED BY <4>1, <4>2
      <3> QED BY <3>1, <1>u, <2>2 DEF NotMissed, NotRegistered
    <2> QED BY <1>l, <1>m, <2>7, <2>8, <2>9, <2>10, <2>11 DEF IInv
  <1>11. CASE j \notin DOMAIN s
    <2>1. reg' = reg /\ got' = got /\ todo' = Front(todo) \o <<>>
      BY <1>1, <1>e, <1>s, <1>9, <1>11 DEF LocateHandle, Return, Goto
    <2>2. got[e] = Range(byProtocol[reg[e].p])
      BY <1>7, <1>8, <1>11, <1>s
    <2>3. Types'
      BY <1>0, <1>u, <2>1 DEF Types
    <2>4. StackOK(todo', prot', reg')
      BY <1>0, <1>2, <1>u, <2>1, PushNone, StackKept DEF SameInterface
    <2>5. Registrants' /\ SeenExactly'
      BY <1>0, <1>u, <2>1 DEF Registrants, SeenExactly, NotRegistered
    <2>6. NotMissed'
      <3>1. Replaced(todo, <<>>, todo')
        BY <1>0, <1>2, <2>1, EmptyTuple, GotoFacts DEF StackOK
      <3>2. \A i \in DOMAIN todo : (i \in DOMAIN todo' /\ todo'[i] = todo[i]) \/ todo[i] = f
        BY <1>1, <3>1 DEF Replaced
      <3>3. ASSUME NEW d \in Event, reg[d] # NotRegistered, got[d] # Range(byProtocol[reg[d].p])
            PROVE  \/ d \in signalled
                   \/ \E i \in DOMAIN todo' : todo'[i].op = "Locate" /\ todo'[i].to = d
                   \/ \E i \in DOMAIN todo' : todo'[i].op = "Reinstalled" /\ todo'[i].p = reg[d].p
        <4>1. d # e
          BY <2>2, <3>3
        <4>2. \/ d \in signalled
              \/ \E i \in DOMAIN todo : todo[i].op = "Locate" /\ todo[i].to = d
              \/ \E i \in DOMAIN todo : todo[i].op = "Reinstalled" /\ todo[i].p = reg[d].p
          BY <1>0, <3>3 DEF NotMissed
        <4> QED BY <4>1, <4>2, <3>2, <1>2, <1>e
      <3> QED BY <3>3, <1>u, <2>1 DEF NotMissed, NotRegistered
    <2> QED BY <1>l, <1>m, <2>3, <2>4, <2>5, <2>6 DEF IInv
  <1> QED BY <1>10, <1>11

LEMMA RegisteringFacts ==
    ASSUME Types, Registering
    PROVE  todo' = todo /\ interrupts' \in 0 .. MaxCallbacks /\ (todo = <<>> \/ CanInterrupt)
  BY HandlesAssumption DEF Types, Registering

LEMMA RegisterStep ==
    ASSUME IInv, NEW e \in Event, NEW p \in Watch, RegisterProtocolNotify(e, p)
    PROVE  IInv' /\ NoneMoved
  <1>0. /\ Types /\ Lists /\ Opened(prot) /\ StackOK(todo, prot, reg) /\ Registrants
        /\ SeenExactly /\ NotMissed
    BY DEF IInv
  <1>1. p \in Protocol /\ p # None
    BY HandlesAssumption
  <1>2. todo' = todo /\ interrupts' \in 0 .. MaxCallbacks
    BY <1>0, RegisteringFacts DEF RegisterProtocolNotify
  <1>3. /\ handles' = handles /\ prot' = prot /\ onHandle' = onHandle /\ byProtocol' = byProtocol
        /\ got' = got /\ signalled' = signalled \cup {e} /\ reg[e] = NotRegistered
        /\ reg' = [reg EXCEPT ![e] = [p |-> p, pos |-> None]]
    BY DEF RegisterProtocolNotify, db
  <1>4. /\ reg' \in [Event -> [p : Protocol \cup {None}, pos : Prot \cup {None}]]
        /\ reg'[e].p = p /\ reg'[e].pos = None /\ \A d \in Event : d # e => reg'[d] = reg[d]
    BY <1>0, <1>1, <1>3 DEF Types
  <1>5. reg'[e] # NotRegistered /\ got[e] = {}
    BY <1>0, <1>1, <1>3, <1>4 DEF NotRegistered, Registrants
  <1>6. Types' /\ Lists' /\ Opened(prot')
    BY <1>0, <1>2, <1>3, <1>4 DEF Types, Lists, Freed
  <1>7. StackOK(todo', prot', reg')
    <2>1. \A d \in Event : reg[d] # NotRegistered => reg'[d] # NotRegistered
      BY <1>4, <1>5
    <2>2. ASSUME NEW i \in DOMAIN todo
          PROVE  FrameOK(todo[i]) /\ TargetOK(todo[i], prot) /\ LocateOK(todo, i, reg')
      <3>1. FrameOK(todo[i]) /\ TargetOK(todo[i], prot) /\ LocateOK(todo, i, reg)
        BY <1>0 DEF StackOK
      <3> QED BY <2>1, <3>1 DEF LocateOK, FrameOK
    <2> QED BY <1>0, <1>2, <1>3, <2>2 DEF StackOK
  <1>8. Registrants'
    BY <1>0, <1>1, <1>3, <1>4, <1>5 DEF Registrants, NotRegistered
  <1>9. SeenExactly'
    <2>1. ASSUME NEW d \in Event, reg'[d] # NotRegistered
          PROVE  /\ reg'[d].pos \in {None} \cup Range(byProtocol[reg'[d].p])
                 /\ got[d] = UpTo(byProtocol[reg'[d].p], reg'[d].pos)
      <3>1. CASE d = e
        BY <3>1, <1>4, <1>5 DEF UpTo
      <3>2. CASE d # e
        BY <3>2, <2>1, <1>0, <1>4 DEF SeenExactly
      <3> QED BY <3>1, <3>2
    <2> QED BY <2>1, <1>3 DEF SeenExactly, NotRegistered
  <1>10. NotMissed'
    <2>1. ASSUME NEW d \in Event, reg'[d] # NotRegistered, got[d] # Range(byProtocol[reg'[d].p])
          PROVE  \/ d \in signalled'
                 \/ \E i \in DOMAIN todo : todo[i].op = "Locate" /\ todo[i].to = d
                 \/ \E i \in DOMAIN todo : todo[i].op = "Reinstalled" /\ todo[i].p = reg'[d].p
      <3>1. CASE d = e
        BY <3>1, <1>3
      <3>2. CASE d # e
        BY <3>2, <2>1, <1>0, <1>3, <1>4 DEF NotMissed
      <3> QED BY <3>1, <3>2
    <2> QED BY <2>1, <1>2, <1>3 DEF NotMissed, NotRegistered
  <1>11. NoneMoved
    BY <1>3 DEF NoneMoved, SameInterface
  <1> QED BY <1>6, <1>7, <1>8, <1>9, <1>10, <1>11 DEF IInv

LEMMA UnregisterStep ==
    ASSUME IInv, NEW e \in Event, UnregisterProtocolNotify(e)
    PROVE  IInv' /\ NoneMoved
  <1>0. /\ Types /\ Lists /\ Opened(prot) /\ StackOK(todo, prot, reg) /\ Registrants
        /\ SeenExactly /\ NotMissed
    BY DEF IInv
  <1>2. todo' = todo /\ interrupts' \in 0 .. MaxCallbacks /\ (todo = <<>> \/ CanInterrupt)
    BY <1>0, RegisteringFacts DEF UnregisterProtocolNotify
  <1>3. /\ handles' = handles /\ prot' = prot /\ onHandle' = onHandle /\ byProtocol' = byProtocol
        /\ got' = [got EXCEPT ![e] = {}] /\ signalled' = signalled \ {e}
        /\ reg' = [reg EXCEPT ![e] = NotRegistered]
    BY DEF UnregisterProtocolNotify, db
  <1>4. /\ NotRegistered \in [p : Protocol \cup {None}, pos : Prot \cup {None}]
        /\ reg'[e] = NotRegistered /\ got'[e] = {}
        /\ \A d \in Event : d # e => reg'[d] = reg[d] /\ got'[d] = got[d]
    BY <1>0, <1>3 DEF Types, NotRegistered
  <1>5. /\ reg' \in [Event -> [p : Protocol \cup {None}, pos : Prot \cup {None}]]
        /\ got' \in [Event -> SUBSET Prot]
    BY <1>0, <1>3, <1>4 DEF Types
  <1>6. Types' /\ Lists' /\ Opened(prot')
    BY <1>0, <1>2, <1>3, <1>5 DEF Types, Lists, Freed
  <1>7. StackOK(todo', prot', reg')
    <2>1. ASSUME NEW i \in DOMAIN todo PROVE todo[i].op # "Locate"
      <3>1. CanInterrupt /\ IsSeq(todo)
        BY <1>0, <1>2, EmptyTuple DEF StackOK
      <3>2. ASSUME NEW m \in 1 .. i - 1 PROVE m \in DOMAIN todo
        BY <3>1, IsSeqFacts
      <3> QED BY <1>0, <3>1, <3>2 DEF StackOK, LocateOK, CanInterrupt, InCallback
    <2>2. ASSUME NEW i \in DOMAIN todo
          PROVE  FrameOK(todo[i]) /\ TargetOK(todo[i], prot) /\ LocateOK(todo, i, reg')
      BY <1>0, <2>1 DEF StackOK, LocateOK
    <2> QED BY <1>0, <1>2, <1>3, <2>2 DEF StackOK
  <1>8. Registrants'
    BY <1>0, <1>3, <1>4 DEF Registrants, NotRegistered
  <1>9. SeenExactly'
    <2>1. ASSUME NEW d \in Event, reg'[d] # NotRegistered
          PROVE  /\ reg'[d].pos \in {None} \cup Range(byProtocol[reg'[d].p])
                 /\ got'[d] = UpTo(byProtocol[reg'[d].p], reg'[d].pos)
      <3>1. d # e
        BY <2>1, <1>4
      <3> QED BY <3>1, <2>1, <1>0, <1>4 DEF SeenExactly
    <2> QED BY <2>1, <1>3 DEF SeenExactly, NotRegistered
  <1>10. NotMissed'
    <2>1. ASSUME NEW d \in Event, reg'[d] # NotRegistered, got'[d] # Range(byProtocol[reg'[d].p])
          PROVE  \/ d \in signalled'
                 \/ \E i \in DOMAIN todo : todo[i].op = "Locate" /\ todo[i].to = d
                 \/ \E i \in DOMAIN todo : todo[i].op = "Reinstalled" /\ todo[i].p = reg'[d].p
      <3>1. d # e
        BY <2>1, <1>4
      <3> QED BY <3>1, <2>1, <1>0, <1>3, <1>4 DEF NotMissed
    <2> QED BY <2>1, <1>2, <1>3 DEF NotMissed, NotRegistered
  <1>11. NoneMoved
    BY <1>3 DEF NoneMoved, SameInterface
  <1> QED BY <1>6, <1>7, <1>8, <1>9, <1>10, <1>11 DEF IInv

-----------------------------------------------------------------------------
(* The application and the callbacks *)

Joined(t, c, u) ==
    /\ IsSeq(u) /\ DOMAIN u = 1 .. Len(t) + Len(c)
    /\ \A j \in 1 .. Len(t) : u[j] = t[j]
    /\ \A j \in 1 .. Len(c) : u[Len(t) + j] = c[j]

LEMMA JoinFacts ==
    ASSUME NEW t, IsSeq(t), NEW c, IsSeq(c), NEW u, u = t \o c
    PROVE  Joined(t, c, u)
  BY ConcatIsSeq DEF Joined

Atop(t, u, b) ==
    /\ \A j \in DOMAIN t : j \in DOMAIN u /\ u[j] = t[j]
    /\ \E j \in DOMAIN u : u[j] = b

LocateFor(b, rg) == b.op = "Locate" => rg[b.to] # NotRegistered

\* A callback on top of what it interrupts.
LEMMA Grown ==
    ASSUME NEW t, NEW pr, NEW rg, StackOK(t, pr, rg), NEW a, FrameOK(a), a.op = "Callback",
           NEW b, FrameOK(b), TargetOK(b, pr), LocateFor(b, rg),
           NEW d, d = <<a, b>>, NEW u, u = t \o d
    PROVE  StackOK(u, pr, rg) /\ Atop(t, u, b)
  <1>1. PICK c : c = d
    OBVIOUS
  <1>d. u = t \o c /\ c = <<a, b>>
    BY <1>1
  <1>2. IsSeq(c) /\ DOMAIN c = 1 .. 2 /\ c[1] = a /\ c[2] = b
    BY <1>1, TupleTwo
  <1>3. IsSeq(t) /\ DOMAIN t = 1 .. Len(t) /\ Len(t) \in Nat /\ Len(c) = 2
    <2>1. IsSeq(t) /\ DOMAIN t = 1 .. Len(t) /\ Len(t) \in Nat
      BY IsSeqFacts DEF StackOK
    <2>2. Len(c) \in Nat /\ DOMAIN c = 1 .. Len(c)
      BY <1>2, IsSeqFacts
    <2>3. Len(c) = 2
      BY <1>d
    <2> QED BY <2>1, <2>3
  <1>4. /\ IsSeq(u) /\ DOMAIN u = 1 .. Len(t) + Len(c)
        /\ \A j \in 1 .. Len(t) : u[j] = t[j]
        /\ \A j \in 1 .. Len(c) : u[Len(t) + j] = c[j]
    <2>1. u = t \o c /\ IsSeq(t) /\ IsSeq(c)
      BY <1>d, <1>2, <1>3
    <2>2. Joined(t, c, u)
      BY <2>1, JoinFacts
    <2> QED BY <2>2 DEF Joined
  <1>5. DOMAIN u = 1 .. Len(t) + 2 /\ u[Len(t) + 1] = a /\ u[Len(t) + 2] = b
    BY <1>2, <1>3, <1>4
  <1>6. \A j \in DOMAIN t : j \in DOMAIN u /\ u[j] = t[j]
    BY <1>3, <1>4, <1>5
  <1>7. ASSUME NEW j \in DOMAIN u
        PROVE  FrameOK(u[j]) /\ TargetOK(u[j], pr) /\ LocateOK(u, j, rg)
    <2>1. CASE j \in DOMAIN t
      <3>1. u[j] = t[j] /\ FrameOK(t[j]) /\ TargetOK(t[j], pr) /\ LocateOK(t, j, rg)
        BY <2>1, <1>6 DEF StackOK
      <3>2. \A i \in 1 .. j - 1 : u[i] = t[i]
        BY <2>1, <1>3, <1>4
      <3> QED BY <3>1, <3>2 DEF LocateOK
    <2>2. CASE j = Len(t) + 1
      <3>1. u[j] = a
        BY <2>2, <1>5
      <3> QED BY <3>1 DEF TargetOK, Working, LocateOK
    <2>3. CASE j = Len(t) + 2
      <3>1. u[j] = b
        BY <2>3, <1>5
      <3>2. Len(t) + 1 \in 1 .. j - 1 /\ u[Len(t) + 1].op = "Callback"
        BY <2>3, <1>3, <1>5
      <3> QED BY <3>1, <3>2 DEF LocateOK, LocateFor
    <2>4. j \in DOMAIN t \/ j = Len(t) + 1 \/ j = Len(t) + 2
      BY <1>3, <1>5
    <2> QED BY <2>1, <2>2, <2>3, <2>4
  <1>8. StackOK(u, pr, rg)
    BY <1>4, <1>7 DEF StackOK
  <1>9. Len(t) + 2 \in DOMAIN u
    BY <1>3, <1>5
  <1> QED BY <1>5, <1>6, <1>8, <1>9 DEF Atop

\* A callback interrupts: nothing moves, and an event that was signalled is on the stack.
LEMMA InterruptStep ==
    ASSUME IInv, NEW c, FrameOK(c), TargetOK(c, prot), Interrupt(c),
           UNCHANGED <<reg, got>>, interrupts' \in 0 .. MaxCallbacks,
           \/ signalled' = signalled /\ c.op # "Locate"
           \/ c.op = "Locate" /\ c.to \in signalled /\ signalled' = signalled \ {c.to}
    PROVE  IInv' /\ NoneMoved
  <1>0. /\ Types /\ Lists /\ Opened(prot) /\ StackOK(todo, prot, reg) /\ Registrants
        /\ SeenExactly /\ NotMissed
    BY DEF IInv
  <1>1. PICK a : a = [Call("Callback") EXCEPT !.to = ret.status, !.ctrl = ret.h]
    OBVIOUS
  <1>2. FrameOK(a) /\ a.op = "Callback"
    <2>1. FrameOK(a)
      BY <1>1, CallbackFrame
    <2>2. PICK f : f = Call("Callback")
      OBVIOUS
    <2>3. IsFrame(f) /\ f.op = "Callback"
      BY <2>2, CallFacts
    <2>4. a = [f EXCEPT !.to = ret.status, !.ctrl = ret.h]
      BY <1>1, <2>2
    <2>5. a.op = "Callback"
      BY <2>3, <2>4 DEF IsFrame
    <2> QED BY <2>1, <2>5
  <1>3. /\ todo' = todo \o <<a, c>>
        /\ handles' = handles /\ prot' = prot /\ onHandle' = onHandle /\ byProtocol' = byProtocol
        /\ reg' = reg /\ got' = got
    BY <1>1 DEF Interrupt, db
  <1>4. LocateFor(c, reg)
    BY <1>0 DEF Registrants, Types, LocateFor
  <1>5. /\ StackOK(todo', prot, reg) /\ \A j \in DOMAIN todo : j \in DOMAIN todo' /\ todo'[j] = todo[j]
        /\ \E j \in DOMAIN todo' : todo'[j] = c
    <2>1. PICK u : u = todo'
      OBVIOUS
    <2>2. PICK d : d = <<a, c>>
      OBVIOUS
    <2>3. u = todo \o d
      BY <2>1, <2>2, <1>3
    <2>4. StackOK(u, prot, reg) /\ Atop(todo, u, c)
      BY <1>0, <1>2, <1>4, <2>2, <2>3, Grown
    <2>5. StackOK(todo', prot, reg) /\ Atop(todo, todo', c)
      BY <2>1, <2>4
    <2> QED BY <2>5 DEF Atop
  <1>6. Types' /\ Lists' /\ Opened(prot')
    BY <1>0, <1>3 DEF Types, Lists, Freed
  <1>7. Registrants' /\ SeenExactly'
    BY <1>0, <1>3 DEF Registrants, SeenExactly, NotRegistered
  <1>8. NotMissed'
    <2>1. ASSUME NEW e \in Event, reg[e] # NotRegistered, got[e] # Range(byProtocol[reg[e].p])
          PROVE  \/ e \in signalled'
                 \/ \E j \in DOMAIN todo' : todo'[j].op = "Locate" /\ todo'[j].to = e
                 \/ \E j \in DOMAIN todo' : todo'[j].op = "Reinstalled" /\ todo'[j].p = reg[e].p
      <3>1. \/ e \in signalled
            \/ \E j \in DOMAIN todo : todo[j].op = "Locate" /\ todo[j].to = e
            \/ \E j \in DOMAIN todo : todo[j].op = "Reinstalled" /\ todo[j].p = reg[e].p
        BY <1>0, <2>1 DEF NotMissed
      <3>2. CASE e \in signalled
        BY <3>2, <1>5
      <3>3. CASE e \notin signalled
        BY <3>1, <3>3, <1>5
      <3> QED BY <3>2, <3>3
    <2> QED BY <2>1, <1>3 DEF NotMissed, NotRegistered
  <1>9. NoneMoved
    BY <1>3 DEF NoneMoved, SameInterface
  <1>10. StackOK(todo', prot', reg')
    BY <1>3, <1>5
  <1> QED BY <1>6, <1>7, <1>8, <1>9, <1>10 DEF IInv

LEMMA CallbackStep ==
    ASSUME IInv, Callback
    PROVE  IInv' /\ NoneMoved
  <1>1. PICK c \in CallbackCalls : /\ interrupts < MaxCallbacks /\ Interrupt(c)
                                   /\ interrupts' = interrupts + 1 /\ UNCHANGED notes
    BY DEF Callback
  <1>2. FrameOK(c) /\ TargetOK(c, prot) /\ c.op # "Locate"
    BY ServiceFrame, IdleTarget
  <1>3. interrupts' \in 0 .. MaxCallbacks
    BY <1>1, HandlesAssumption DEF IInv, Types
  <1>4. reg' = reg /\ got' = got /\ signalled' = signalled
    BY <1>1 DEF notes
  <1> QED BY <1>1, <1>2, <1>3, <1>4, InterruptStep

LEMMA NotifiedStep ==
    ASSUME IInv, NEW e \in Event, Notified(e)
    PROVE  IInv' /\ NoneMoved
  <1>1. PICK c : c = [Call("Locate") EXCEPT !.to = e]
    OBVIOUS
  <1>2. /\ e \in signalled /\ signalled' = signalled \ {e} /\ Interrupt(c)
        /\ reg' = reg /\ got' = got /\ interrupts' = interrupts
    BY <1>1 DEF Notified
  <1>3. FrameOK(c) /\ c.op = "Locate" /\ c.to = e
    <2>1. FrameOK(c)
      BY <1>1, LocateFrame
    <2>2. PICK f : f = Call("Locate")
      OBVIOUS
    <2>3. IsFrame(f) /\ f.op = "Locate"
      BY <2>2, CallFacts
    <2>4. c = [f EXCEPT !.to = e]
      BY <1>1, <2>2
    <2>5. c.op = "Locate" /\ c.to = e
      BY <2>3, <2>4 DEF IsFrame
    <2> QED BY <2>1, <2>5
  <1>4. TargetOK(c, prot)
    BY <1>3 DEF TargetOK, Working
  <1>5. interrupts' \in 0 .. MaxCallbacks
    BY <1>2 DEF IInv, Types
  <1> QED BY <1>2, <1>3, <1>4, <1>5, InterruptStep

LEMMA ApplicationStep ==
    ASSUME IInv, Application
    PROVE  IInv' /\ NoneMoved
  <1>0. /\ Types /\ Lists /\ Opened(prot) /\ StackOK(todo, prot, reg) /\ Registrants
        /\ SeenExactly /\ NotMissed
    BY DEF IInv
  <1>1. PICK c \in AppCalls : todo' = <<c>>
    BY DEF Application
  <1>2. /\ todo = <<>> /\ interrupts' = 0
        /\ handles' = handles /\ prot' = prot /\ onHandle' = onHandle /\ byProtocol' = byProtocol
        /\ reg' = reg /\ got' = got /\ signalled' = signalled
    BY DEF Application, db, notes
  <1>3. FrameOK(c) /\ TargetOK(c, prot) /\ c.op # "Locate"
    BY ServiceFrame, IdleTarget
  <1>4. IsSeq(todo') /\ DOMAIN todo' = 1 .. 1 /\ todo'[1] = c
    BY <1>1, TupleOne
  <1>5. StackOK(todo', prot', reg')
    <2>1. \A j \in DOMAIN todo' : todo'[j] = c
      BY <1>4
    <2> QED BY <1>2, <1>3, <1>4, <2>1 DEF StackOK, LocateOK
  <1>6. 0 \in 0 .. MaxCallbacks
    BY HandlesAssumption
  <1>7. Types' /\ Lists' /\ Opened(prot')
    BY <1>0, <1>2, <1>6 DEF Types, Lists, Freed
  <1>8. Registrants' /\ SeenExactly'
    BY <1>0, <1>2 DEF Registrants, SeenExactly, NotRegistered
  <1>9. NotMissed'
    <2>1. \A j \in DOMAIN todo : FALSE
      BY <1>2, EmptyTuple
    <2> QED BY <1>0, <1>2, <2>1 DEF NotMissed, NotRegistered
  <1>10. NoneMoved
    BY <1>2 DEF NoneMoved, SameInterface
  <1> QED BY <1>5, <1>7, <1>8, <1>9, <1>10 DEF IInv

-----------------------------------------------------------------------------
(* The theorems *)

\* The invariant holds at first,
LEMMA InitIInv ==
    ASSUME Init
    PROVE  IInv
  <1>1. /\ handles = {} /\ prot = [k \in Prot |-> Freed] /\ onHandle = [h \in Handle |-> <<>>]
        /\ byProtocol = [p \in Protocol |-> <<>>] /\ reg = [e \in Event |-> NotRegistered]
        /\ signalled = {} /\ got = [e \in Event |-> {}] /\ todo = <<>> /\ interrupts = 0
    BY DEF Init
  <1>2. \A x, h : ~ In(x, <<>>) /\ Once(<<>>)
    BY EmptyTuple DEF In, Once
  <1>3. 0 \in 0 .. MaxCallbacks
    BY HandlesAssumption
  <1>4. NotRegistered.p = None /\ NotRegistered.pos = None
        /\ NotRegistered \in [p : Protocol \cup {None}, pos : Prot \cup {None}]
    BY DEF NotRegistered
  <1>5. \A k \in Prot : prot[k] = Freed
    BY <1>1
  <1>6. ProtTypes(prot)
    BY <1>1, <1>5, FreedFacts DEF ProtTypes
  <1>7. Types
    <2>1. <<>> \in Seq(Prot)
      OBVIOUS
    <2> QED BY <1>1, <1>3, <1>4, <1>6, <2>1 DEF Types
  <1>8. Lists
    <2>1. \A h \in Handle : onHandle[h] = <<>> /\ h # None /\ h \notin handles
      BY <1>1, NoneFacts
    <2>2. \A p \in Protocol : byProtocol[p] = <<>> /\ p # None
      BY <1>1, NoneFacts
    <2> QED BY <1>2, <1>5, <2>1, <2>2, FreedFacts DEF Lists
  <1>9. Opened(prot)
    BY <1>5, FreedFacts DEF Opened
  <1>10. StackOK(todo, prot, reg)
    BY <1>1, EmptyTuple DEF StackOK
  <1>11. \A e \in Event : reg[e] = NotRegistered /\ got[e] = {}
    BY <1>1
  <1>12. Registrants /\ SeenExactly /\ NotMissed
    BY <1>1, <1>11 DEF Registrants, SeenExactly, NotMissed
  <1> QED BY <1>7, <1>8, <1>9, <1>10, <1>12 DEF IInv

\* What a step does to the interfaces: none is moved, one is replaced, removed or added.
Effect ==
    \/ NoneMoved \/ Replacing
    \/ \E k \in Prot : Removed(k) \/ Added(k)

\* every step keeps it and has one of the four effects,
LEMMA NextStep ==
    ASSUME IInv, TargetsStay, Next
    PROVE  IInv' /\ Effect
  <1>1. CASE Step
    <2>1. CASE Install \/ InstallMultiple \/ UndoInstalls \/ Deny \/ UninstallMultiple \/ UndoUninstalls
      BY <2>1, InstallStep, InstallMultipleStep, UndoInstallsStep, DenyStep, UninstallMultipleStep,
         UndoUninstallsStep DEF Effect
    <2>2. CASE InstallLocked
      BY <2>2, InstallLockedStep DEF Effect
    <2>3. CASE Uninstall
      BY <2>3, UninstallStep DEF Effect
    <2>4. CASE Reinstall
      BY <2>4, ReinstallStep DEF Effect
    <2>5. CASE Reinstalled \/ LocateHandle \/ OpenProtocol \/ CloseProtocol \/ CallbackReturns
      BY <2>5, ReinstalledStep, LocateHandleStep, OpenProtocolStep, CloseProtocolStep,
         CallbackReturnsStep DEF Effect
    <2>6. CASE ConnectController \/ ConnectSingleController \/ ConnectChildren \/ DisconnectController
      BY <2>6, ConnectControllerStep, ConnectSingleControllerStep, ConnectChildrenStep,
         DisconnectControllerStep DEF Effect
    <2>7. CASE StopDrivers \/ StopLast \/ Start \/ Stop
      BY <2>7, StopDriversStep, StopLastStep, StartStep, StopStep DEF Effect
    <2> QED BY <1>1, <2>1, <2>2, <2>3, <2>4, <2>5, <2>6, <2>7 DEF Step
  <1>2. CASE Register \/ Unregister
    BY <1>2, RegisterStep, UnregisterStep DEF Register, Unregister, Effect
  <1>3. ASSUME NEW e \in Event, Notified(e) PROVE IInv' /\ Effect
    BY <1>3, NotifiedStep DEF Effect
  <1>4. CASE Callback \/ Application
    BY <1>4, CallbackStep, ApplicationStep DEF Effect
  <1> QED BY <1>1, <1>2, <1>3, <1>4 DEF Next

\* and so does a step of something else.
LEMMA StutterIInv ==
    ASSUME IInv, UNCHANGED vars
    PROVE  IInv'
  BY DEF IInv, Types, Lists, Opened, StackOK, Registrants, SeenExactly, NotMissed, vars, db, notes,
         Freed, NotRegistered

\* The invariant says what the properties say.
LEMMA SoundLists ==
    ASSUME IInv
    PROVE  ListsAgree
  <1>0. Types /\ Lists /\ Opened(prot) /\ Registrants
    BY DEF IInv
  <1>1. \A k : k \in Live <=> k \in Prot /\ prot[k] # Freed
    BY DEF Live
  <1>2. TypeOK
    <2>1. ASSUME NEW k \in Live
          PROVE  /\ prot[k].h \in handles /\ prot[k].p \in Protocol /\ prot[k].i \in Interface
                 /\ \A o \in prot[k].open : o.agent \in Agent /\ o.attr \in Attribute
      BY <1>0, <1>1 DEF Lists, Opened, OpenOK
    <2>2. ASSUME NEW e \in Event
          PROVE  reg[e] = NotRegistered \/ reg[e].p \in Protocol
      BY <1>0 DEF Types, Registrants
    <2> QED BY <1>0, <2>1, <2>2 DEF TypeOK, Types
  <1>3. \A k \in Prot : prot[k] = Freed => prot[k].h = None /\ prot[k].p = None
    BY FreedFacts
  <1>4. ASSUME NEW h \in Handle
        PROVE  /\ Range(onHandle[h]) = {k \in Live : prot[k].h = h}
               /\ IsInjective(onHandle[h])
               /\ (h \in handles) = (onHandle[h] # <<>>)
    <2>0. onHandle[h] \in Seq(Prot) /\ h # None
      BY <1>0, NoneFacts DEF Types
    <2>1. \A x : x \in Range(onHandle[h]) <=> In(x, onHandle[h])
      BY RangeIn
    <2>2. \A x : In(x, onHandle[h]) => x \in Prot
      BY <2>0 DEF In
    <2>3. /\ \A x \in Prot : In(x, onHandle[h]) <=> prot[x].h = h
          /\ Once(onHandle[h]) /\ (h \in handles <=> onHandle[h] # <<>>)
      BY <1>0 DEF Lists
    <2>4. \A x : x \in Range(onHandle[h]) <=> x \in Live /\ prot[x].h = h
      BY <2>0, <2>1, <2>2, <2>3, <1>1, <1>3
    <2>5. Range(onHandle[h]) = {k \in Live : prot[k].h = h}
      BY <2>4
    <2> QED BY <2>3, <2>5 DEF IsInjective, Once
  <1>5. ASSUME NEW p \in Protocol
        PROVE  /\ Range(byProtocol[p]) = {k \in Live : prot[k].p = p}
               /\ IsInjective(byProtocol[p])
    <2>0. byProtocol[p] \in Seq(Prot) /\ p # None
      BY <1>0, NoneFacts DEF Types
    <2>1. \A x : x \in Range(byProtocol[p]) <=> In(x, byProtocol[p])
      BY RangeIn
    <2>2. \A x : In(x, byProtocol[p]) => x \in Prot
      BY <2>0 DEF In
    <2>3. (\A x \in Prot : In(x, byProtocol[p]) <=> prot[x].p = p) /\ Once(byProtocol[p])
      BY <1>0 DEF Lists
    <2>4. \A x : x \in Range(byProtocol[p]) <=> x \in Live /\ prot[x].p = p
      BY <2>0, <2>1, <2>2, <2>3, <1>1, <1>3
    <2>5. Range(byProtocol[p]) = {k \in Live : prot[k].p = p}
      BY <2>4
    <2> QED BY <2>3, <2>5 DEF IsInjective, Once
  <1> QED BY <1>2, <1>4, <1>5 DEF ListsAgree

\* A set whose elements are all the same has one element at most.
LEMMA AtMostOne ==
    ASSUME NEW S, \A o, q \in S : o = q
    PROVE  Cardinality(S) <= 1
  <1>1. CASE S = {}
    <2>1. Cardinality(S) = 0
      BY <1>1, FS_EmptySet
    <2> QED BY <2>1
  <1>2. CASE S # {}
    <2>1. PICK o : S = {o}
      BY <1>2
    <2>2. Cardinality(S) = 1
      BY <2>1, FS_Singleton
    <2> QED BY <2>2
  <1> QED BY <1>1, <1>2

LEMMA SoundDrivers ==
    ASSUME IInv
    PROVE  OneDriver
  <1> SUFFICES ASSUME NEW k \in Live
               PROVE  Cardinality(DriverOpens(prot[k].open)) <= 1
    BY DEF OneDriver
  <1>1. \A o, q \in DriverOpens(prot[k].open) : o = q
    BY DEF IInv, Opened, OpenOK, Live
  <1> QED BY <1>1, AtMostOne

\* The invariant is inductive as long as nobody takes an interface away from a call that
\* has let go of the lock.
LEMMA Invariance == Spec /\ TargetsKept => []IInv
  <1>1. Init => IInv
    BY InitIInv
  <1>2. IInv /\ [TargetsStay]_vars /\ [Next]_vars => IInv'
    <2>1. CASE TargetsStay /\ Next
      BY <2>1, NextStep
    <2>2. CASE UNCHANGED vars
      BY <2>2, StutterIInv
    <2> QED BY <2>1, <2>2
  <1> QED BY <1>1, <1>2, PTL DEF Spec, TargetsKept

\* DatabaseSound: the handle lists and protocol lists of handle.c hold the same interfaces
\* each once, handles are valid as long as they have one, and OpenProtocol gives an
\* interface no second driver, for any number of handles, protocols, drivers, calls and
\* interrupting callbacks, if callers keep the interfaces others work on.
THEOREM DatabaseStaysSound == Spec /\ TargetsKept => []DatabaseSound
  <1>1. IInv => DatabaseSound
    BY SoundLists, SoundDrivers DEF DatabaseSound
  <1> QED BY <1>1, Invariance, PTL

\* Registrations: however interfaces are added, removed and moved while a registration's
\* Position points into the list (notify.c, locate.c), its registrant has been told of
\* exactly those up to the position, and of the others it will be told.
THEOREM RegistrationsMissNothing == Spec /\ TargetsKept => []Registrations
  <1>1. IInv => Registrations
    BY DEF IInv, Registrations
  <1> QED BY <1>1, Invariance, PTL

=============================================================================
