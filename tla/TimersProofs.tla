---------------------------- MODULE TimersProofs ----------------------------
(***************************************************************************)
(* Proofs about the timer list, for any number of timers, any delays and   *)
(* ticks of any length.                                                    *)
(***************************************************************************)
EXTENDS Timers, TLAPS, WellFoundedInduction

-----------------------------------------------------------------------------
(* Lists *)

\* A function on 1 .. n is a list of length n.
LEMMA Lists ==
    ASSUME NEW S, NEW n \in Nat, NEW f, f = [i \in 1 .. n |-> f[i]], \A i \in 1 .. n : f[i] \in S
    PROVE  f \in Seq(S) /\ Len(f) = n
OBVIOUS

\* What Without does to a list that holds the event.
LEMMA WithoutListed ==
    ASSUME NEW S, NEW list \in Seq(S), NEW e, Listed(list, e)
    PROVE  \E k \in 1 .. Len(list) :
              /\ list[k] = e
              /\ Without(list, e) = [i \in 1 .. Len(list) - 1 |-> IF i < k THEN list[i] ELSE list[i + 1]]
              /\ Without(list, e) \in Seq(S)
              /\ Len(Without(list, e)) = Len(list) - 1
<1> DEFINE k == CHOOSE i \in 1 .. Len(list) : list[i] = e
           r == [i \in 1 .. Len(list) - 1 |-> IF i < k THEN list[i] ELSE list[i + 1]]
<1>1. k \in 1 .. Len(list) /\ list[k] = e BY DEF Listed
<1>2. Without(list, e) = r BY DEF Without
<1> HIDE DEF k
<1>3. \A i \in 1 .. Len(list) - 1 : r[i] \in S BY <1>1
<1>4. Len(list) - 1 \in Nat BY <1>1
<1>5. r = [i \in 1 .. Len(list) - 1 |-> r[i]] OBVIOUS
<1>6. r \in Seq(S) /\ Len(r) = Len(list) - 1
  <2> HIDE DEF r
  <2> QED BY <1>3, <1>4, <1>5, Lists
<1> QED BY <1>1, <1>2, <1>6

\* With makes a list that is longer by one.
LEMMA WithList ==
    ASSUME NEW S, NEW list \in Seq(S), NEW e \in S, NEW k \in 1 .. Len(list) + 1
    PROVE  With(list, e, k) \in Seq(S) /\ Len(With(list, e, k)) = Len(list) + 1
<1> DEFINE r == With(list, e, k)
<1>1. \A i \in 1 .. Len(list) + 1 : r[i] \in S BY DEF With
<1>2. r = [i \in 1 .. Len(list) + 1 |-> r[i]] BY DEF With
<1>3. Len(list) + 1 \in Nat OBVIOUS
<1> HIDE DEF r
<1>4. r \in Seq(S) /\ Len(r) = Len(list) + 1 BY <1>1, <1>2, <1>3, Lists
<1> QED BY <1>4 DEF r

\* Every set of natural numbers that is not empty has a least element.
LEMMA Least ==
    ASSUME NEW T, T \subseteq Nat, T # {}
    PROVE  \E x \in T : \A y \in T : x <= y
<1> DEFINE R == OpToRel(<, Nat)
<1>1. IsWellFoundedOn(R, Nat) BY NatLessThanWellFounded
<1>2. \A x, y \in Nat : <<y, x>> \in R <=> y < x BY DEF OpToRel
<1> HIDE DEF R
<1>3. \E x \in T : \A y \in T : ~ (<<y, x>> \in R) BY <1>1, WFMin
<1>4. PICK x \in T : \A y \in T : ~ (<<y, x>> \in R) BY <1>3
<1>5. \A y \in T : x <= y
  <2> TAKE y \in T
  <2>1. x \in Nat /\ y \in Nat BY <1>4
  <2>2. ~ (y < x) BY <1>2, <1>4, <2>1
  <2> QED BY <2>1, <2>2
<1> QED BY <1>4, <1>5

-----------------------------------------------------------------------------
(* Sorted lists *)

Times == [Event -> [TriggerTime : Time, Period : Time]]

\* list is sorted by the trigger times in tm and holds an event once.
Sorted(list, tm) ==
    \A i, j \in 1 .. Len(list) :
        i < j => list[i] # list[j] /\ tm[list[i]].TriggerTime <= tm[list[j]].TriggerTime

\* Trigger times are integers.
LEMMA TimesAreNumbers ==
    ASSUME NEW tm \in Times, NEW e \in Event
    PROVE  tm[e].TriggerTime \in Int
BY TimeAssumption DEF Times, Time

\* Taking an event out leaves a sorted list of the others.
LEMMA WithoutSorted ==
    ASSUME NEW list \in Seq(Event), NEW e, NEW tm \in Times, Sorted(list, tm)
    PROVE  /\ Without(list, e) \in Seq(Event)
           /\ Sorted(Without(list, e), tm)
           /\ ~ Listed(Without(list, e), e)
           /\ \A d : Listed(Without(list, e), d) => Listed(list, d)
<1>1. CASE ~ Listed(list, e) BY <1>1 DEF Without
<1>2. CASE Listed(list, e)
  <2> DEFINE r == Without(list, e)
  <2>1. PICK k \in 1 .. Len(list) :
              /\ list[k] = e
              /\ r = [i \in 1 .. Len(list) - 1 |-> IF i < k THEN list[i] ELSE list[i + 1]]
              /\ r \in Seq(Event)
              /\ Len(r) = Len(list) - 1
    BY <1>2, WithoutListed
  <2> HIDE DEF r
  <2> DEFINE at(i) == IF i < k THEN i ELSE i + 1
  <2>2. \A i \in 1 .. Len(r) : r[i] = list[at(i)] /\ at(i) \in 1 .. Len(list) /\ at(i) # k
    BY <2>1
  <2>3. \A i, j \in 1 .. Len(r) : i < j => at(i) < at(j) BY <2>1
  <2>4. Sorted(r, tm)
    <3> SUFFICES ASSUME NEW i \in 1 .. Len(r), NEW j \in 1 .. Len(r), i < j
                 PROVE  r[i] # r[j] /\ tm[r[i]].TriggerTime <= tm[r[j]].TriggerTime
      BY DEF Sorted
    <3>1. at(i) < at(j) BY <2>3
    <3>2. r[i] = list[at(i)] /\ r[j] = list[at(j)] /\ at(i) \in 1 .. Len(list) /\ at(j) \in 1 .. Len(list)
      BY <2>2
    <3> HIDE DEF at
    <3> QED BY <3>1, <3>2 DEF Sorted
  <2>5. ASSUME NEW i \in 1 .. Len(r), r[i] = e PROVE FALSE
    <3>1. list[at(i)] = list[k] /\ at(i) \in 1 .. Len(list) /\ at(i) # k BY <2>1, <2>2, <2>5
    <3> HIDE DEF at
    <3>2. at(i) < k \/ k < at(i) BY <3>1
    <3> QED BY <3>1, <3>2 DEF Sorted
  <2>6. ~ Listed(r, e) BY <2>5 DEF Listed
  <2>7. ASSUME NEW d, Listed(r, d) PROVE Listed(list, d)
    <3> HIDE DEF at
    <3> QED BY <2>2, <2>7 DEF Listed
  <2> QED BY <2>1, <2>4, <2>6, <2>7 DEF r
<1> QED BY <1>1, <1>2

\* The place InsertEventTimer finds: nothing later is before it.
LEMMA PlaceIsFirstLater ==
    ASSUME EfiTimerList \in Seq(Event), Timer \in Times, NEW e \in Event
    PROVE  /\ Place(e) \in 1 .. Len(EfiTimerList) + 1
           /\ \A i \in 1 .. Len(EfiTimerList) : i < Place(e) =>
                 Timer[EfiTimerList[i]].TriggerTime <= Timer[e].TriggerTime
           /\ Place(e) <= Len(EfiTimerList) =>
                 Timer[EfiTimerList[Place(e)]].TriggerTime > Timer[e].TriggerTime
<1> DEFINE later == {i \in 1 .. Len(EfiTimerList) : Timer[EfiTimerList[i]].TriggerTime > Timer[e].TriggerTime}
<1>0. Len(EfiTimerList) \in Nat /\ Timer[e].TriggerTime \in Int
      /\ \A i \in 1 .. Len(EfiTimerList) : Timer[EfiTimerList[i]].TriggerTime \in Int
  BY TimesAreNumbers
<1>1. CASE later = {}
  <2>1. Place(e) = Len(EfiTimerList) + 1 BY <1>1 DEF Place
  <2>2. \A i \in 1 .. Len(EfiTimerList) : ~ (Timer[EfiTimerList[i]].TriggerTime > Timer[e].TriggerTime)
    BY <1>1
  <2> QED BY <1>0, <2>1, <2>2
<1>2. CASE later # {}
  <2>1. later \subseteq Nat OBVIOUS
  <2>2. \E x \in later : \A y \in later : x <= y
    <3> HIDE DEF later
    <3> QED BY <1>2, <2>1, Least
  <2>3. Place(e) = CHOOSE i \in later : \A j \in later : i <= j BY <1>2 DEF Place
  <2>4. Place(e) \in later /\ \A j \in later : Place(e) <= j
    <3> HIDE DEF later
    <3> QED BY <2>2, <2>3
  <2>5. Place(e) \in 1 .. Len(EfiTimerList) /\ Timer[EfiTimerList[Place(e)]].TriggerTime > Timer[e].TriggerTime
    BY <2>4
  <2>6. ASSUME NEW i \in 1 .. Len(EfiTimerList), i < Place(e)
        PROVE  Timer[EfiTimerList[i]].TriggerTime <= Timer[e].TriggerTime
    <3>1. i \notin later BY <2>4, <2>5, <2>6
    <3>2. ~ (Timer[EfiTimerList[i]].TriggerTime > Timer[e].TriggerTime) BY <3>1
    <3> QED BY <1>0, <3>2
  <2> QED BY <1>0, <2>5, <2>6
<1> QED BY <1>1, <1>2

\* InsertEventTimer keeps the list sorted.
LEMMA InsertSorted ==
    ASSUME EfiTimerList \in Seq(Event), Timer \in Times, Sorted(EfiTimerList, Timer),
           NEW e \in Event, ~ Listed(EfiTimerList, e), InsertEventTimer(e)
    PROVE  /\ EfiTimerList' \in Seq(Event)
           /\ Sorted(EfiTimerList', Timer)
           /\ \A d : Listed(EfiTimerList', d) => Listed(EfiTimerList, d) \/ d = e
<1> DEFINE l == EfiTimerList
           r == EfiTimerList'
           k == Place(e)
           tm(d) == Timer[d].TriggerTime
<1>1. /\ k \in 1 .. Len(l) + 1
      /\ \A i \in 1 .. Len(l) : i < k => tm(l[i]) <= tm(e)
      /\ k <= Len(l) => tm(l[k]) > tm(e)
  BY PlaceIsFirstLater
<1>2. r = With(l, e, k) BY DEF InsertEventTimer
<1>3. r \in Seq(Event) /\ Len(r) = Len(l) + 1 BY <1>1, <1>2, WithList
<1>4. /\ \A i \in 1 .. Len(r) : i < k => r[i] = l[i] /\ i \in 1 .. Len(l)
      /\ k \in 1 .. Len(r) /\ r[k] = e
      /\ \A i \in 1 .. Len(r) : i > k => r[i] = l[i - 1] /\ i - 1 \in 1 .. Len(l)
  <2> HIDE DEF k
  <2> QED BY <1>1, <1>2, <1>3 DEF With
<1>5. /\ Len(l) \in Nat /\ tm(e) \in Int
      /\ \A i \in 1 .. Len(l) : tm(l[i]) \in Int /\ l[i] # e /\ l[i] \in Event
  BY TimesAreNumbers DEF Listed
<1>6. \A i, j \in 1 .. Len(l) : i < j => l[i] # l[j] /\ tm(l[i]) <= tm(l[j]) BY DEF Sorted
<1>7. \A i \in 1 .. Len(l) : i >= k => tm(l[i]) > tm(e)
  <2> SUFFICES ASSUME NEW i \in 1 .. Len(l), i >= k PROVE tm(l[i]) > tm(e) OBVIOUS
  <2>1. k \in 1 .. Len(l) /\ tm(l[k]) > tm(e) BY <1>1, <1>5
  <2>2. i = k \/ k < i BY <2>1
  <2> HIDE DEF tm, k, l
  <2> QED BY <1>5, <1>6, <2>1, <2>2
<1> HIDE DEF tm, k, l, r
<1>8. ASSUME NEW i \in 1 .. Len(r), NEW j \in 1 .. Len(r), i < j
      PROVE  r[i] # r[j] /\ tm(r[i]) <= tm(r[j])
  <2>1. CASE j < k BY <1>1, <1>4, <1>6, <1>8, <2>1
  <2>2. CASE j = k BY <1>1, <1>4, <1>5, <1>8, <2>2
  <2>3. CASE j > k /\ i < k
    <3>1. r[i] = l[i] /\ i \in 1 .. Len(l) /\ r[j] = l[j - 1] /\ j - 1 \in 1 .. Len(l) BY <1>4, <2>3
    <3>2. i < j - 1 BY <1>1, <2>3
    <3> QED BY <1>6, <3>1, <3>2
  <2>4. CASE j > k /\ i = k
    <3>1. r[i] = e /\ r[j] = l[j - 1] /\ j - 1 \in 1 .. Len(l) /\ j - 1 >= k BY <1>1, <1>4, <2>4
    <3> QED BY <1>5, <1>7, <3>1
  <2>5. CASE j > k /\ i > k
    <3>1. r[i] = l[i - 1] /\ i - 1 \in 1 .. Len(l) /\ r[j] = l[j - 1] /\ j - 1 \in 1 .. Len(l) BY <1>4, <2>5
    <3>2. i - 1 < j - 1 BY <1>8
    <3> QED BY <1>6, <3>1, <3>2
  <2> QED BY <1>1, <1>3, <2>1, <2>2, <2>3, <2>4, <2>5
<1>9. Sorted(r, Timer) BY <1>8 DEF Sorted, tm
<1>10. ASSUME NEW d, Listed(r, d) PROVE Listed(l, d) \/ d = e
  <2>1. PICK i \in 1 .. Len(r) : r[i] = d BY <1>10 DEF Listed
  <2>2. i < k \/ i = k \/ i > k BY <1>1
  <2> QED BY <1>4, <2>1, <2>2 DEF Listed
<1> QED BY <1>3, <1>9, <1>10 DEF r, l

\* Trigger times of events that are not listed do not matter.
LEMMA SortedByOthers ==
    ASSUME NEW list \in Seq(Event), NEW tm, NEW um, Sorted(list, tm),
           \A d \in Event : Listed(list, d) => um[d] = tm[d]
    PROVE  Sorted(list, um)
<1>1. \A i \in 1 .. Len(list) : list[i] \in Event /\ Listed(list, list[i]) BY DEF Listed
<1>2. \A i \in 1 .. Len(list) : um[list[i]] = tm[list[i]] BY <1>1
<1> QED BY <1>2 DEF Sorted

-----------------------------------------------------------------------------
(* TypeOK and ListSorted *)

ListInv == TypeOK /\ ListSorted

Holding == {"stamp", "insert", "signal", "rearm", "requeue"}

\* ListSorted, with the list and the times apart.
LEMMA SortedNow == ListSorted <=> /\ Sorted(EfiTimerList, Timer)
                                  /\ thread.pc \in Holding => ~ Listed(EfiTimerList, thread.ev)
BY DEF ListSorted, Sorted, Holding, Armed

\* The same in the next state.
LEMMA SortedNext == ListSorted' <=> /\ Sorted(EfiTimerList', Timer')
                                    /\ thread'.pc \in Holding => ~ Listed(EfiTimerList', thread'.ev)
BY DEF ListSorted, Sorted, Holding, Armed

ThreadType == [pc : {"idle"} \cup SetPc \cup CheckPc, ev : Event \cup {NoEvent}, time : Time]

\* The states of the thread have the right type.
LEMMA ThreadTypes ==
    /\ Idle \in ThreadType
    /\ \A pc \in {"idle"} \cup SetPc \cup CheckPc, e \in Event \cup {NoEvent}, t \in Time :
          Thread(pc, e, t) \in ThreadType
BY TimeAssumption DEF ThreadType, Idle, Thread, Time, SetPc, CheckPc

\* The thread goes to another place and keeps its locals.
LEMMA GotoTypes ==
    ASSUME thread \in ThreadType, NEW pc \in {"idle"} \cup SetPc \cup CheckPc, Goto(pc)
    PROVE  thread' \in ThreadType /\ thread'.pc = pc /\ thread'.ev = thread.ev /\ thread'.time = thread.time
BY DEF ThreadType, Goto, Time, SetPc, CheckPc

\* Sums of times are times again, modulo TimeMod.
LEMMA TimeSums ==
    ASSUME NEW a \in Time, NEW b \in Time
    PROVE  (a + b) % TimeMod \in Time
<1>1. TimeMod \in Nat /\ TimeMod > 0 /\ a + b \in Nat BY TimeAssumption DEF Time
<1>2. \A n \in Nat : n % TimeMod \in 0 .. TimeMod - 1 BY <1>1
<1> QED BY <1>1, <1>2 DEF Time

\* The list is empty at first.
LEMMA InitListInv == Init => ListInv
<1> SUFFICES ASSUME Init PROVE ListInv OBVIOUS
<1>1. TypeOK
  <2>1. thread \in ThreadType /\ thread.pc = "idle" BY ThreadTypes DEF Init, Idle, Thread
  <2>2. 0 \in Time BY TimeAssumption DEF Time
  <2>3. Timer \in [Event -> [TriggerTime : Time, Period : Time]] BY <2>2 DEF Init
  <2>4. request \in [Event -> [type : TimerType, start : Time, delay : Time, fired : Nat]]
    BY <2>2 DEF Init, TimerType
  <2>5. EfiTimerList \in Seq(Event) BY DEF Init
  <2>6. check \in BOOLEAN BY DEF Init
  <2>7. EfiSystemTime \in Time BY <2>2 DEF Init
  <2> QED BY <2>1, <2>3, <2>4, <2>5, <2>6, <2>7 DEF TypeOK, ThreadType
<1>2. ListSorted
  <2>1. Sorted(EfiTimerList, Timer) BY DEF Init, Sorted
  <2>2. thread.pc \notin Holding BY DEF Init, Idle, Thread, Holding
  <2> QED BY <2>1, <2>2, SortedNow
<1> QED BY <1>1, <1>2 DEF ListInv

\* The interrupt changes the clock only.
LEMMA TickListInv ==
    ASSUME ListInv, NEW d \in Duration, FwTimerTick(d)
    PROVE  ListInv'
<1>1. EfiSystemTime' \in Time
  BY TimeAssumption DEF ListInv, TypeOK, FwTimerTick, Advanced, Time
<1>2. check' \in BOOLEAN BY DEF ListInv, TypeOK, FwTimerTick, TickCheck, Expired
<1>3. TypeOK' BY <1>1, <1>2 DEF ListInv, TypeOK, FwTimerTick
<1>4. ListSorted' BY SortedNow, SortedNext DEF ListInv, FwTimerTick
<1> QED BY <1>3, <1>4 DEF ListInv

\* SetTimer unlinks the timer before it clears its time.
LEMMA SetTimerListInv ==
    ASSUME ListInv, NEW e \in Event, NEW type \in TimerType, NEW t \in Delay, SetTimer(e, type, t)
    PROVE  ListInv'
<1>0. EfiTimerList \in Seq(Event) /\ Timer \in Times /\ Sorted(EfiTimerList, Timer)
  BY SortedNow DEF ListInv, TypeOK, Times
<1>1. /\ EfiTimerList' = Without(EfiTimerList, e)
      /\ EfiTimerList' \in Seq(Event) /\ Sorted(EfiTimerList', Timer) /\ ~ Listed(EfiTimerList', e)
  BY <1>0, WithoutSorted DEF SetTimer
<1>2. t \in Time /\ 0 \in Time BY TimeAssumption DEF Time
<1>3. /\ Timer' \in Times
      /\ \A d \in Event : d # e => Timer'[d] = Timer[d]
  BY <1>0, <1>2 DEF SetTimer, Times
<1>4. thread' \in ThreadType /\ (thread'.pc \notin {"idle", "scan"} => thread'.ev \in Event)
      /\ (thread'.pc \in Holding => thread'.ev = e)
  <2>1. Thread("stamp", e, t) \in ThreadType /\ Thread("stamp", e, t).ev = e
    BY <1>2, ThreadTypes DEF SetPc, Thread
  <2>2. Idle \in ThreadType /\ Idle.pc = "idle" BY ThreadTypes DEF Idle, Thread
  <2> QED BY <2>1, <2>2 DEF SetTimer, Holding
<1>5. request' \in [Event -> [type : TimerType, start : Time, delay : Time, fired : Nat]]
  BY <1>2 DEF ListInv, TypeOK, SetTimer
<1>6. TypeOK' BY <1>1, <1>3, <1>4, <1>5 DEF ListInv, TypeOK, SetTimer, Times, ThreadType
<1>7. Sorted(EfiTimerList', Timer') BY <1>1, <1>3, SortedByOthers
<1>8. ListSorted' BY <1>1, <1>4, <1>7, SortedNext
<1> QED BY <1>6, <1>8 DEF ListInv

\* A timer that gets its time is not linked.
LEMMA StampListInv ==
    ASSUME ListInv, SetStamp
    PROVE  ListInv'
<1>0. /\ EfiTimerList \in Seq(Event) /\ Timer \in Times /\ thread \in ThreadType /\ thread.ev \in Event
      /\ thread.pc = "stamp" /\ thread.time \in Time
  BY DEF ListInv, TypeOK, Times, ThreadType, SetStamp
<1>1. (EfiSystemTime + thread.time) % TimeMod \in Time BY <1>0, TimeSums DEF ListInv, TypeOK
<1>2. Timer' \in Times /\ \A d \in Event : d # thread.ev => Timer'[d] = Timer[d]
  BY <1>0, <1>1 DEF SetStamp, Times
<1>3. thread' \in ThreadType /\ thread'.pc = "insert" /\ thread'.ev = thread.ev
  BY <1>0, GotoTypes DEF SetStamp, SetPc
<1>4. TypeOK' BY <1>0, <1>2, <1>3 DEF ListInv, TypeOK, SetStamp, Times, ThreadType
<1>5. Sorted(EfiTimerList, Timer) /\ ~ Listed(EfiTimerList, thread.ev)
  BY <1>0, SortedNow DEF ListInv, Holding
<1>6. Sorted(EfiTimerList, Timer') BY <1>0, <1>2, <1>5, SortedByOthers
<1>7. ListSorted' BY <1>3, <1>5, <1>6, SortedNext DEF SetStamp
<1> QED BY <1>4, <1>7 DEF ListInv

\* SetTimer and CheckTimers link the timer they hold.
LEMMA LinkListInv ==
    ASSUME ListInv, thread.pc \in {"insert", "requeue"}, NEW pc \in {"kick", "scan"},
           InsertEventTimer(thread.ev), Goto(pc), UNCHANGED <<EfiSystemTime, Timer, check, request>>
    PROVE  ListInv'
<1>0. /\ EfiTimerList \in Seq(Event) /\ Timer \in Times /\ thread \in ThreadType /\ thread.ev \in Event
  BY DEF ListInv, TypeOK, Times, ThreadType
<1>1. Sorted(EfiTimerList, Timer) /\ ~ Listed(EfiTimerList, thread.ev)
  BY SortedNow DEF ListInv, Holding
<1>2. EfiTimerList' \in Seq(Event) /\ Sorted(EfiTimerList', Timer) BY <1>0, <1>1, InsertSorted
<1>3. thread' \in ThreadType /\ thread'.pc = pc /\ thread'.ev = thread.ev
  BY <1>0, GotoTypes DEF SetPc, CheckPc
<1>4. TypeOK' BY <1>0, <1>2, <1>3 DEF ListInv, TypeOK, ThreadType
<1>5. ListSorted' BY <1>2, <1>3, SortedNext DEF Holding
<1> QED BY <1>4, <1>5 DEF ListInv

\* SetTimer releases the lock.
LEMMA KickListInv ==
    ASSUME ListInv, SetKick
    PROVE  ListInv'
<1>1. thread' \in ThreadType /\ thread'.pc = "idle" BY ThreadTypes DEF SetKick, Idle, Thread
<1>2. check' \in BOOLEAN BY DEF ListInv, TypeOK, SetKick
<1>3. TypeOK' BY <1>1, <1>2 DEF ListInv, TypeOK, SetKick, ThreadType
<1>4. ListSorted' BY <1>1, SortedNow, SortedNext DEF ListInv, SetKick, Holding
<1> QED BY <1>3, <1>4 DEF ListInv

\* CheckTimers takes the lock.
LEMMA CheckListInv ==
    ASSUME ListInv, CheckTimers
    PROVE  ListInv'
<1>1. thread' \in ThreadType /\ thread'.pc = "scan"
  BY ThreadTypes DEF ListInv, TypeOK, CheckTimers, CheckPc, Thread
<1>2. TypeOK' BY <1>1 DEF ListInv, TypeOK, CheckTimers, ThreadType
<1>3. ListSorted' BY <1>1, SortedNow, SortedNext DEF ListInv, CheckTimers, Holding
<1> QED BY <1>2, <1>3 DEF ListInv

\* CheckTimers unlinks what has expired.
LEMMA ScanListInv ==
    ASSUME ListInv, CheckScan
    PROVE  ListInv'
<1>0. EfiTimerList \in Seq(Event) /\ Timer \in Times /\ Sorted(EfiTimerList, Timer)
      /\ thread.time \in Time
  BY SortedNow DEF ListInv, TypeOK, Times
<1>1. CASE ScanTakes(thread.time)
  <2> DEFINE e == Head(EfiTimerList)
  <2>1. e \in Event BY <1>0, <1>1 DEF ScanTakes, Expired
  <2>2. thread' = Thread("signal", e, thread.time) /\ EfiTimerList' = Without(EfiTimerList, e)
    BY <1>1 DEF CheckScan
  <2> HIDE DEF e
  <2>3. thread' \in ThreadType /\ thread'.pc = "signal" /\ thread'.ev = e
    BY <1>0, <2>1, <2>2, ThreadTypes DEF CheckPc, Thread
  <2>4. EfiTimerList' \in Seq(Event) /\ Sorted(EfiTimerList', Timer) /\ ~ Listed(EfiTimerList', e)
    BY <1>0, <2>2, WithoutSorted
  <2>5. TypeOK' BY <2>1, <2>3, <2>4 DEF ListInv, TypeOK, CheckScan, ThreadType
  <2>6. ListSorted' BY <2>3, <2>4, SortedNext DEF CheckScan
  <2> QED BY <2>5, <2>6 DEF ListInv
<1>2. CASE ~ ScanTakes(thread.time)
  <2>1. thread' = Idle /\ EfiTimerList' = EfiTimerList BY <1>2 DEF CheckScan
  <2>2. thread' \in ThreadType /\ thread'.pc = "idle" BY <2>1, ThreadTypes DEF Idle, Thread
  <2>3. TypeOK' BY <2>1, <2>2 DEF ListInv, TypeOK, CheckScan, ThreadType
  <2>4. ListSorted' BY <1>0, <2>1, <2>2, SortedNext DEF CheckScan, Holding
  <2> QED BY <2>3, <2>4 DEF ListInv
<1> QED BY <1>1, <1>2

\* CheckTimers signals the timer it holds.
LEMMA SignalListInv ==
    ASSUME ListInv, CheckSignal
    PROVE  ListInv'
<1>0. thread \in ThreadType /\ thread.ev \in Event /\ thread.pc = "signal"
  BY DEF ListInv, TypeOK, ThreadType, CheckSignal
<1>1. thread' \in ThreadType /\ thread'.pc = "rearm" /\ thread'.ev = thread.ev
  BY <1>0, GotoTypes DEF CheckSignal, CheckPc
<1>2. request' \in [Event -> [type : TimerType, start : Time, delay : Time, fired : Nat]]
  <2> DEFINE f == request[thread.ev].fired
             n == IF f > MaxTime THEN f ELSE f + 1
  <2>1. request \in [Event -> [type : TimerType, start : Time, delay : Time, fired : Nat]] /\ n \in Nat
    BY <1>0 DEF ListInv, TypeOK
  <2>2. request' = [request EXCEPT ![thread.ev].fired = n] BY DEF CheckSignal
  <2> HIDE DEF n
  <2> QED BY <1>0, <2>1, <2>2
<1>3. TypeOK' BY <1>0, <1>1, <1>2 DEF ListInv, TypeOK, CheckSignal, ThreadType
<1>4. ListSorted' BY <1>0, <1>1, SortedNow, SortedNext DEF ListInv, CheckSignal, Holding
<1> QED BY <1>3, <1>4 DEF ListInv

\* A periodic timer gets its next time while it is not linked.
LEMMA RearmListInv ==
    ASSUME ListInv, CheckRearm
    PROVE  ListInv'
<1>0. /\ EfiTimerList \in Seq(Event) /\ Timer \in Times /\ thread \in ThreadType /\ thread.ev \in Event
      /\ thread.pc = "rearm" /\ thread.time \in Time
  BY DEF ListInv, TypeOK, Times, ThreadType, CheckRearm
<1>1. Sorted(EfiTimerList, Timer) /\ ~ Listed(EfiTimerList, thread.ev)
  BY <1>0, SortedNow DEF ListInv, Holding
<1> DEFINE old == Timer[thread.ev].TriggerTime
           period == Timer[thread.ev].Period
<1>2. CASE period # 0
  <2>1. old \in Time /\ period \in Time BY <1>0 DEF Times
  <2>2. NextTrigger(old, period, thread.time) \in Time BY <1>0, <2>1, TimeSums DEF NextTrigger
  <2>3. /\ Timer' = [Timer EXCEPT ![thread.ev].TriggerTime = NextTrigger(old, period, thread.time)]
        /\ Goto("requeue") /\ check' \in BOOLEAN
    BY <1>2 DEF CheckRearm, ListInv, TypeOK
  <2>4. Timer' \in Times /\ \A d \in Event : d # thread.ev => Timer'[d] = Timer[d]
    BY <1>0, <2>2, <2>3 DEF Times
  <2>5. thread' \in ThreadType /\ thread'.pc = "requeue" /\ thread'.ev = thread.ev
    BY <1>0, <2>3, GotoTypes DEF CheckPc
  <2>6. TypeOK' BY <1>0, <2>3, <2>4, <2>5 DEF ListInv, TypeOK, CheckRearm, Times, ThreadType
  <2>7. Sorted(EfiTimerList, Timer') BY <1>0, <1>1, <2>4, SortedByOthers
  <2>8. ListSorted' BY <1>1, <2>5, <2>7, SortedNext DEF CheckRearm
  <2> QED BY <2>6, <2>8 DEF ListInv
<1>3. CASE period = 0
  <2>1. Goto("scan") /\ UNCHANGED <<Timer, check>> BY <1>3 DEF CheckRearm
  <2>2. thread' \in ThreadType /\ thread'.pc = "scan" BY <1>0, <2>1, GotoTypes DEF CheckPc
  <2>3. TypeOK' BY <2>1, <2>2 DEF ListInv, TypeOK, CheckRearm, ThreadType
  <2>4. ListSorted' BY <1>1, <2>1, <2>2, SortedNext DEF CheckRearm, Holding
  <2> QED BY <2>3, <2>4 DEF ListInv
<1> QED BY <1>2, <1>3

\* Every step preserves TypeOK and ListSorted.
LEMMA NextListInv == ListInv /\ [Next]_vars => ListInv'
<1> SUFFICES ASSUME ListInv, [Next]_vars PROVE ListInv' OBVIOUS
<1>1. ASSUME NEW d \in Duration, FwTimerTick(d) PROVE ListInv' BY <1>1, TickListInv
<1>2. ASSUME NEW e \in Event, NEW type \in TimerType, NEW t \in Delay, SetTimer(e, type, t) PROVE ListInv'
  BY <1>2, SetTimerListInv
<1>3. CASE SetStamp BY <1>3, StampListInv
<1>4. CASE SetInsert BY <1>4, LinkListInv DEF SetInsert
<1>5. CASE SetKick BY <1>5, KickListInv
<1>6. CASE CheckTimers BY <1>6, CheckListInv
<1>7. CASE CheckScan BY <1>7, ScanListInv
<1>8. CASE CheckSignal BY <1>8, SignalListInv
<1>9. CASE CheckRearm BY <1>9, RearmListInv
<1>10. CASE CheckRequeue BY <1>10, LinkListInv DEF CheckRequeue
<1>11. CASE UNCHANGED vars
  <2>1. TypeOK' BY <1>11 DEF ListInv, TypeOK, vars
  <2>2. ListSorted' BY <1>11, SortedNow, SortedNext DEF ListInv, vars
  <2> QED BY <2>1, <2>2 DEF ListInv
<1> QED BY <1>1, <1>2, <1>3, <1>4, <1>5, <1>6, <1>7, <1>8, <1>9, <1>10, <1>11 DEF Next, Step

-----------------------------------------------------------------------------
(* Punctual *)

\* Punctual, of one timer.
PunctualAt(e) ==
    LET r == request[e]
        elapsed == EfiSystemTime - r.start
    IN  /\ r.fired > 0 => r.type # "Cancel" /\ r.delay <= elapsed
        /\ r.type = "Relative" => r.fired <= 1
        /\ r.type = "Periodic" /\ r.delay > 0 => r.fired * r.delay <= elapsed

Late(e) == TriggersLate(e) /\ PunctualAt(e)

\* The fields of a timer and of its request are natural numbers.
LEMMA Fields ==
    ASSUME TypeOK, NEW e \in Event
    PROVE  /\ request[e].start \in Nat /\ request[e].delay \in Nat /\ request[e].fired \in Nat
           /\ request[e].type \in TimerType
           /\ Timer[e].TriggerTime \in Nat /\ Timer[e].Period \in Nat
           /\ EfiSystemTime \in Nat /\ thread.time \in Nat
           /\ request[e].fired * request[e].delay \in Nat
           /\ (request[e].fired + 1) * request[e].delay = request[e].fired * request[e].delay + request[e].delay
<1>1. \A t \in Time : t \in Nat BY TimeAssumption DEF Time
<1>2. /\ request[e].start \in Nat /\ request[e].delay \in Nat /\ request[e].fired \in Nat
      /\ request[e].type \in TimerType
  BY <1>1 DEF TypeOK
<1>3. Timer[e].TriggerTime \in Nat /\ Timer[e].Period \in Nat BY <1>1 DEF TypeOK
<1>4. EfiSystemTime \in Nat /\ thread.time \in Nat BY <1>1 DEF TypeOK
<1>5. \A a, b \in Nat : a * b \in Nat /\ (a + 1) * b = a * b + b BY Z3
<1> QED BY <1>2, <1>3, <1>4, <1>5

\* A step that leaves a timer alone: time goes on and that is all.
LEMMA Untouched ==
    ASSUME TypeOK, TypeOK', NEW e \in Event, Late(e),
           request'[e] = request[e], Timer'[e] = Timer[e], EfiSystemTime <= EfiSystemTime',
           InHand(e, {"stamp"})' => InHand(e, {"stamp"}) /\ thread'.time = thread.time,
           Due(e)' => Due(e),
           InHand(e, {"rearm"})' => InHand(e, {"rearm"}),
           InHand(e, {"signal", "rearm"})' => InHand(e, {"signal", "rearm"}) /\ thread'.time = thread.time
    PROVE  Late(e)'
<1>1. EfiSystemTime' \in Nat
  <2>1. \A t \in Time : t \in Nat BY TimeAssumption DEF Time
  <2> QED BY <2>1 DEF TypeOK
<1> HIDE DEF InHand, Due
<1>2. TriggersLate(e)' BY <1>1, Fields DEF Late, TriggersLate
<1>3. PunctualAt(e)' BY <1>1, Fields DEF Late, PunctualAt
<1> QED BY <1>2, <1>3 DEF Late

LateInv == TypeOK /\ ListSorted /\ ClockInv /\ \A e \in Event : Late(e)

\* LateInv is the invariant of Timers, by events.
LEMMA LateIsIInv == IInv <=> LateInv
BY DEF IInv, LateInv, Late, Punctual, PunctualAt

\* No timer is set at first.
LEMMA InitLate == Init => \A e \in Event : Late(e)
<1> SUFFICES ASSUME Init, NEW e \in Event PROVE Late(e) OBVIOUS
<1>1. request[e] = [type |-> "Cancel", start |-> 0, delay |-> 0, fired |-> 0] BY DEF Init
<1>2. Timer[e].Period = 0 /\ EfiSystemTime = 0 BY DEF Init
<1>3. ~ Armed(e) BY DEF Init, Armed, Listed
<1>4. thread.ev # e BY TimeAssumption DEF Init, Idle, Thread
<1>5. TriggersLate(e) BY <1>1, <1>2, <1>3, <1>4 DEF TriggersLate, Due, InHand
<1>6. PunctualAt(e) BY <1>1 DEF PunctualAt
<1> QED BY <1>5, <1>6 DEF Late

\* Time goes on.
LEMMA TickLate ==
    ASSUME LateInv, TypeOK', NEW d \in Duration, FwTimerTick(d)
    PROVE  ClockInv' /\ \A e \in Event : Late(e)'
<1>0. EfiSystemTime \in Nat /\ d \in Nat /\ MaxTime \in Nat /\ thread.time \in Int /\ EfiSystemTime <= MaxTime
  BY TimeAssumption DEF LateInv, TypeOK, Time, ClockInv
<1>1. EfiSystemTime <= EfiSystemTime' /\ EfiSystemTime' <= MaxTime /\ EfiSystemTime' \in Nat
  BY <1>0 DEF FwTimerTick, Advanced
<1>2. ClockInv' BY <1>0, <1>1 DEF LateInv, ClockInv, FwTimerTick
<1>3. ASSUME NEW e \in Event PROVE Late(e)'
  BY <1>1, <1>3, Untouched DEF LateInv, FwTimerTick, InHand, Due, Armed
<1> QED BY <1>2, <1>3

\* A new request starts its own count.
LEMMA SetTimerLate ==
    ASSUME LateInv, TypeOK', NEW e \in Event, NEW type \in TimerType, NEW t \in Delay, SetTimer(e, type, t)
    PROVE  ClockInv' /\ \A d \in Event : Late(d)'
<1>0. /\ EfiTimerList \in Seq(Event) /\ Timer \in Times /\ Sorted(EfiTimerList, Timer)
      /\ EfiSystemTime \in Nat /\ t \in Nat /\ EfiSystemTime' = EfiSystemTime
  BY SortedNow, TimeAssumption DEF LateInv, TypeOK, Times, Time, SetTimer
<1>1. ~ Listed(EfiTimerList', e) /\ \A d : Listed(EfiTimerList', d) => Listed(EfiTimerList, d)
  BY <1>0, WithoutSorted DEF SetTimer
<1>2. /\ thread'.pc \in {"idle", "stamp"}
      /\ thread'.pc = "stamp" => thread'.ev = e /\ thread'.time = t /\ type # "Cancel"
  BY DEF SetTimer, Idle, Thread
<1>3. ClockInv' BY <1>0, <1>2 DEF LateInv, ClockInv, CheckPc
<1>4. Late(e)'
  <2>1. request'[e] = [type |-> type, start |-> EfiSystemTime, delay |-> t, fired |-> 0]
    BY DEF SetTimer, LateInv, TypeOK
  <2>2. Timer'[e].Period = IF type = "Periodic" THEN t ELSE 0 BY <1>0 DEF SetTimer, Times
  <2>3. ~ Due(e)' /\ ~ InHand(e, {"rearm"})' /\ ~ InHand(e, {"signal", "rearm"})'
    BY <1>1, <1>2 DEF Due, InHand, Armed
  <2>4. InHand(e, {"stamp"})' => type # "Cancel" /\ thread'.time = t BY <1>2 DEF InHand
  <2>5. TriggersLate(e)' BY <1>0, <2>1, <2>2, <2>3, <2>4 DEF TriggersLate
  <2>6. PunctualAt(e)' BY <1>0, <2>1 DEF PunctualAt
  <2> QED BY <2>5, <2>6 DEF Late
<1>5. ASSUME NEW d \in Event, d # e PROVE Late(d)'
  <2>1. request'[d] = request[d] /\ Timer'[d] = Timer[d]
    BY <1>0, <1>5 DEF SetTimer, LateInv, TypeOK, Times
  <2>2. ~ InHand(d, {"stamp"})' /\ ~ InHand(d, {"rearm"})' /\ ~ InHand(d, {"signal", "rearm"})'
    BY <1>2, <1>5 DEF InHand
  <2>3. Due(d)' => Due(d) BY <1>1, <1>2 DEF Due, InHand, Armed
  <2> QED BY <1>0, <1>5, <2>1, <2>2, <2>3, Untouched DEF LateInv
<1> QED BY <1>3, <1>4, <1>5

\* The first trigger time is the delay from now on.
LEMMA StampLate ==
    ASSUME NoWrap, LateInv, TypeOK', SetStamp
    PROVE  ClockInv' /\ \A d \in Event : Late(d)'
<1>e. PICK e \in Event : e = thread.ev BY DEF LateInv, TypeOK, SetStamp
<1>0. /\ e = thread.ev /\ thread \in ThreadType /\ thread.pc = "stamp" /\ Timer \in Times
      /\ EfiSystemTime' = EfiSystemTime /\ EfiTimerList' = EfiTimerList /\ request' = request
  BY <1>e DEF LateInv, TypeOK, ThreadType, Times, SetStamp
<1>1. thread'.pc = "insert" /\ thread'.ev = e BY <1>0, GotoTypes DEF SetStamp, SetPc
<1>2. ClockInv' BY <1>0, <1>1 DEF LateInv, ClockInv, CheckPc
<1>3. /\ Timer'[e].TriggerTime = (EfiSystemTime + thread.time) % TimeMod
      /\ Timer'[e].Period = Timer[e].Period
      /\ \A d \in Event : d # e => Timer'[d] = Timer[d]
  BY <1>0 DEF SetStamp, Times
<1>4. Late(e)'
  <2>1. /\ request[e].type # "Cancel" /\ request[e].fired = 0 /\ request[e].delay = thread.time
        /\ request[e].start <= EfiSystemTime /\ request[e].delay \in Delay \cup {0}
        /\ Timer[e].Period = IF request[e].type = "Periodic" THEN request[e].delay ELSE 0
    BY <1>0 DEF LateInv, Late, TriggersLate, InHand
  <2>2. Timer'[e].TriggerTime = EfiSystemTime + thread.time
    <3>1. EfiSystemTime + thread.time < TimeMod /\ EfiSystemTime + thread.time \in Nat /\ TimeMod \in Nat
      BY <1>0, <2>1, Fields, TimeAssumption DEF LateInv, ClockInv, NoWrap
    <3>2. \A n, m \in Nat : n < m => n % m = n BY Z3
    <3> QED BY <1>3, <3>1, <3>2
  <2>3. ~ InHand(e, {"stamp"})' /\ ~ InHand(e, {"rearm"})' /\ ~ InHand(e, {"signal", "rearm"})'
    BY <1>1 DEF InHand
  <2>4. TriggersLate(e)' BY <1>0, <1>3, <2>1, <2>2, <2>3, Fields DEF TriggersLate, LateInv
  <2>5. PunctualAt(e)' BY <1>0, <2>1, Fields DEF PunctualAt, LateInv, Late
  <2> QED BY <2>4, <2>5 DEF Late
<1>5. ASSUME NEW d \in Event, d # e PROVE Late(d)'
  <2>1. ~ InHand(d, {"stamp"})' /\ ~ InHand(d, {"rearm"})' /\ ~ InHand(d, {"signal", "rearm"})'
    BY <1>1, <1>5 DEF InHand
  <2>2. Due(d)' => Due(d) BY <1>0, <1>1, <1>5 DEF Due, InHand, Armed
  <2> QED BY <1>0, <1>3, <1>5, <2>1, <2>2, Fields, Untouched DEF LateInv
<1> QED BY <1>0, <1>2, <1>4, <1>5

\* Linking a timer keeps its trigger time.
LEMMA LinkLate ==
    ASSUME LateInv, TypeOK', thread.pc \in {"insert", "requeue"}, NEW pc \in {"kick", "scan"},
           pc = "scan" => thread.pc = "requeue",
           InsertEventTimer(thread.ev), Goto(pc), UNCHANGED <<EfiSystemTime, Timer, check, request>>
    PROVE  ClockInv' /\ \A d \in Event : Late(d)'
<1>0. /\ EfiTimerList \in Seq(Event) /\ Timer \in Times /\ thread \in ThreadType /\ thread.ev \in Event
  BY DEF LateInv, TypeOK, Times, ThreadType
<1>1. Sorted(EfiTimerList, Timer) /\ ~ Listed(EfiTimerList, thread.ev)
  BY SortedNow DEF LateInv, Holding
<1>2. \A d : Listed(EfiTimerList', d) => Listed(EfiTimerList, d) \/ d = thread.ev BY <1>0, <1>1, InsertSorted
<1>3. thread'.pc = pc /\ thread'.ev = thread.ev /\ thread'.time = thread.time
  BY <1>0, GotoTypes DEF SetPc, CheckPc
<1>4. ClockInv' BY <1>3 DEF LateInv, ClockInv, CheckPc
<1>5. ASSUME NEW d \in Event PROVE Late(d)'
  <2>1. ~ InHand(d, {"stamp"})' /\ ~ InHand(d, {"rearm"})' /\ ~ InHand(d, {"signal", "rearm"})'
    BY <1>3 DEF InHand
  <2>2. Due(d)' => Due(d) BY <1>2, <1>3 DEF Due, InHand, Armed
  <2> QED BY <1>5, <2>1, <2>2, Fields, Untouched DEF LateInv
<1> QED BY <1>4, <1>5

\* Taking and releasing the lock.
LEMMA IdleLate ==
    ASSUME LateInv, TypeOK', thread'.pc \in {"idle", "scan"}, EfiTimerList' = EfiTimerList,
           thread'.pc = "scan" => thread'.time <= EfiSystemTime,
           UNCHANGED <<EfiSystemTime, Timer, request>>
    PROVE  ClockInv' /\ \A d \in Event : Late(d)'
<1>1. ClockInv' BY DEF LateInv, ClockInv, CheckPc
<1>2. ASSUME NEW d \in Event PROVE Late(d)'
  <2>1. ~ InHand(d, {"stamp"})' /\ ~ InHand(d, {"rearm"})' /\ ~ InHand(d, {"signal", "rearm"})'
    BY DEF InHand
  <2>2. Due(d)' => Due(d) BY DEF Due, InHand, Armed
  <2> QED BY <1>2, <2>1, <2>2, Fields, Untouched DEF LateInv
<1> QED BY <1>1, <1>2

\* What CheckTimers takes has expired.
LEMMA ScanLate ==
    ASSUME LateInv, TypeOK', CheckScan
    PROVE  ClockInv' /\ \A d \in Event : Late(d)'
<1>0. EfiTimerList \in Seq(Event) /\ Timer \in Times /\ Sorted(EfiTimerList, Timer)
  BY SortedNow DEF LateInv, TypeOK, Times
<1>1. CASE ~ ScanTakes(thread.time)
  <2>1. thread'.pc = "idle" /\ EfiTimerList' = EfiTimerList BY <1>1 DEF CheckScan, Idle, Thread
  <2> QED BY <2>1, IdleLate DEF CheckScan
<1>2. CASE ScanTakes(thread.time)
  <2>e. PICK e \in Event : e = Head(EfiTimerList) BY <1>0, <1>2 DEF ScanTakes, Expired
  <2>1. Listed(EfiTimerList, e) /\ Timer[e].TriggerTime <= thread.time
    BY <1>0, <1>2, <2>e DEF ScanTakes, Expired, Listed
  <2>2. thread' = Thread("signal", e, thread.time) /\ EfiTimerList' = Without(EfiTimerList, e)
    BY <1>2, <2>e DEF CheckScan
  <2>3. thread'.pc = "signal" /\ thread'.ev = e /\ thread'.time = thread.time BY <2>2 DEF Thread
  <2>4. \A d : Listed(EfiTimerList', d) => Listed(EfiTimerList, d) BY <1>0, <2>2, WithoutSorted
  <2>5. ClockInv' BY <2>3 DEF LateInv, ClockInv, CheckPc, CheckScan
  <2>6. ASSUME NEW d \in Event PROVE Due(d)' => Due(d)
    BY <2>1, <2>3, <2>4 DEF Due, InHand, Armed
  <2>7. ASSUME NEW d \in Event PROVE ~ InHand(d, {"stamp"})' /\ ~ InHand(d, {"rearm"})'
    BY <2>3 DEF InHand
  <2>8. Late(e)'
    <3>1. TriggersLate(e)'
      BY <2>1, <2>3, <2>6, <2>7, Fields DEF LateInv, Late, TriggersLate, CheckScan
    <3>2. PunctualAt(e)' BY <2>1 DEF LateInv, Late, PunctualAt, CheckScan
    <3> QED BY <3>1, <3>2 DEF Late
  <2>9. ASSUME NEW d \in Event, d # e PROVE Late(d)'
    <3>1. ~ InHand(d, {"signal", "rearm"})' BY <2>3, <2>9 DEF InHand
    <3> QED BY <2>6, <2>7, <2>9, <3>1, Fields, Untouched DEF LateInv, CheckScan
  <2> QED BY <2>5, <2>8, <2>9
<1> QED BY <1>1, <1>2

\* A timer is signalled at or after its trigger time.
LEMMA SignalLate ==
    ASSUME LateInv, TypeOK', CheckSignal
    PROVE  ClockInv' /\ \A d \in Event : Late(d)'
<1>e. PICK e \in Event : e = thread.ev BY DEF LateInv, TypeOK, CheckSignal
<1> DEFINE f == request[e].fired
           n == IF f > MaxTime THEN f ELSE f + 1
<1>0. /\ e = thread.ev /\ thread \in ThreadType /\ thread.pc = "signal"
      /\ request \in [Event -> [type : TimerType, start : Time, delay : Time, fired : Nat]]
      /\ EfiSystemTime' = EfiSystemTime /\ EfiTimerList' = EfiTimerList /\ Timer' = Timer
  BY <1>e DEF LateInv, TypeOK, ThreadType, CheckSignal
<1>1. thread'.pc = "rearm" /\ thread'.ev = e /\ thread'.time = thread.time
  BY <1>0, GotoTypes DEF CheckSignal, CheckPc
<1>2. request' = [request EXCEPT ![e].fired = n] BY <1>0 DEF CheckSignal
<1>3. n \in Nat /\ n <= f + 1 /\ f \in Nat BY <1>0, Fields DEF LateInv
<1> HIDE DEF n
<1>4. /\ request'[e].type = request[e].type /\ request'[e].start = request[e].start
      /\ request'[e].delay = request[e].delay /\ request'[e].fired = n
      /\ \A d \in Event : d # e => request'[d] = request[d]
  BY <1>0, <1>2
<1>5. ClockInv' BY <1>0, <1>1 DEF LateInv, ClockInv, CheckPc
<1>6. ~ Listed(EfiTimerList, e) BY <1>0, SortedNow DEF LateInv, Holding
<1>7. Late(e)'
  <2>1. /\ request[e].type # "Cancel" /\ request[e].start + request[e].delay <= Timer[e].TriggerTime
        /\ request[e].type = "Relative" => f = 0
        /\ request[e].type = "Periodic" => request[e].start + (f + 1) * request[e].delay <= Timer[e].TriggerTime
        /\ Timer[e].TriggerTime <= thread.time /\ thread.time <= EfiSystemTime
    <3>1. Due(e) /\ InHand(e, {"signal", "rearm"}) BY <1>0 DEF Due, InHand
    <3>2. TriggersLate(e) BY <1>0 DEF LateInv, Late
    <3>3. thread.time <= EfiSystemTime BY <1>0 DEF LateInv, ClockInv, CheckPc
    <3> QED BY <3>1, <3>2, <3>3 DEF TriggersLate
  <2>2. n * request[e].delay \in Nat /\ n * request[e].delay <= (f + 1) * request[e].delay
        /\ (f + 1) * request[e].delay \in Nat
    <3>1. \A a, b, c \in Nat : a <= b => a * c \in Nat /\ b * c \in Nat /\ a * c <= b * c BY Z3
    <3>2. f + 1 \in Nat /\ request[e].delay \in Nat BY <1>0, <1>3, Fields DEF LateInv
    <3> QED BY <1>3, <3>1, <3>2
  <2>3. ~ Due(e)' /\ ~ InHand(e, {"stamp"})' BY <1>0, <1>1, <1>6 DEF Due, InHand, Armed
  <2>4. /\ request[e].start <= EfiSystemTime /\ request[e].delay \in Delay \cup {0}
        /\ Timer[e].Period = IF request[e].type = "Periodic" THEN request[e].delay ELSE 0
    BY <1>0 DEF LateInv, Late, TriggersLate
  <2>5. TriggersLate(e)'
    BY <1>0, <1>1, <1>3, <1>4, <2>1, <2>2, <2>3, <2>4, Fields DEF TriggersLate, LateInv
  <2>6. PunctualAt(e)'
    BY <1>0, <1>3, <1>4, <2>1, <2>2, Fields DEF PunctualAt, LateInv
  <2> QED BY <2>5, <2>6 DEF Late
<1>8. ASSUME NEW d \in Event, d # e PROVE Late(d)'
  <2>1. ~ InHand(d, {"stamp"})' /\ ~ InHand(d, {"rearm"})' /\ ~ InHand(d, {"signal", "rearm"})'
    BY <1>1, <1>8 DEF InHand
  <2>2. Due(d)' => Due(d) BY <1>0, <1>1 DEF Due, InHand, Armed
  <2> QED BY <1>0, <1>4, <1>8, <2>1, <2>2, Fields, Untouched DEF LateInv
<1> QED BY <1>0, <1>5, <1>7, <1>8

\* The next trigger time is a period later, or later than that.
LEMMA RearmLate ==
    ASSUME NoWrap, LateInv, TypeOK', CheckRearm
    PROVE  ClockInv' /\ \A d \in Event : Late(d)'
<1>e. PICK e \in Event : e = thread.ev BY DEF LateInv, TypeOK, CheckRearm
<1> DEFINE old == Timer[e].TriggerTime
           period == Timer[e].Period
<1>0. /\ e = thread.ev /\ thread \in ThreadType /\ thread.pc = "rearm" /\ Timer \in Times
      /\ EfiSystemTime' = EfiSystemTime /\ EfiTimerList' = EfiTimerList /\ request' = request
  BY <1>e DEF LateInv, TypeOK, ThreadType, Times, CheckRearm
<1>1. thread.time <= EfiSystemTime BY <1>0 DEF LateInv, ClockInv, CheckPc
<1>2. CASE period = 0
  <2>1. Goto("scan") /\ UNCHANGED <<Timer, check>> BY <1>0, <1>2 DEF CheckRearm
  <2>2. thread'.pc = "scan" /\ thread'.time = thread.time BY <1>0, <2>1, GotoTypes DEF CheckPc
  <2> QED BY <1>0, <1>1, <2>1, <2>2, IdleLate DEF CheckRearm
<1>3. CASE period # 0
  <2>1. Timer' = [Timer EXCEPT ![e].TriggerTime = NextTrigger(old, period, thread.time)] /\ Goto("requeue")
    BY <1>0, <1>3 DEF CheckRearm
  <2>2. thread'.pc = "requeue" /\ thread'.ev = e /\ thread'.time = thread.time
    BY <1>0, <2>1, GotoTypes DEF CheckPc
  <2>3. /\ Timer'[e].TriggerTime = NextTrigger(old, period, thread.time)
        /\ Timer'[e].Period = period
        /\ \A d \in Event : d # e => Timer'[d] = Timer[d]
    BY <1>0, <2>1 DEF Times
  <2>4. ClockInv' BY <1>0, <1>1, <2>2 DEF LateInv, ClockInv, CheckPc
  <2>5. /\ request[e].type = "Periodic" /\ request[e].delay = period /\ period \in Delay
        /\ request[e].start + request[e].delay <= old
        /\ request[e].start + request[e].fired * request[e].delay <= old
        /\ old <= thread.time /\ request[e].start <= EfiSystemTime
    <3>1. InHand(e, {"rearm"}) /\ InHand(e, {"signal", "rearm"}) BY <1>0 DEF InHand
    <3>2. TriggersLate(e) BY <1>0 DEF LateInv, Late
    <3> QED BY <1>3, <3>1, <3>2 DEF TriggersLate
  <2>6. /\ NextTrigger(old, period, thread.time) \in Nat
        /\ old + period <= NextTrigger(old, period, thread.time)
    <3>1. old \in Nat /\ period \in Nat /\ thread.time \in Nat /\ EfiSystemTime \in Nat
      BY <1>0, Fields DEF LateInv
    <3>2. old + period < TimeMod /\ TimeMod \in Nat
      BY <1>1, <2>5, <3>1, TimeAssumption DEF LateInv, ClockInv, NoWrap
    <3>3. \A i, j \in Nat : i < j => i % j = i BY Z3
    <3> HIDE DEF old, period
    <3>4. (old + period) % TimeMod = old + period
      <4>1. old + period \in Nat BY <3>1
      <4> QED BY <3>2, <3>3, <4>1
    <3> QED BY <3>1, <3>4 DEF NextTrigger
  <2>7. ~ InHand(e, {"stamp"})' /\ ~ InHand(e, {"rearm"})' /\ ~ InHand(e, {"signal", "rearm"})'
    BY <2>2 DEF InHand
  <2>8. Late(e)'
    <3>1. TriggersLate(e)'
      <4>1. old \in Nat /\ period \in Nat BY <1>0, Fields DEF LateInv
      <4> HIDE DEF old, period
      <4> QED BY <1>0, <2>3, <2>5, <2>6, <2>7, <4>1, Fields DEF TriggersLate, LateInv
    <3>2. PunctualAt(e)' BY <1>0 DEF LateInv, Late, PunctualAt
    <3> QED BY <3>1, <3>2 DEF Late
  <2>9. ASSUME NEW d \in Event, d # e PROVE Late(d)'
    <3>1. ~ InHand(d, {"stamp"})' /\ ~ InHand(d, {"rearm"})' /\ ~ InHand(d, {"signal", "rearm"})'
      BY <2>2, <2>9 DEF InHand
    <3>2. Due(d)' => Due(d) BY <1>0, <2>2, <2>9 DEF Due, InHand, Armed
    <3> QED BY <1>0, <2>3, <2>9, <3>1, <3>2, Fields, Untouched DEF LateInv
  <2> QED BY <2>4, <2>8, <2>9
<1> QED BY <1>2, <1>3

\* Every step preserves LateInv.
LEMMA NextLateInv == NoWrap /\ LateInv /\ [Next]_vars => LateInv'
<1> SUFFICES ASSUME NoWrap, LateInv, [Next]_vars PROVE LateInv' OBVIOUS
<1>0. TypeOK' /\ ListSorted' BY NextListInv DEF LateInv, ListInv
<1> SUFFICES ClockInv' /\ \A e \in Event : Late(e)' BY <1>0 DEF LateInv
<1>1. ASSUME NEW d \in Duration, FwTimerTick(d) PROVE ClockInv' /\ \A e \in Event : Late(e)'
  BY <1>0, <1>1, TickLate
<1>2. ASSUME NEW e \in Event, NEW type \in TimerType, NEW t \in Delay, SetTimer(e, type, t)
      PROVE  ClockInv' /\ \A d \in Event : Late(d)'
  BY <1>0, <1>2, SetTimerLate
<1>3. CASE SetStamp BY <1>0, <1>3, StampLate
<1>4. CASE SetInsert BY <1>0, <1>4, LinkLate DEF SetInsert
<1>5. CASE SetKick
  <2>1. thread'.pc = "idle" BY <1>5 DEF SetKick, Idle, Thread
  <2> QED BY <1>0, <1>5, <2>1, IdleLate DEF SetKick
<1>6. CASE CheckTimers
  <2>1. thread'.pc = "scan" /\ thread'.time = EfiSystemTime BY <1>6 DEF CheckTimers, Thread
  <2>2. EfiSystemTime \in Int BY DEF LateInv, TypeOK, Time
  <2> QED BY <1>0, <1>6, <2>1, <2>2, IdleLate DEF CheckTimers
<1>7. CASE CheckScan BY <1>0, <1>7, ScanLate
<1>8. CASE CheckSignal BY <1>0, <1>8, SignalLate
<1>9. CASE CheckRearm BY <1>0, <1>9, RearmLate
<1>10. CASE CheckRequeue BY <1>0, <1>10, LinkLate DEF CheckRequeue
<1>11. CASE UNCHANGED vars
  <2>1. ClockInv' BY <1>11 DEF LateInv, ClockInv, vars
  <2>2. ASSUME NEW e \in Event PROVE Late(e)'
    BY <1>11 DEF LateInv, Late, TriggersLate, PunctualAt, Due, InHand, Armed, vars
  <2> QED BY <2>1, <2>2
<1> QED BY <1>1, <1>2, <1>3, <1>4, <1>5, <1>6, <1>7, <1>8, <1>9, <1>10, <1>11 DEF Next, Step

-----------------------------------------------------------------------------
(* Theorems *)

\* The globals of timer.c and the fields of the events keep their types.
THEOREM TimerTypes == Spec => []TypeOK
<1>1. ListInv => TypeOK BY DEF ListInv
<1> QED BY <1>1, InitListInv, NextListInv, PTL DEF Spec

\* The timer interrupt, whenever it comes, finds a sorted list in which no event
\* is linked twice, and the event being handled is not linked (timer.c:181-192,
\* 235-286, 372-396).
THEOREM TimerListSorted == Spec => []ListSorted
<1>1. ListInv => ListSorted BY DEF ListInv
<1> QED BY <1>1, InitListInv, NextListInv, PTL DEF Spec

\* As long as no trigger time exceeds 64 bits, every trigger time is late enough
\* for the signals the timer has had.
THEOREM TimerInvariant == ASSUME NoWrap PROVE Spec => []IInv
<1>1. Init => LateInv
  <2>1. Init => ClockInv BY TimeAssumption DEF Init, ClockInv, Idle, Thread, CheckPc
  <2> QED BY <2>1, InitLate, InitListInv DEF LateInv, ListInv
<1>2. LateInv /\ [Next]_vars => LateInv' BY NextLateInv
<1>3. LateInv => IInv BY LateIsIInv
<1> QED BY <1>1, <1>2, <1>3, PTL DEF Spec

\* As long as no trigger time exceeds 64 bits, no timer fires early, a one-shot
\* timer fires once, and a periodic timer never gets ahead of its periods,
\* however late CheckTimers runs (timer.c:265-278).
THEOREM TimersPunctual == ASSUME NoWrap PROVE Spec => []Punctual
<1>1. IInv => Punctual BY DEF IInv
<1> QED BY <1>1, TimerInvariant, PTL
====
