----------------------------- MODULE ExecProofs -----------------------------
(***************************************************************************)
(* Proofs about Exec for every set of events, every choice of levels and   *)
(* every depth of the call stack: first task priority levels and the lock, *)
(* then the events.                                                        *)
(***************************************************************************)
EXTENDS Exec, SequenceTheorems, WellFoundedInduction, TLAPS

-----------------------------------------------------------------------------
(* Sequences *)

\* What AcquireLock's and the services' Push leaves of the stack.
LEMMA AppendFacts ==
    ASSUME NEW S, NEW s \in Seq(S), NEW f \in S
    PROVE  /\ Append(s, f) \in Seq(S)
           /\ Len(Append(s, f)) = Len(s) + 1
           /\ \A i \in 1..Len(s) : Append(s, f)[i] = s[i]
           /\ Append(s, f)[Len(s) + 1] = f
  OBVIOUS

\* What a return leaves of the stack.
LEMMA PopFacts ==
    ASSUME NEW S, NEW s \in Seq(S), s # <<>>
    PROVE  /\ SubSeq(s, 1, Len(s) - 1) \in Seq(S)
           /\ Len(SubSeq(s, 1, Len(s) - 1)) = Len(s) - 1
           /\ \A i \in 1..(Len(s) - 1) : SubSeq(s, 1, Len(s) - 1)[i] = s[i]
  <1> DEFINE n == Len(s) - 1
  <1>1. 1 \in Int /\ n \in Nat /\ \A i \in 1..n : s[i] \in S
    OBVIOUS
  <1> HIDE DEF n
  <1>2. /\ SubSeq(s, 1, n) \in Seq(S)
        /\ Len(SubSeq(s, 1, n)) = IF 1 <= n THEN n - 1 + 1 ELSE 0
        /\ \A i \in 1 .. (n - 1 + 1) : SubSeq(s, 1, n)[i] = s[1 + i - 1]
    BY <1>1, SubSeqProperties
  <1>3. Len(SubSeq(s, 1, n)) = n /\ \A i \in 1..n : SubSeq(s, 1, n)[i] = s[i]
    BY <1>1, <1>2
  <1> QED BY <1>2, <1>3 DEF n

\* What a step of the running frame leaves of the stack.
LEMMA TopFacts ==
    ASSUME NEW S, NEW s \in Seq(S), s # <<>>, NEW f \in S
    PROVE  /\ [s EXCEPT ![Len(s)] = f] \in Seq(S)
           /\ Len([s EXCEPT ![Len(s)] = f]) = Len(s)
           /\ \A i \in 1..(Len(s) - 1) : [s EXCEPT ![Len(s)] = f][i] = s[i]
           /\ [s EXCEPT ![Len(s)] = f][Len(s)] = f
  OBVIOUS

\* Unlinking an entry removes one occurrence of it and nothing else.
LEMMA RemoveFacts ==
    ASSUME NEW S, NEW q \in Seq(S), NEW e
    PROVE  /\ RemoveEntryList(q, e) \in Seq(S)
           /\ Len(RemoveEntryList(q, e)) <= Len(q)
           /\ \A x : x # e => (InList(RemoveEntryList(q, e), x) <=> InList(q, x))
  <1>1. CASE ~ InList(q, e)
    BY <1>1 DEF RemoveEntryList
  <1>2. CASE InList(q, e)
    <2> DEFINE k == CHOOSE i \in 1..Len(q) : q[i] = e
               r == [i \in 1..(Len(q) - 1) |-> IF i < k THEN q[i] ELSE q[i + 1]]
    <2>1. k \in 1..Len(q) /\ q[k] = e
      BY <1>2 DEF InList
    <2>2. RemoveEntryList(q, e) = r
      BY <1>2 DEF RemoveEntryList
    <2> HIDE DEF k
    <2>3. r \in Seq(S) /\ Len(r) = Len(q) - 1
      BY <2>1
    <2>4. ASSUME NEW x, x # e PROVE InList(r, x) <=> InList(q, x)
      <3>1. ASSUME InList(r, x) PROVE InList(q, x)
        BY <2>1, <2>3, <3>1 DEF InList
      <3>2. ASSUME InList(q, x) PROVE InList(r, x)
        <4>1. PICK i \in 1..Len(q) : q[i] = x
          BY <3>2 DEF InList
        <4>2. i # k
          BY <2>1, <2>4, <4>1
        <4>3. CASE i < k
          BY <2>1, <2>3, <4>1, <4>3 DEF InList
        <4>4. CASE i > k
          <5>1. i - 1 \in 1..Len(r) /\ r[i - 1] = x
            BY <2>1, <2>3, <4>1, <4>4
          <5> QED BY <5>1 DEF InList
        <4> QED BY <2>1, <4>1, <4>2, <4>3, <4>4
      <3> QED BY <3>1, <3>2
    <2> HIDE DEF r
    <2> QED BY <2>2, <2>3, <2>4
  <1> QED BY <1>1, <1>2

-----------------------------------------------------------------------------
(* The shapes of a step on the call stack.  Each lemma says what the frames *)
(* that stay suspended keep, and leaves the running frame to the action.    *)

\* The running frame moves on to f, on behalf of the same caller.
LEMMA BecomeStep ==
    ASSUME StackType, StackInv, stack # <<>>, NEW f \in Frame, FrameOK(f),
           f.tpl = top.tpl, top.pc \in RestorePc => f.pc \in RestorePc, Become(f)
    PROVE  StackType' /\ StackInv' /\ stack' # <<>> /\ top' = f
  <1>1. /\ stack' \in Seq(Frame) /\ Len(stack') = Len(stack) /\ Len(stack) \in Nat \ {0}
        /\ \A i \in 1..(Len(stack) - 1) : stack'[i] = stack[i]
        /\ stack'[Len(stack)] = f
    BY TopFacts DEF Become, StackType
  <1>2. StackType'
    BY <1>1 DEF StackType
  <1>3. top' = f /\ stack' # <<>>
    BY <1>1 DEF top
  <1>4. StackInv'
    BY <1>1 DEF StackInv, Suspended, LevelOK, top
  <1> QED BY <1>2, <1>3, <1>4

\* The running frame calls, or is interrupted by, frame f.
LEMMA PushStep ==
    ASSUME StackType, StackInv, NEW f \in Frame, FrameOK(f),
           stack # <<>> => Suspended(top, f), Push(f)
    PROVE  StackType' /\ StackInv' /\ stack' # <<>> /\ top' = f
  <1>1. /\ stack' \in Seq(Frame) /\ Len(stack') = Len(stack) + 1 /\ Len(stack) \in Nat
        /\ \A i \in 1..Len(stack) : stack'[i] = stack[i]
        /\ stack'[Len(stack) + 1] = f
    BY AppendFacts DEF Push, StackType
  <1>2. StackType'
    BY <1>1 DEF StackType
  <1>3. top' = f /\ stack' # <<>>
    BY <1>1 DEF top
  <1>4. StackInv'
    <2> SUFFICES ASSUME NEW i \in 1..Len(stack)
                 PROVE  Suspended(stack'[i], stack'[i + 1])
      BY <1>1 DEF StackInv, Suspended, LevelOK
    <2>1. CASE i = Len(stack)
      BY <1>1, <2>1 DEF top
    <2>2. CASE i # Len(stack)
      BY <1>1, <2>2 DEF StackInv
    <2> QED BY <2>1, <2>2
  <1> QED BY <1>2, <1>3, <1>4

\* The running frame moves on to f and calls g.
LEMMA BecomeUnderStep ==
    ASSUME StackType, StackInv, stack # <<>>,
           NEW f \in Frame, FrameOK(f), NEW g \in Frame, FrameOK(g),
           f.tpl = top.tpl, top.pc \in RestorePc => f.pc \in RestorePc,
           Suspended(f, g), BecomeUnder(f, g)
    PROVE  StackType' /\ StackInv' /\ stack' # <<>> /\ top' = g
  <1> DEFINE t == [stack EXCEPT ![Len(stack)] = f]
  <1>1. /\ t \in Seq(Frame) /\ Len(t) = Len(stack) /\ Len(stack) \in Nat \ {0}
        /\ \A i \in 1..(Len(stack) - 1) : t[i] = stack[i]
        /\ t[Len(stack)] = f
    BY TopFacts DEF StackType
  <1>2. stack' = Append(t, g)
    BY DEF BecomeUnder
  <1> HIDE DEF t
  <1>3. /\ stack' \in Seq(Frame) /\ Len(stack') = Len(stack) + 1
        /\ \A i \in 1..Len(stack) : stack'[i] = t[i]
        /\ stack'[Len(stack) + 1] = g
    BY <1>1, <1>2, AppendFacts
  <1>4. StackType'
    BY <1>1, <1>3 DEF StackType
  <1>5. top' = g /\ stack' # <<>>
    BY <1>1, <1>3 DEF top
  <1>6. StackInv'
    <2> SUFFICES ASSUME NEW i \in 1..Len(stack)
                 PROVE  Suspended(stack'[i], stack'[i + 1])
      BY <1>1, <1>3 DEF StackInv, Suspended, LevelOK
    <2>1. CASE i = Len(stack)
      BY <1>1, <1>3, <2>1
    <2>2. CASE i = Len(stack) - 1
      <3>1. stack'[i] = stack[i] /\ stack'[i + 1] = f /\ stack[i + 1] = top
        BY <1>1, <1>3, <2>2 DEF top
      <3>2. Suspended(stack[i], top)
        BY <1>1, <2>2, <3>1 DEF StackInv
      <3> QED BY <3>1, <3>2 DEF Suspended, LevelOK
    <2>3. CASE i < Len(stack) - 1
      BY <1>1, <1>3, <2>3 DEF StackInv
    <2> QED BY <1>1, <2>1, <2>2, <2>3
  <1> QED BY <1>4, <1>5, <1>6

\* The running frame returns.
LEMMA PopStep ==
    ASSUME StackType, StackInv, stack # <<>>, Pop
    PROVE  /\ StackType' /\ StackInv'
           /\ stack' # <<>> => Suspended(top', top) /\ top' \in Frame /\ FrameOK(top')
  <1>1. /\ stack' \in Seq(Frame) /\ Len(stack') = Len(stack) - 1 /\ Len(stack) \in Nat \ {0}
        /\ \A i \in 1..(Len(stack) - 1) : stack'[i] = stack[i]
    BY PopFacts DEF Pop, StackType
  <1>2. StackType'
    BY <1>1 DEF StackType
  <1>3. StackInv'
    BY <1>1 DEF StackInv, Suspended, LevelOK
  <1>4. ASSUME stack' # <<>>
        PROVE  Suspended(top', top) /\ top' \in Frame /\ FrameOK(top')
    <2>1. Len(stack) > 1 /\ top' = stack[Len(stack) - 1]
      BY <1>1, <1>4 DEF top
    <2> QED BY <1>1, <2>1 DEF StackInv, StackType, top
  <1> QED BY <1>2, <1>3, <1>4

\* CheckEvent returns, and WaitForEvent under it learns the status.
LEMMA CallerFacts ==
    ASSUME StackType, StackInv, stack # <<>>, top.pc \notin RestorePc, NEW ready \in BOOLEAN
    PROVE  /\ Caller(ready) \in Seq(Frame)
           /\ Len(Caller(ready)) = Len(stack) - 1
           /\ \A i \in 1 .. Len(stack) - 1 : FrameOK(Caller(ready)[i])
           /\ \A i \in 1 .. Len(stack) - 2 : Suspended(Caller(ready)[i], Caller(ready)[i + 1])
           /\ \A g \in Frame : g.tpl = top.tpl /\ Len(stack) > 1
                  => Suspended(Caller(ready)[Len(stack) - 1], g)
           /\ Len(stack) \in Nat \ {0}
  <1> DEFINE n == Len(stack) - 1
             c == Caller(ready)
  <1>1. n \in Nat /\ \A i \in 1..n : stack[i] \in Frame /\ FrameOK(stack[i])
    BY DEF StackType
  <1>2. c = [i \in 1..n |-> IF i = n THEN Told(stack[i], ready) ELSE stack[i]]
    BY DEF Caller
  <1> HIDE DEF n, c
  <1>3. \A i \in 1..n : c[i] = IF i = n THEN Told(stack[i], ready) ELSE stack[i]
    BY <1>2
  <1>4. ASSUME n > 0
        PROVE  /\ c[n] \in Frame /\ FrameOK(c[n]) /\ c[n].tpl = stack[n].tpl
               /\ (c[n] = stack[n]) \/ (stack[n].pc = "waiting" /\ c[n].pc \in {"ready", "wait"})
    <2>1. c[n] = Told(stack[n], ready) /\ stack[n] \in Frame /\ FrameOK(stack[n])
      BY <1>1, <1>3, <1>4
    <2> DEFINE f == stack[n]
    <2> HIDE DEF f
    <2>2. CASE f.pc # "waiting"
      BY <2>1, <2>2 DEF Told, f
    <2>3. CASE f.pc = "waiting" /\ ready
      <3>1. c[n] = [f EXCEPT !.pc = "ready"] /\ f \in Frame
        BY <2>1, <2>3 DEF Told, f
      <3> QED BY <2>3, <3>1 DEF Frame, FrameOK, Pc, f
    <2>4. CASE f.pc = "waiting" /\ ~ ready
      <3>1. c[n] = [f EXCEPT !.pc = "wait", !.prio = NextIndex(f.prio)] /\ f \in Frame
        BY <2>1, <2>4 DEF Told, f
      <3>2. f.prio \in 1..Len(WaitList)
        BY <2>1, <2>4 DEF FrameOK, f
      <3>3. NextIndex(f.prio) \in 1..Len(WaitList) /\ NextIndex(f.prio) \in Nat
        BY <3>2, EventAssumption DEF NextIndex
      <3>4. /\ c[n].pc = "wait" /\ c[n].prio = NextIndex(f.prio)
            /\ c[n].tpl = f.tpl /\ c[n] \in Frame
        BY <3>1, <3>3 DEF Frame, Pc
      <3> QED BY <2>4, <3>3, <3>4 DEF FrameOK, f
    <2> QED BY <2>2, <2>3, <2>4
  <1>5. \A i \in 1..n : c[i] \in Frame /\ FrameOK(c[i])
    BY <1>1, <1>3, <1>4
  <1>6. c \in Seq(Frame) /\ Len(c) = n
    <2>1. c \in [1..n -> Frame]
      BY <1>2, <1>5
    <2> QED BY <1>1, <2>1
  <1>7. ASSUME NEW i \in 1 .. Len(stack) - 2
        PROVE  Suspended(c[i], c[i + 1])
    <2>1. i \in 1..n /\ i < n /\ i + 1 \in 1..n /\ Suspended(stack[i], stack[i + 1]) /\ c[i] = stack[i]
      BY <1>1, <1>3 DEF StackInv, n, StackType
    <2>2. CASE i + 1 < n
      BY <1>3, <2>1, <2>2
    <2>3. CASE i + 1 = n
      <3>1. c[i + 1].tpl = stack[i + 1].tpl
        BY <1>4, <2>1, <2>3
      <3>2. stack[i].pc \in {"select", "lower"} => stack[i + 1].pc \in RestorePc
        BY <2>1 DEF Suspended
      <3>3. stack[i + 1].pc \in RestorePc => c[i + 1].pc \in RestorePc
        BY <1>4, <2>1, <2>3 DEF RestorePc
      <3> QED BY <2>1, <3>1, <3>2, <3>3 DEF Suspended, LevelOK
    <2> QED BY <1>1, <2>1, <2>2, <2>3
  <1>8. ASSUME NEW g \in Frame, g.tpl = top.tpl, Len(stack) > 1
        PROVE  Suspended(c[n], g)
    <2>1. n > 0 /\ Suspended(stack[n], top)
      BY <1>1, <1>8 DEF StackInv, n, top
    <2>2. stack[n].pc \notin {"select", "lower"}
      BY <2>1 DEF Suspended
    <2>3. stack[n].pc = "waiting" => top.tpl = stack[n].tpl
      BY <2>1 DEF Suspended, LevelOK
    <2>4. CASE c[n] = stack[n]
      BY <1>8, <2>1, <2>2, <2>4 DEF Suspended, LevelOK
    <2>5. CASE stack[n].pc = "waiting" /\ c[n].pc \in {"ready", "wait"}
      BY <1>4, <1>8, <2>1, <2>3, <2>5 DEF Suspended, LevelOK, LockedPc
    <2> QED BY <1>4, <2>1, <2>4, <2>5
  <1> QED BY <1>1, <1>5, <1>6, <1>7, <1>8 DEF n, c

\* The interrupt handler calls SignalEvent.
LEMMA PushTwoStep ==
    ASSUME StackType, StackInv, NEW f \in Frame, FrameOK(f), NEW g \in Frame, FrameOK(g),
           stack # <<>> => Suspended(top, f), Suspended(f, g),
           stack' = Append(Append(stack, f), g)
    PROVE  StackType' /\ StackInv' /\ stack' # <<>> /\ top' = g
  <1> DEFINE t == Append(stack, f)
  <1>1. /\ t \in Seq(Frame) /\ Len(t) = Len(stack) + 1 /\ Len(stack) \in Nat
        /\ \A i \in 1..Len(stack) : t[i] = stack[i]
        /\ t[Len(stack) + 1] = f
    BY AppendFacts DEF StackType
  <1> HIDE DEF t
  <1>2. /\ stack' \in Seq(Frame) /\ Len(stack') = Len(stack) + 2
        /\ \A i \in 1..(Len(stack) + 1) : stack'[i] = t[i]
        /\ stack'[Len(stack) + 2] = g
    BY <1>1, AppendFacts DEF t
  <1>3. StackType'
    BY <1>1, <1>2 DEF StackType
  <1>4. top' = g /\ stack' # <<>>
    BY <1>1, <1>2 DEF top
  <1>5. StackInv'
    <2> SUFFICES ASSUME NEW i \in 1..(Len(stack) + 1)
                 PROVE  Suspended(stack'[i], stack'[i + 1])
      BY <1>1, <1>2 DEF StackInv, Suspended, LevelOK
    <2>1. CASE i = Len(stack) + 1
      BY <1>1, <1>2, <2>1
    <2>2. CASE i = Len(stack)
      BY <1>1, <1>2, <2>2 DEF top
    <2>3. CASE i < Len(stack)
      BY <1>1, <1>2, <2>3 DEF StackInv
    <2> QED BY <1>1, <2>1, <2>2, <2>3
  <1> QED BY <1>3, <1>4, <1>5

-----------------------------------------------------------------------------
(* Operators *)

\* The levels that the code names.
LEMMA LevelFacts ==
    /\ TPL_HIGH_LEVEL \in Nat /\ TPL_HIGH_LEVEL \in Level
    /\ TPL_APPLICATION \in Level /\ TPL_APPLICATION < TPL_HIGH_LEVEL /\ 0 \in Level
    /\ RaiseLevels \subseteq Level
  BY ConstAssumption DEF Level

\* A non-empty set of levels has a highest one, and HighestSetBit returns it.
LEMMA HighestSetBitFacts ==
    ASSUME NEW bits, bits \subseteq Level
    PROVE  /\ HighestSetBit(bits) \in Level
           /\ bits # {} => HighestSetBit(bits) \in bits
           /\ \A q \in bits : q <= HighestSetBit(bits)
  <1>1. CASE bits = {}
    BY <1>1, LevelFacts DEF HighestSetBit
  <1>2. CASE bits # {}
    <2> DEFINE T == {d \in Nat : TPL_HIGH_LEVEL - d \in bits}
    <2>1. T \subseteq Nat /\ T # {}
      <3>1. PICK p \in bits : p \in 0..TPL_HIGH_LEVEL
        BY <1>2 DEF Level
      <3>2. TPL_HIGH_LEVEL - p \in Nat /\ TPL_HIGH_LEVEL - (TPL_HIGH_LEVEL - p) = p
        BY <3>1, LevelFacts
      <3> QED BY <3>1, <3>2
    <2> DEFINE R == OpToRel(<, Nat)
    <2>a. \A m, n \in Nat : m < n => <<m, n>> \in R
      BY DEF OpToRel
    <2>b. IsWellFoundedOn(R, Nat)
      BY NatLessThanWellFounded
    <2> HIDE DEF R
    <2>2. PICK x \in T : \A y \in T : ~ (<<y, x>> \in R)
      BY <2>1, <2>b, WFMin
    <2>3. ASSUME NEW y \in T PROVE x <= y
      <3>1. x \in Nat /\ y \in Nat
        OBVIOUS
      <3>2. ~ (<<y, x>> \in R)
        BY <2>2
      <3>3. ~ (y < x)
        BY <2>a, <3>1, <3>2
      <3> QED BY <3>1, <3>3
    <2> DEFINE p == TPL_HIGH_LEVEL - x
    <2>4. p \in bits /\ x \in Nat
      OBVIOUS
    <2>5. ASSUME NEW q \in bits PROVE q <= p
      <3>1. q \in Level /\ q = TPL_HIGH_LEVEL - (TPL_HIGH_LEVEL - q) /\ TPL_HIGH_LEVEL - q \in Nat
        BY LevelFacts DEF Level
      <3>2. TPL_HIGH_LEVEL - q \in T
        BY <3>1
      <3>3. x <= TPL_HIGH_LEVEL - q
        BY <2>3, <3>2
      <3> QED BY <2>4, <3>1, <3>3, LevelFacts DEF Level
    <2> HIDE DEF p
    <2> QED BY <1>2, <2>4, <2>5 DEF HighestSetBit
  <1> QED BY <1>1, <1>2

-----------------------------------------------------------------------------
(* The invariant is inductive: one lemma per action. *)

\* What AcquireLock leaves when no frame holds the lock.
LEMMA AcquireFacts ==
    ASSUME IInv, stack # <<>> => top.pc \notin LockedPc, AcquireLock
    PROVE  /\ EventQueueLock' \in [Lock : Nat, OwnerTpl : Level]
           /\ EventQueueLock'.Lock = 1 /\ EventQueueLock'.OwnerTpl = TPL
           /\ TPL' = TPL_HIGH_LEVEL /\ TPL' \in Level /\ IntEnabled' = FALSE
  <1>1. EventQueueLock.Lock = 0 /\ TPL \in Level /\ IntEnabled \in BOOLEAN
    BY DEF IInv, LockInv, GlobalsType
  <1>2. ~ (IntEnabled /\ TPL >= TPL_HIGH_LEVEL)
    BY <1>1, LevelFacts DEF IInv, HighBeforeInterrupts, Level
  <1>3. IntEnabled' = FALSE
    BY <1>2, Zenon DEF AcquireLock
  <1>4. EventQueueLock' = [Lock |-> 1, OwnerTpl |-> TPL] /\ TPL' = TPL_HIGH_LEVEL
    BY <1>1 DEF AcquireLock
  <1> QED BY <1>1, <1>3, <1>4, LevelFacts

\* A step that only moves the stack between frames that hold no lock.
LEMMA QuietStep ==
    ASSUME IInv, UNCHANGED <<TPL, IntEnabled, EventQueueLock, lists>>,
           stack # <<>> => top.pc \notin LockedPc,
           StackType', StackInv', TopInv', (stack # <<>>)' => top'.pc \notin LockedPc
    PROVE  IInv'
  <1>1. GlobalsType'
    BY DEF IInv, GlobalsType, ListsType, lists
  <1>2. LockInv'
    BY DEF IInv, LockInv
  <1>3. HighBeforeInterrupts' /\ QueuedIsPending'
    BY DEF IInv, HighBeforeInterrupts, QueuedIsPending, lists
  <1> QED BY <1>1, <1>2, <1>3 DEF IInv

\* A step that takes the lock in the frame on top afterwards.
LEMMA AcquireStep ==
    ASSUME IInv, AcquireLock, UNCHANGED lists,
           stack # <<>> => top.pc \notin LockedPc,
           StackType', StackInv', (stack # <<>>)', top'.pc \in LockedPc,
           top'.pc = "popping" => top'.prio = TPL, top'.pc # "popping" => top'.tpl = TPL,
           (top.pc = "list" /\ top.ev # NoEvent => InList(EventSignalQueue[top.prio], top.ev))'
    PROVE  IInv'
  <1>1. /\ EventQueueLock' \in [Lock : Nat, OwnerTpl : Level]
        /\ EventQueueLock'.Lock = 1 /\ EventQueueLock'.OwnerTpl = TPL
        /\ TPL' = TPL_HIGH_LEVEL /\ TPL' \in Level /\ IntEnabled' = FALSE
    BY AcquireFacts
  <1>2. GlobalsType'
    BY <1>1 DEF IInv, GlobalsType, ListsType, lists
  <1>3. LockInv'
    BY <1>1 DEF LockInv
  <1>4. TopInv'
    BY DEF TopInv, TopOK, LevelOK, LockedPc
  <1>5. HighBeforeInterrupts' /\ QueuedIsPending'
    BY <1>1 DEF IInv, HighBeforeInterrupts, QueuedIsPending, lists
  <1> QED BY <1>2, <1>3, <1>4, <1>5 DEF IInv

\* The body of a service ends: it releases the lock and enters RestoreTPL.
LEMMA ReleaseStep ==
    ASSUME IInv, stack # <<>>, top.pc \in LockedPc, ReleaseLock,
           StackType', StackInv', (stack # <<>>)', top' = Released,
           ListsType', QueuedIsPending'
    PROVE  IInv'
  <1>1. /\ EventQueueLock' \in [Lock : Nat, OwnerTpl : Level] /\ EventQueueLock'.Lock = 0
        /\ TPL' = TPL_HIGH_LEVEL /\ TPL' \in Level /\ IntEnabled' = IntEnabled /\ ~ IntEnabled
    BY DEF IInv, GlobalsType, LockInv, ReleaseLock
  <1>2. top'.pc = "check"
    BY DEF Released, RestoreFrame, Mk
  <1>3. GlobalsType'
    BY <1>1 DEF IInv, GlobalsType
  <1>4. LockInv'
    BY <1>1, <1>2 DEF LockInv, LockedPc
  <1>5. TopInv'
    BY <1>1, <1>2 DEF TopInv, TopOK, LevelOK
  <1>6. HighBeforeInterrupts'
    BY <1>1 DEF HighBeforeInterrupts
  <1> QED BY <1>3, <1>4, <1>5, <1>6 DEF IInv

\* The running frame.
LEMMA TopFrame ==
    ASSUME IInv, stack # <<>>
    PROVE  top \in Frame /\ FrameOK(top) /\ TopOK(top)
  BY DEF IInv, GlobalsType, StackType, TopInv, top

\* The frame of a RestoreTPL.
LEMMA RestoreFrameFacts ==
    ASSUME NEW t \in Level
    PROVE  /\ RestoreFrame(t) \in Frame /\ FrameOK(RestoreFrame(t))
           /\ RestoreFrame(t).pc = "check" /\ RestoreFrame(t).tpl = t
  BY DEF RestoreFrame, Mk, Frame, FrameOK, Pc

\* The frame that ReleaseLock leaves, and the level it goes back to.
LEMMA ReleasedFacts ==
    ASSUME IInv, stack # <<>>, top.pc \in LockedPc
    PROVE  /\ Released \in Frame /\ FrameOK(Released) /\ Released.pc = "check"
           /\ Released.tpl = IF top.pc = "popping" THEN top.prio ELSE top.tpl
  <1>1. EventQueueLock.OwnerTpl \in Level
    BY DEF IInv, GlobalsType
  <1>2. EventQueueLock.OwnerTpl = IF top.pc = "popping" THEN top.prio ELSE top.tpl
    BY DEF IInv, LockInv
  <1> QED BY <1>1, <1>2, RestoreFrameFacts DEF Released

\* The running frame moves on within its function.
LEMMA MoveFacts ==
    ASSUME IInv, stack # <<>>, NEW pc \in Pc, NEW f, f = [top EXCEPT !.pc = pc]
    PROVE  /\ f \in Frame /\ f.pc = pc
           /\ f.tpl = top.tpl /\ f.prio = top.prio /\ f.ev = top.ev
  BY TopFrame DEF Frame

(* User code *)

\* A service that user code calls takes the lock in a frame of its own.
LEMMA EnterStep ==
    ASSUME IInv, UserRunning, NEW pc \in {"create", "signal", "close"},
           NEW e \in ValidEvent, Enter(pc, e)
    PROVE  IInv'
  <1> DEFINE f == Mk(pc, TPL, 0, e)
  <1>1. f \in Frame /\ FrameOK(f) /\ f.pc = pc /\ f.tpl = TPL
    BY DEF Mk, Frame, FrameOK, Pc, LockedPc, IInv, GlobalsType
  <1>2. stack # <<>> => Suspended(top, f)
    BY <1>1 DEF UserRunning, Suspended, LevelOK, LockedPc, IInv, TopInv, TopOK
  <1> HIDE DEF f
  <1>3. StackType' /\ StackInv' /\ stack' # <<>> /\ top' = f
    BY <1>1, <1>2, PushStep DEF IInv, GlobalsType, Enter, f
  <1>4. f.pc \in LockedPc /\ f.pc # "popping" /\ f.pc # "list"
    BY <1>1 DEF LockedPc
  <1> QED BY <1>1, <1>3, <1>4, AcquireStep DEF Enter, UserRunning, LockedPc

LEMMA RaiseTPLStep ==
    ASSUME IInv, NEW new \in RaiseLevels, RaiseTPL(new)
    PROVE  IInv'
  <1> DEFINE f == Mk("raised", TPL, new, NoEvent)
  <1>1. /\ TPL \in Level /\ new \in Level /\ TPL <= new /\ TPL' = new /\ UserRunning
    BY LevelFacts DEF RaiseTPL, IInv, GlobalsType, MayCall
  <1>a. /\ IntEnabled' \in BOOLEAN
        /\ IntEnabled' => IntEnabled /\ ~ (new >= TPL_HIGH_LEVEL /\ TPL < TPL_HIGH_LEVEL)
    BY Zenon DEF RaiseTPL
  <1>2. f \in Frame /\ FrameOK(f) /\ f.pc = "raised" /\ f.tpl = TPL /\ f.prio = new
    BY <1>1, LevelFacts DEF Mk, Frame, FrameOK, Pc, Level
  <1>3. stack # <<>> => Suspended(top, f)
    BY <1>1, <1>2 DEF UserRunning, Suspended, LevelOK, LockedPc, IInv, TopInv, TopOK
  <1> HIDE DEF f
  <1>4. StackType' /\ StackInv' /\ stack' # <<>> /\ top' = f
    BY <1>2, <1>3, PushStep DEF IInv, GlobalsType, RaiseTPL, f
  <1>5. UNCHANGED <<EventQueueLock, lists>>
    BY DEF RaiseTPL
  <1>6. GlobalsType'
    BY <1>1, <1>a, <1>4, <1>5 DEF IInv, GlobalsType, ListsType, lists
  <1>7. LockInv'
    BY <1>1, <1>2, <1>4, <1>5 DEF LockInv, LockedPc, IInv, UserRunning
  <1>8. TopInv'
    BY <1>1, <1>2, <1>4 DEF TopInv, TopOK, LevelOK
  <1>9. HighBeforeInterrupts' /\ QueuedIsPending'
    BY <1>1, <1>a, <1>5, LevelFacts DEF HighBeforeInterrupts, QueuedIsPending, IInv, lists, Level
  <1> QED BY <1>4, <1>6, <1>7, <1>8, <1>9 DEF IInv

LEMMA RtNotifySignalListStep ==
    ASSUME IInv, NEW s \in 0 .. EVT_EFI_SIGNAL_MAX - 1, RtNotifySignalList(s)
    PROVE  IInv'
  <1> DEFINE q == EventSignalQueue[s]
             f == Mk("list", TPL, s, IF q = <<>> THEN NoEvent ELSE Head(q))
  <1>1. q \in Seq(ValidEvent) /\ TPL \in Level
    BY DEF IInv, GlobalsType, ListsType
  <1>2. q # <<>> => Head(q) \in ValidEvent /\ InList(q, Head(q))
    BY <1>1 DEF InList
  <1>3. /\ f \in Frame /\ FrameOK(f) /\ f.pc = "list" /\ f.tpl = TPL /\ f.prio = s
        /\ f.ev # NoEvent => InList(q, f.ev)
    BY <1>1, <1>2 DEF Mk, Frame, FrameOK, Pc, LockedPc, EVT_EFI_SIGNAL_MAX
  <1>4. stack # <<>> => Suspended(top, f)
    BY <1>3 DEF RtNotifySignalList, MayCall, UserRunning, Suspended, LevelOK, LockedPc, IInv,
                TopInv, TopOK
  <1>5. Push(f) /\ AcquireLock /\ UNCHANGED lists /\ UserRunning
    BY DEF RtNotifySignalList, MayCall
  <1> HIDE DEF f
  <1>6. StackType' /\ StackInv' /\ stack' # <<>> /\ top' = f
    BY <1>3, <1>4, <1>5, PushStep DEF IInv, GlobalsType
  <1>7. f.pc \in LockedPc /\ EventSignalQueue' = EventSignalQueue
    BY <1>3, <1>5 DEF LockedPc, lists
  <1> QED BY <1>3, <1>5, <1>6, <1>7, AcquireStep DEF UserRunning, LockedPc

\* The calls that begin without taking the lock.
LEMMA CallStep ==
    ASSUME IInv, UserRunning, NEW f \in Frame, FrameOK(f), f.pc \in {"test", "wait"},
           f.tpl = TPL, Push(f), UNCHANGED <<TPL, IntEnabled, EventQueueLock, lists>>
    PROVE  IInv'
  <1>1. stack # <<>> => Suspended(top, f) /\ top.pc \notin LockedPc
    BY DEF UserRunning, Suspended, LevelOK, LockedPc, IInv, TopInv, TopOK
  <1>2. StackType' /\ StackInv' /\ stack' # <<>> /\ top' = f
    BY <1>1, PushStep DEF IInv, GlobalsType
  <1>3. TopInv' /\ f.pc \notin LockedPc
    BY <1>2 DEF TopInv, TopOK, LevelOK, LockedPc
  <1> QED BY <1>1, <1>2, <1>3, QuietStep

LEMMA CheckEventStep ==
    ASSUME IInv, NEW e \in Event, CheckEvent(e)
    PROVE  IInv'
  <1> DEFINE f == Mk("test", TPL, 0, e)
  <1>1. f \in Frame /\ FrameOK(f) /\ f.pc = "test" /\ f.tpl = TPL
    BY DEF CheckEvent, MayUse, Mk, Frame, FrameOK, Pc, IInv, GlobalsType, ListsType
  <1> QED BY <1>1, CallStep DEF CheckEvent, MayUse, MayCall

LEMMA WaitForEventStep ==
    ASSUME IInv, WaitForEvent
    PROVE  IInv'
  <1> DEFINE f == Mk("wait", TPL, 1, NoEvent)
  <1>1. f \in Frame /\ FrameOK(f) /\ f.pc = "wait" /\ f.tpl = TPL
    BY EventAssumption DEF WaitForEvent, Mk, Frame, FrameOK, Pc, IInv, GlobalsType
  <1> QED BY <1>1, CallStep DEF WaitForEvent, MayCall

(* RestoreTPL and DispatchEventNotifies *)

\* The running frame moves on without touching anything else.
LEMMA MoveStep ==
    ASSUME IInv, stack # <<>>, top.pc \notin LockedPc, NEW f \in Frame, FrameOK(f),
           f.tpl = top.tpl, top.pc \in RestorePc => f.pc \in RestorePc,
           f.pc \notin LockedPc, TopOK(f), Become(f),
           UNCHANGED <<TPL, IntEnabled, EventQueueLock, lists>>
    PROVE  IInv'
  <1>1. StackType' /\ StackInv' /\ stack' # <<>> /\ top' = f
    BY BecomeStep DEF IInv, GlobalsType
  <1>2. TopInv'
    BY <1>1 DEF TopInv, TopOK, lists
  <1> QED BY <1>1, <1>2, QuietStep

LEMMA RestoreTPLStep ==
    ASSUME IInv, RestoreTPL
    PROVE  IInv'
  <1>1. /\ stack # <<>> /\ top.pc = "raised" /\ top.tpl \in Level /\ TPL \in Level
        /\ top.tpl <= TPL
    BY TopFrame DEF RestoreTPL, At, Frame, FrameOK, TopOK, LevelOK, IInv, GlobalsType
  <1>2. /\ RestoreFrame(top.tpl) \in Frame /\ FrameOK(RestoreFrame(top.tpl))
        /\ RestoreFrame(top.tpl).pc = "check" /\ RestoreFrame(top.tpl).tpl = top.tpl
    BY <1>1, RestoreFrameFacts
  <1>3. TopOK(RestoreFrame(top.tpl))
    BY <1>1, <1>2, LevelFacts DEF TopOK, LevelOK, Level
  <1>4. top.pc \notin LockedPc /\ top.pc \notin RestorePc /\ "check" \notin LockedPc
    BY <1>1 DEF LockedPc, RestorePc
  <1> QED BY <1>1, <1>2, <1>3, <1>4, MoveStep DEF RestoreTPL

LEMMA RestoreCheckStep ==
    ASSUME IInv, RestoreCheck
    PROVE  IInv'
  <1>1. stack # <<>> /\ top.pc = "check" /\ top.tpl \in Level /\ top.pc \notin LockedPc
    BY TopFrame DEF RestoreCheck, At, Frame, LockedPc
  <1>2. EventPending \subseteq Level /\ UNCHANGED <<TPL, IntEnabled, EventQueueLock, lists>>
    BY DEF IInv, GlobalsType, ListsType, RestoreCheck
  <1>3. CASE Unmasked(top.tpl)
    <2> DEFINE h == HighestSetBit(EventPending)
               f == Mk("select", top.tpl, h, NoEvent)
    <2>1. h \in Level /\ h \in EventPending /\ top.tpl < TPL_HIGH_LEVEL
      <3>1. h \in Level /\ h \in EventPending
        BY <1>2, <1>3, HighestSetBitFacts DEF Unmasked
      <3>2. top.tpl < TPL_HIGH_LEVEL
        BY <1>1, <1>2, <1>3, LevelFacts DEF Level, Unmasked
      <3> QED BY <3>1, <3>2
    <2> HIDE DEF h
    <2>2. IntEnabled => h < TPL_HIGH_LEVEL
      BY <2>1, LevelFacts DEF IInv, HighBeforeInterrupts, Level
    <2>3. /\ f \in Frame /\ FrameOK(f) /\ f.tpl = top.tpl /\ f.pc = "select"
          /\ f.pc \in RestorePc /\ f.pc \notin LockedPc /\ f.prio = h
      BY <1>1, <2>1 DEF Mk, Frame, FrameOK, Pc, RestorePc, LockedPc, Level
    <2>4. TopOK(f)
      BY <2>2, <2>3 DEF TopOK, LevelOK, h
    <2>5. Become(f)
      BY <1>3 DEF RestoreCheck, h
    <2> HIDE DEF f
    <2> QED BY <1>1, <1>2, <2>3, <2>4, <2>5, MoveStep
  <1>4. CASE ~ Unmasked(top.tpl)
    <2> DEFINE f == Mk("lower", top.tpl, 0, NoEvent)
    <2>1. /\ f \in Frame /\ FrameOK(f) /\ f.tpl = top.tpl /\ f.pc = "lower"
          /\ f.pc \in RestorePc /\ f.pc \notin LockedPc
      BY <1>1 DEF Mk, Frame, FrameOK, Pc, RestorePc, LockedPc, Level
    <2>2. TopOK(f)
      BY <1>1, <1>4, <2>1, TopFrame, LevelFacts DEF TopOK, LevelOK, Unmasked
    <2>3. Become(f)
      BY <1>4 DEF RestoreCheck
    <2> HIDE DEF f
    <2> QED BY <1>1, <1>2, <2>1, <2>2, <2>3, MoveStep
  <1> QED BY <1>3, <1>4

LEMMA RestoreSelectStep ==
    ASSUME IInv, RestoreSelect
    PROVE  IInv'
  <1>1. /\ stack # <<>> /\ top.pc = "select" /\ top.tpl \in Level /\ top.prio \in Level
        /\ top.tpl < TPL_HIGH_LEVEL
    BY TopFrame DEF RestoreSelect, At, Frame, FrameOK
  <1>2. EventPending \subseteq Level /\ UNCHANGED <<EventQueueLock, lists>>
    BY DEF IInv, GlobalsType, ListsType, RestoreSelect
  <1>3. PICK p : /\ p = top.prio \/ p = HighestSetBit(EventPending)
                 /\ TPL' = p /\ IntEnabled' = (IntEnabled \/ p < TPL_HIGH_LEVEL)
                 /\ Become(Mk("dispatch", top.tpl, p, NoEvent))
    BY Zenon DEF RestoreSelect, LowerTPL
  <1>4. p \in Level
    BY <1>1, <1>2, <1>3, HighestSetBitFacts
  <1> DEFINE f == Mk("dispatch", top.tpl, p, NoEvent)
  <1>5. /\ f \in Frame /\ FrameOK(f) /\ f.tpl = top.tpl /\ f.pc = "dispatch" /\ f.prio = p
        /\ f.pc \in RestorePc /\ f.pc \notin LockedPc
    BY <1>1, <1>4 DEF Mk, Frame, FrameOK, Pc, RestorePc, LockedPc, Level
  <1> HIDE DEF f
  <1>6. StackType' /\ StackInv' /\ stack' # <<>> /\ top' = f
    BY <1>1, <1>3, <1>5, BecomeStep DEF IInv, GlobalsType, f
  <1>7. IntEnabled' \in BOOLEAN
    BY <1>3, Zenon
  <1>8. IntEnabled' => TPL' < TPL_HIGH_LEVEL /\ TPL_HIGH_LEVEL \notin EventPending
    <2>1. IntEnabled' => IntEnabled \/ p < TPL_HIGH_LEVEL
      BY <1>3, Zenon
    <2> DEFINE h == HighestSetBit(EventPending)
    <2>2. /\ h \in Level /\ (EventPending = {} => h = 0)
          /\ EventPending # {} => h \in EventPending
          /\ \A q \in EventPending : q <= h
      BY <1>2, HighestSetBitFacts DEF HighestSetBit
    <2> HIDE DEF h
    <2>3. (TPL_HIGH_LEVEL \in EventPending) <=> (h = TPL_HIGH_LEVEL)
      BY <1>2, <2>2, LevelFacts DEF Level
    <2>4. CASE IntEnabled
      <3>1. TPL_HIGH_LEVEL \notin EventPending /\ top.prio < TPL_HIGH_LEVEL
        BY <1>1, <2>4, TopFrame DEF IInv, HighBeforeInterrupts, TopOK
      <3>2. h < TPL_HIGH_LEVEL
        BY <2>2, <2>3, <3>1, LevelFacts DEF Level
      <3> QED BY <1>3, <3>1, <3>2 DEF h
    <2>5. CASE ~ IntEnabled
      <3>1. p = h
        BY <1>1, <1>3, <2>5, TopFrame DEF TopOK, h
      <3> QED BY <1>3, <2>1, <2>3, <2>5, <3>1, LevelFacts
    <2> QED BY <2>4, <2>5
  <1>9. GlobalsType'
    BY <1>2, <1>3, <1>4, <1>6, <1>7 DEF IInv, GlobalsType, ListsType, lists
  <1>10. LockInv'
    BY <1>1, <1>2, <1>5, <1>6 DEF IInv, LockInv, LockedPc
  <1>11. TopInv'
    BY <1>3, <1>5, <1>6 DEF TopInv, TopOK, LevelOK
  <1>12. HighBeforeInterrupts' /\ QueuedIsPending'
    BY <1>2, <1>8 DEF IInv, HighBeforeInterrupts, QueuedIsPending, lists
  <1> QED BY <1>6, <1>9, <1>10, <1>11, <1>12 DEF IInv

LEMMA RestoreLowerStep ==
    ASSUME IInv, RestoreLower
    PROVE  IInv'
  <1>1. /\ stack # <<>> /\ top.pc = "lower" /\ top.tpl \in Level
        /\ TPL' = top.tpl /\ Pop /\ UNCHANGED <<EventQueueLock, lists>>
    BY TopFrame DEF RestoreLower, LowerTPL, At, Frame
  <1>2. /\ StackType' /\ StackInv'
        /\ (stack # <<>>)' => Suspended(top', top) /\ top' \in Frame /\ FrameOK(top')
    BY <1>1, PopStep DEF IInv, GlobalsType
  <1>3. IntEnabled' \in BOOLEAN /\ (IntEnabled' => IntEnabled \/ top.tpl < TPL_HIGH_LEVEL)
    BY Zenon DEF RestoreLower, LowerTPL
  <1>4. top.tpl < TPL_HIGH_LEVEL => IntEnabled' /\ TPL_HIGH_LEVEL \notin EventPending
    <2>1. top.tpl < TPL_HIGH_LEVEL => IntEnabled'
      BY Zenon DEF RestoreLower, LowerTPL
    <2>2. top.tpl < TPL_HIGH_LEVEL => TPL_HIGH_LEVEL \notin EventPending
      BY <1>1, TopFrame DEF TopOK
    <2> QED BY <2>1, <2>2
  <1>5. GlobalsType'
    BY <1>1, <1>2, <1>3 DEF IInv, GlobalsType, ListsType, lists
  <1>6. LockInv'
    BY <1>1, <1>2 DEF IInv, LockInv, LockedPc, Suspended
  <1>7. TopInv'
    <2> SUFFICES ASSUME (stack # <<>>)' PROVE TopOK(top)'
      BY DEF TopInv
    <2>1. Suspended(top', top)
      BY <1>2
    <2> QED BY <1>1, <1>4, <2>1 DEF TopOK, Suspended, LockedPc, LevelOK, lists
  <1>8. HighBeforeInterrupts'
    <2>1. CASE top.tpl < TPL_HIGH_LEVEL
      BY <1>1, <1>4, <2>1 DEF HighBeforeInterrupts, lists
    <2>2. CASE ~ (top.tpl < TPL_HIGH_LEVEL)
      <3>1. IntEnabled' => IntEnabled
        BY <1>3, <2>2
      <3>2. ~ IntEnabled
        BY <1>1, <2>2, TopFrame, LevelFacts DEF IInv, HighBeforeInterrupts, TopOK, LevelOK, Level
      <3> QED BY <3>1, <3>2 DEF HighBeforeInterrupts
    <2> QED BY <2>1, <2>2
  <1>9. QueuedIsPending'
    BY <1>1 DEF IInv, QueuedIsPending, lists
  <1> QED BY <1>2, <1>5, <1>6, <1>7, <1>8, <1>9 DEF IInv

LEMMA DispatchAcquireStep ==
    ASSUME IInv, DispatchAcquire
    PROVE  IInv'
  <1> DEFINE f == [top EXCEPT !.pc = "popping"]
  <1>1. stack # <<>> /\ top.pc = "dispatch"
    BY DEF DispatchAcquire, At
  <1>2. top.prio \in Level /\ top.tpl < TPL_HIGH_LEVEL /\ TPL = top.prio
    BY <1>1, TopFrame DEF FrameOK, TopOK, LevelOK
  <1>3. f \in Frame /\ f.pc = "popping" /\ f.tpl = top.tpl /\ f.prio = top.prio
    BY <1>1, MoveFacts DEF Pc, LockedPc
  <1>4. AcquireLock /\ Become(f) /\ UNCHANGED lists
    BY DEF DispatchAcquire
  <1> HIDE DEF f
  <1>5. FrameOK(f) /\ f.pc \in RestorePc /\ f.pc \in LockedPc /\ top.pc \notin LockedPc
    BY <1>1, <1>2, <1>3 DEF FrameOK, RestorePc, LockedPc
  <1>6. StackType' /\ StackInv' /\ stack' # <<>> /\ top' = f
    BY <1>1, <1>3, <1>4, <1>5, BecomeStep DEF IInv, GlobalsType
  <1> QED BY <1>2, <1>3, <1>4, <1>5, <1>6, AcquireStep

LEMMA DispatchCallStep ==
    ASSUME IInv, DispatchCall
    PROVE  IInv'
  <1> DEFINE f == [top EXCEPT !.pc = "notify"]
  <1>1. stack # <<>> /\ top.pc = "call"
    BY DEF DispatchCall, At
  <1>2. FrameOK(top) /\ TPL = top.prio
    BY <1>1, TopFrame DEF TopOK, LevelOK
  <1>3. f \in Frame /\ f.pc = "notify" /\ f.tpl = top.tpl /\ f.prio = top.prio /\ f.ev = top.ev
    BY <1>1, MoveFacts DEF Pc
  <1>4. Become(f) /\ UNCHANGED <<TPL, IntEnabled, EventQueueLock, lists>>
    BY DEF DispatchCall
  <1> HIDE DEF f
  <1>5. FrameOK(f) /\ f.pc \in RestorePc /\ f.pc \notin LockedPc /\ top.pc \notin LockedPc
    BY <1>1, <1>2, <1>3 DEF FrameOK, RestorePc, LockedPc
  <1>6. TopOK(f)
    BY <1>2, <1>3 DEF TopOK, LevelOK
  <1> QED BY <1>1, <1>3, <1>4, <1>5, <1>6, MoveStep

LEMMA NotifyReturnStep ==
    ASSUME IInv, NotifyReturn
    PROVE  IInv'
  <1> DEFINE f == Mk("dispatch", top.tpl, top.prio, NoEvent)
  <1>1. stack # <<>> /\ top.pc = "notify"
    BY DEF NotifyReturn, At
  <1>2. /\ TPL = top.prio /\ top.prio \in Level /\ top.tpl < TPL_HIGH_LEVEL
        /\ top.tpl \in Level /\ top.prio \in Nat
    BY <1>1, TopFrame DEF TopOK, LevelOK, FrameOK, Frame
  <1>3. f \in Frame /\ f.pc = "dispatch" /\ f.tpl = top.tpl /\ f.prio = top.prio
    BY <1>2 DEF Mk, Frame, Pc
  <1>4. Become(f) /\ UNCHANGED <<TPL, IntEnabled, EventQueueLock, lists>>
    BY DEF NotifyReturn
  <1> HIDE DEF f
  <1>5. FrameOK(f) /\ f.pc \in RestorePc /\ f.pc \notin LockedPc /\ top.pc \notin LockedPc
    BY <1>1, <1>2, <1>3 DEF FrameOK, RestorePc, LockedPc
  <1>6. TopOK(f)
    BY <1>2, <1>3 DEF TopOK, LevelOK
  <1> QED BY <1>1, <1>3, <1>4, <1>5, <1>6, MoveStep

\* The dispatcher unlinks the head of its queue, or finds the queue empty.
LEMMA DispatchPopStep ==
    ASSUME IInv, DispatchPop
    PROVE  IInv'
  <1> DEFINE q == EventQueue[top.prio]
  <1>1. stack # <<>> /\ top.pc = "popping" /\ top.pc \in LockedPc /\ top.pc \in RestorePc
    BY DEF DispatchPop, At, LockedPc, RestorePc
  <1>2. /\ top.prio \in Level /\ top.prio \in Nat /\ top.tpl \in Level
        /\ top.tpl < TPL_HIGH_LEVEL /\ q \in Seq(ValidEvent)
    BY <1>1, TopFrame DEF FrameOK, Frame, IInv, GlobalsType, ListsType
  <1>3. Released \in Frame /\ FrameOK(Released) /\ Released.pc = "check" /\ Released.tpl = top.prio
    BY <1>1, ReleasedFacts
  <1>4. ReleaseLock /\ UNCHANGED <<EventSignalQueue, RuntimeEventList, allocated>>
    BY DEF DispatchPop
  <1>5. CASE q # <<>>
    <2> DEFINE e == Head(q)
               f == Mk("call", top.tpl, top.prio, e)
    <2>1. /\ EventQueue' = [EventQueue EXCEPT ![top.prio] = RemoveEntryList(q, e)]
          /\ SignalCount' = [SignalCount EXCEPT ![e] = 0]
          /\ BecomeUnder(f, Released) /\ UNCHANGED EventPending
      BY <1>5 DEF DispatchPop, ClearSignal
    <2>2. e \in ValidEvent /\ e \in Event
      BY <1>2, <1>5 DEF ValidEvent
    <2> HIDE DEF e
    <2>3. /\ f \in Frame /\ FrameOK(f) /\ f.tpl = top.tpl /\ f.pc \in RestorePc
          /\ Suspended(f, Released)
      BY <1>2, <1>3, <2>2 DEF Mk, Frame, FrameOK, Pc, RestorePc, Suspended, LevelOK, LockedPc
    <2> HIDE DEF f
    <2>4. StackType' /\ StackInv' /\ stack' # <<>> /\ top' = Released
      BY <1>1, <1>3, <2>1, <2>3, BecomeUnderStep DEF IInv, GlobalsType
    <2>5. RemoveEntryList(q, e) \in Seq(ValidEvent)
      BY <1>2, RemoveFacts
    <2>6. ListsType'
      BY <1>2, <1>4, <2>1, <2>2, <2>5 DEF IInv, GlobalsType, ListsType
    <2>7. QueuedIsPending'
      BY <1>2, <1>5, <2>1 DEF IInv, GlobalsType, ListsType, QueuedIsPending
    <2> QED BY <1>1, <1>4, <2>4, <2>6, <2>7, ReleaseStep
  <1>6. CASE q = <<>>
    <2> DEFINE f == RestoreFrame(top.tpl)
    <2>1. /\ EventPending' = EventPending \ {top.prio} /\ BecomeUnder(f, Released)
          /\ UNCHANGED <<EventQueue, SignalCount>>
      BY <1>6 DEF DispatchPop
    <2>2. f \in Frame /\ FrameOK(f) /\ f.tpl = top.tpl /\ f.pc = "check"
      BY <1>2, RestoreFrameFacts
    <2> HIDE DEF f
    <2>3. f.pc \in RestorePc /\ Suspended(f, Released)
      BY <1>2, <2>2, LevelFacts DEF RestorePc, Suspended, LevelOK, LockedPc, Level
    <2>4. StackType' /\ StackInv' /\ stack' # <<>> /\ top' = Released
      BY <1>1, <1>3, <2>1, <2>2, <2>3, BecomeUnderStep DEF IInv, GlobalsType
    <2>5. ListsType' /\ QueuedIsPending'
      BY <1>4, <1>6, <2>1 DEF IInv, GlobalsType, ListsType, QueuedIsPending
    <2> QED BY <1>1, <1>4, <2>4, <2>5, ReleaseStep
  <1> QED BY <1>5, <1>6

\* The interrupt arrives between any two steps that run with interrupts enabled.
LEMMA TickStep ==
    ASSUME IInv, NEW expired \in BOOLEAN, Tick(expired)
    PROVE  IInv'
  <1> DEFINE f == RestoreFrame(TPL)
             g == Mk("signal", TPL_HIGH_LEVEL, 0, EfiCheckTimerEvent)
  <1>1. /\ IntEnabled /\ TPL \in Level /\ TPL < TPL_HIGH_LEVEL /\ TPL' = TPL_HIGH_LEVEL
        /\ TPL' \in Level /\ UNCHANGED lists
    BY LevelFacts DEF Tick, IInv, GlobalsType, HighBeforeInterrupts
  <1>2. IntEnabled' = FALSE
    BY DEF Tick
  <1>3. f \in Frame /\ FrameOK(f) /\ f.pc = "check" /\ f.tpl = TPL
    BY <1>1, RestoreFrameFacts
  <1>4. stack # <<>> => top.pc \notin LockedPc /\ TopOK(top)
    BY <1>1, TopFrame DEF IInv, LockInv
  <1>5. EventQueueLock.Lock = 0 /\ EventQueueLock.OwnerTpl \in Level
    BY <1>4 DEF IInv, LockInv, GlobalsType
  <1> HIDE DEF f
  <1>6. stack # <<>> => Suspended(top, f)
    BY <1>1, <1>3, <1>4 DEF Suspended, TopOK, RestorePc
  <1>7. ListsType' /\ QueuedIsPending' /\ HighBeforeInterrupts'
    BY <1>1, <1>2 DEF IInv, GlobalsType, ListsType, QueuedIsPending, HighBeforeInterrupts, lists
  <1>8. CASE expired
    <2>1. /\ stack' = Append(Append(stack, f), g)
          /\ EventQueueLock' = [Lock |-> 1, OwnerTpl |-> TPL_HIGH_LEVEL]
      BY <1>5, <1>8 DEF Tick, OldTpl, f
    <2>2. EfiCheckTimerEvent \in ValidEvent
      BY ConstAssumption, EventAssumption DEF ValidEvent
    <2>3. g \in Frame /\ FrameOK(g) /\ g.pc = "signal" /\ g.tpl = TPL_HIGH_LEVEL
      BY <2>2, LevelFacts DEF Mk, Frame, FrameOK, Pc, LockedPc
    <2> HIDE DEF g
    <2>4. Suspended(f, g)
      BY <1>1, <1>3, <2>3 DEF Suspended, LevelOK, LockedPc
    <2>5. StackType' /\ StackInv' /\ stack' # <<>> /\ top' = g
      BY <1>3, <1>6, <2>1, <2>3, <2>4, PushTwoStep DEF IInv, GlobalsType
    <2>6. GlobalsType'
      BY <1>1, <1>2, <1>7, <2>1, <2>5, LevelFacts DEF GlobalsType
    <2>7. LockInv' /\ TopInv'
      BY <1>1, <1>2, <2>1, <2>3, <2>5 DEF LockInv, LockedPc, TopInv, TopOK, LevelOK
    <2> QED BY <1>7, <2>5, <2>6, <2>7 DEF IInv
  <1>9. CASE ~ expired
    <2>1. Push(f) /\ EventQueueLock' = EventQueueLock
      BY <1>9 DEF Tick, OldTpl, f
    <2>2. StackType' /\ StackInv' /\ stack' # <<>> /\ top' = f
      BY <1>3, <1>6, <2>1, PushStep DEF IInv, GlobalsType
    <2>3. GlobalsType'
      BY <1>1, <1>2, <1>7, <2>1, <2>2 DEF GlobalsType, IInv
    <2>4. LockInv' /\ TopInv'
      BY <1>1, <1>3, <1>5, <2>1, <2>2 DEF LockInv, LockedPc, TopInv, TopOK, LevelOK
    <2> QED BY <1>7, <2>2, <2>3, <2>4 DEF IInv
  <1> QED BY <1>8, <1>9

(* The bodies of the services *)

\* The queue of an event is a queue of the array.
LEMMA NotifyTplFacts ==
    ASSUME NEW e \in ValidEvent
    PROVE  NotifyTpl(e) \in Level /\ e \in Event
  <1>1. e \in Event /\ ValidCreate(e)
    BY DEF ValidEvent
  <1>2. Args[e].tpl \in Nat
    BY <1>1, ConstAssumption DEF CreateArgs
  <1>3. HasNotify(e) => Args[e].tpl <= TPL_HIGH_LEVEL
    BY <1>1 DEF ValidCreate, VALID_TPL
  <1> QED BY <1>1, <1>2, <1>3, LevelFacts DEF NotifyTpl, Level

LEMMA NotifyEventFacts ==
    ASSUME IInv, NEW e \in ValidEvent, NotifyEvent(e)
    PROVE  /\ EventQueue' \in [Level -> Seq(ValidEvent)] /\ EventPending' \subseteq Level
           /\ QueuedIsPending'
  <1> DEFINE p == NotifyTpl(e)
             q == Append(RemoveEntryList(EventQueue[p], e), e)
  <1>1. p \in Level /\ EventQueue \in [Level -> Seq(ValidEvent)] /\ EventPending \subseteq Level
    BY NotifyTplFacts DEF IInv, GlobalsType, ListsType
  <1>2. EventQueue' = [EventQueue EXCEPT ![p] = q] /\ EventPending' = EventPending \cup {p}
    BY DEF NotifyEvent
  <1> HIDE DEF p
  <1>3. q \in Seq(ValidEvent)
    BY <1>1, RemoveFacts, AppendFacts
  <1> HIDE DEF q
  <1>4. EventQueue' \in [Level -> Seq(ValidEvent)] /\ EventPending' \subseteq Level
    BY <1>1, <1>2, <1>3
  <1>5. QueuedIsPending'
    BY <1>1, <1>2 DEF IInv, QueuedIsPending
  <1> QED BY <1>4, <1>5

\* A body that ends in RestoreTPL on behalf of the same caller.
LEMMA BodyStep ==
    ASSUME IInv, stack # <<>>, top.pc \in LockedPc, top.pc # "popping",
           Become(Released), ReleaseLock, ListsType', QueuedIsPending'
    PROVE  IInv'
  <1>1. Released \in Frame /\ FrameOK(Released) /\ Released.pc = "check" /\ Released.tpl = top.tpl
    BY ReleasedFacts
  <1>2. Released.pc \in RestorePc
    BY <1>1 DEF RestorePc
  <1>3. StackType' /\ StackInv' /\ stack' # <<>> /\ top' = Released
    BY <1>1, <1>2, BecomeStep DEF IInv, GlobalsType
  <1> QED BY <1>3, ReleaseStep

LEMMA CreateBodyStep ==
    ASSUME IInv, CreateBody
    PROVE  IInv'
  <1> DEFINE e == top.ev
             s == Args[e].sig - 1
  <1>1. stack # <<>> /\ top.pc = "create" /\ top.pc \in LockedPc
    BY DEF CreateBody, At, LockedPc
  <1>2. e \in ValidEvent /\ e \in Event
    BY <1>1, TopFrame, NotifyTplFacts DEF FrameOK
  <1>3. /\ allocated' = allocated \cup {e}
        /\ SignalCount' = [SignalCount EXCEPT ![e] = 0]
        /\ RuntimeEventList' = RuntimeEventList \cup {e} \/ UNCHANGED RuntimeEventList
        /\ \/ /\ s \in DOMAIN EventSignalQueue
              /\ EventSignalQueue' = [EventSignalQueue EXCEPT ![s] = <<e>> \o EventSignalQueue[s]]
           \/ UNCHANGED EventSignalQueue
        /\ ReleaseLock /\ Become(Released) /\ UNCHANGED <<EventQueue, EventPending>>
    BY DEF CreateBody
  <1> HIDE DEF e, s
  <1>4. EventSignalQueue' \in [0 .. EVT_EFI_SIGNAL_MAX - 1 -> Seq(ValidEvent)]
    <2>1. EventSignalQueue \in [0 .. EVT_EFI_SIGNAL_MAX - 1 -> Seq(ValidEvent)]
      BY DEF IInv, GlobalsType, ListsType
    <2>2. ASSUME s \in DOMAIN EventSignalQueue
          PROVE  <<e>> \o EventSignalQueue[s] \in Seq(ValidEvent)
      <3>1. EventSignalQueue[s] \in Seq(ValidEvent) /\ <<e>> \in Seq(ValidEvent)
        BY <1>2, <2>1, <2>2
      <3> QED BY <3>1
    <2> QED BY <1>3, <2>1, <2>2
  <1>5. ListsType'
    BY <1>2, <1>3, <1>4 DEF IInv, GlobalsType, ListsType
  <1>6. QueuedIsPending'
    BY <1>3 DEF IInv, QueuedIsPending
  <1> QED BY <1>1, <1>3, <1>5, <1>6, BodyStep

LEMMA SignalBodyStep ==
    ASSUME IInv, SignalBody
    PROVE  IInv'
  <1> DEFINE e == top.ev
  <1>1. stack # <<>> /\ top.pc = "signal" /\ top.pc \in LockedPc
    BY DEF SignalBody, At, LockedPc
  <1>2. e \in ValidEvent /\ e \in Event
    BY <1>1, TopFrame, NotifyTplFacts DEF FrameOK
  <1>3. /\ SignalCount' = [SignalCount EXCEPT ![e] = 1] \/ UNCHANGED SignalCount
        /\ NotifyEvent(e) \/ UNCHANGED <<EventQueue, EventPending>>
        /\ ReleaseLock /\ Become(Released)
        /\ UNCHANGED <<EventSignalQueue, RuntimeEventList, allocated>>
    BY <1>2 DEF SignalBody, Unsignalled, IInv, GlobalsType, ListsType
  <1> HIDE DEF e
  <1>4. /\ EventQueue' \in [Level -> Seq(ValidEvent)] /\ EventPending' \subseteq Level
        /\ QueuedIsPending'
    <2>1. CASE NotifyEvent(e)
      BY <1>2, <2>1, NotifyEventFacts
    <2>2. CASE UNCHANGED <<EventQueue, EventPending>>
      BY <2>2 DEF IInv, GlobalsType, ListsType, QueuedIsPending
    <2> QED BY <1>3, <2>1, <2>2
  <1>5. ListsType'
    <2>1. SignalCount \in [Event -> 0..1]
      BY DEF IInv, GlobalsType, ListsType
    <2>2. SignalCount' \in [Event -> 0..1]
      BY <1>2, <1>3, <2>1
    <2> QED BY <1>3, <1>4, <2>2 DEF IInv, GlobalsType, ListsType
  <1> QED BY <1>1, <1>3, <1>4, <1>5, BodyStep

\* The entry that follows one of the list is one of the list.
LEMMA SuccFacts ==
    ASSUME NEW S, NEW q \in Seq(S), NEW e, InList(q, e)
    PROVE  Succ(q, e) = NoEvent \/ (Succ(q, e) \in S /\ InList(q, Succ(q, e)))
  <1> DEFINE k == CHOOSE i \in 1..Len(q) : q[i] = e
  <1>1. k \in 1..Len(q)
    BY DEF InList
  <1>2. Succ(q, e) = IF k < Len(q) THEN q[k + 1] ELSE NoEvent
    BY DEF Succ
  <1> HIDE DEF k
  <1>3. k < Len(q) => k + 1 \in 1..Len(q)
    BY <1>1
  <1> QED BY <1>2, <1>3 DEF InList

LEMMA ListStepStep ==
    ASSUME IInv, ListStep
    PROVE  IInv'
  <1>1. stack # <<>> /\ top.pc = "list" /\ top.pc \in LockedPc
    BY DEF ListStep, At, LockedPc
  <1>2. UNCHANGED <<EventSignalQueue, RuntimeEventList, SignalCount, allocated>>
    BY DEF ListStep
  <1>3. CASE top.ev = NoEvent
    <2>1. ReleaseLock /\ Become(Released) /\ UNCHANGED <<EventQueue, EventPending>>
      BY <1>3 DEF ListStep
    <2>2. ListsType' /\ QueuedIsPending'
      BY <1>2, <2>1 DEF IInv, GlobalsType, ListsType, QueuedIsPending
    <2> QED BY <1>1, <2>1, <2>2, BodyStep
  <1>4. CASE top.ev # NoEvent
    <2> DEFINE q == EventSignalQueue[top.prio]
               f == [top EXCEPT !.ev = Succ(q, top.ev)]
    <2>1. /\ NotifyEvent(top.ev) /\ Become(f) /\ UNCHANGED <<TPL, IntEnabled, EventQueueLock>>
      BY <1>4 DEF ListStep
    <2>2. top \in Frame /\ top.prio \in 0 .. EVT_EFI_SIGNAL_MAX - 1 /\ top.ev \in ValidEvent
      BY <1>1, <1>4, TopFrame DEF FrameOK, Frame
    <2>3. q \in Seq(ValidEvent) /\ InList(q, top.ev)
      BY <1>1, <1>4, <2>2, TopFrame DEF IInv, GlobalsType, ListsType, TopOK
    <2>4. Succ(q, top.ev) = NoEvent \/ (Succ(q, top.ev) \in ValidEvent /\ InList(q, Succ(q, top.ev)))
      BY <2>3, SuccFacts
    <2>5. /\ f \in Frame /\ f.pc = "list" /\ f.tpl = top.tpl /\ f.prio = top.prio
          /\ f.ev # NoEvent => InList(q, f.ev)
      BY <1>1, <2>2, <2>4 DEF Frame
    <2> HIDE DEF f
    <2>6. FrameOK(f) /\ top.pc \notin RestorePc /\ f.pc \in LockedPc
      BY <1>1, <2>2, <2>5 DEF FrameOK, RestorePc, LockedPc
    <2>7. StackType' /\ StackInv' /\ stack' # <<>> /\ top' = f
      BY <1>1, <2>1, <2>5, <2>6, BecomeStep DEF IInv, GlobalsType
    <2>8. /\ EventQueue' \in [Level -> Seq(ValidEvent)] /\ EventPending' \subseteq Level
          /\ QueuedIsPending'
      BY <2>1, <2>2, NotifyEventFacts
    <2>9. GlobalsType'
      BY <1>2, <2>1, <2>7, <2>8 DEF IInv, GlobalsType, ListsType
    <2>10. LockInv'
      BY <1>1, <2>1, <2>5, <2>6, <2>7 DEF IInv, LockInv
    <2>11. TopInv'
      BY <1>2, <2>5, <2>7 DEF TopInv, TopOK, LevelOK
    <2>12. HighBeforeInterrupts'
      BY <1>1, <2>1 DEF IInv, LockInv, HighBeforeInterrupts
    <2> QED BY <2>7, <2>8, <2>9, <2>10, <2>11, <2>12 DEF IInv
  <1> QED BY <1>3, <1>4

LEMMA CloseBodyStep ==
    ASSUME IInv, CloseBody
    PROVE  IInv'
  <1> DEFINE e == top.ev
             f == Mk("free", top.tpl, 0, e)
  <1>1. stack # <<>> /\ top.pc = "close" /\ top.pc \in LockedPc /\ top.pc \notin RestorePc
    BY DEF CloseBody, At, LockedPc, RestorePc
  <1>2. e \in ValidEvent /\ top.tpl \in Level
    BY <1>1, TopFrame DEF FrameOK, Frame
  <1>3. Released \in Frame /\ FrameOK(Released) /\ Released.pc = "check" /\ Released.tpl = top.tpl
    BY <1>1, ReleasedFacts
  <1>4. /\ EventQueue' = [p \in Level |-> RemoveEntryList(EventQueue[p], e)]
        /\ EventSignalQueue' = [s \in DOMAIN EventSignalQueue |->
                                    RemoveEntryList(EventSignalQueue[s], e)]
        /\ RuntimeEventList' = RuntimeEventList \ {e}
        /\ BecomeUnder(f, Released) /\ ReleaseLock
        /\ UNCHANGED <<EventPending, SignalCount, allocated>>
    BY DEF CloseBody, UnlinkNotify, UnlinkSignal
  <1> HIDE DEF e
  <1>5. f \in Frame /\ FrameOK(f) /\ f.pc = "free" /\ f.tpl = top.tpl /\ Suspended(f, Released)
    BY <1>2, <1>3 DEF Mk, Frame, FrameOK, Pc, Suspended, LevelOK, LockedPc
  <1> HIDE DEF f
  <1>6. StackType' /\ StackInv' /\ stack' # <<>> /\ top' = Released
    BY <1>1, <1>3, <1>4, <1>5, BecomeUnderStep DEF IInv, GlobalsType
  <1>7. /\ EventQueue \in [Level -> Seq(ValidEvent)]
        /\ EventSignalQueue \in [0 .. EVT_EFI_SIGNAL_MAX - 1 -> Seq(ValidEvent)]
    BY DEF IInv, GlobalsType, ListsType
  <1>8. ASSUME NEW p \in Level
        PROVE  /\ EventQueue'[p] \in Seq(ValidEvent)
               /\ EventQueue'[p] # <<>> => EventQueue[p] # <<>>
    <2>1. EventQueue'[p] = RemoveEntryList(EventQueue[p], e) /\ EventQueue[p] \in Seq(ValidEvent)
      BY <1>4, <1>7
    <2>2. EventQueue'[p] \in Seq(ValidEvent) /\ Len(EventQueue'[p]) <= Len(EventQueue[p])
      BY <2>1, RemoveFacts
    <2> QED BY <2>1, <2>2
  <1>9. EventSignalQueue' \in [0 .. EVT_EFI_SIGNAL_MAX - 1 -> Seq(ValidEvent)]
    <2>1. ASSUME NEW s \in 0 .. EVT_EFI_SIGNAL_MAX - 1
          PROVE  RemoveEntryList(EventSignalQueue[s], e) \in Seq(ValidEvent)
      BY <1>7, RemoveFacts
    <2> QED BY <1>4, <1>7, <2>1
  <1>10. EventQueue' \in [Level -> Seq(ValidEvent)]
    BY <1>4, <1>8
  <1>11. ListsType'
    BY <1>4, <1>9, <1>10 DEF IInv, GlobalsType, ListsType
  <1>12. QueuedIsPending'
    BY <1>4, <1>8 DEF IInv, QueuedIsPending
  <1> QED BY <1>1, <1>4, <1>6, <1>11, <1>12, ReleaseStep

\* A function other than RestoreTPL returns at the level it was called at.
LEMMA ReturnFacts ==
    ASSUME IInv, stack # <<>>, top.pc \in {"free", "wait", "ready"}, Pop,
           UNCHANGED <<TPL, IntEnabled, EventPending, EventSignalQueue>>
    PROVE  StackType' /\ StackInv' /\ TopInv' /\ ((stack # <<>>)' => top'.pc \notin LockedPc)
  <1>1. /\ StackType' /\ StackInv'
        /\ (stack # <<>>)' => Suspended(top', top) /\ top' \in Frame /\ FrameOK(top')
    BY PopStep DEF IInv, GlobalsType
  <1>2. TPL = top.tpl /\ top.pc \notin RestorePc
    BY TopFrame DEF TopOK, LevelOK, RestorePc
  <1>3. (stack # <<>>)' => top'.pc \notin LockedPc /\ top'.pc \notin {"select", "lower"} /\ LevelOK(top', TPL)
    BY <1>1, <1>2 DEF Suspended
  <1>4. TopInv'
    BY <1>3 DEF TopInv, TopOK, LockedPc, LevelOK
  <1> QED BY <1>1, <1>3, <1>4

LEMMA CloseFreeStep ==
    ASSUME IInv, CloseFree
    PROVE  IInv'
  <1>1. /\ stack # <<>> /\ top.pc = "free" /\ Pop /\ allocated' = allocated \ {top.ev}
        /\ UNCHANGED <<TPL, IntEnabled, EventQueueLock, EventQueue, EventPending,
                       EventSignalQueue, RuntimeEventList, SignalCount>>
    BY DEF CloseFree, At
  <1>2. StackType' /\ StackInv' /\ TopInv' /\ ((stack # <<>>)' => top'.pc \notin LockedPc)
    BY <1>1, ReturnFacts
  <1>3. GlobalsType'
    BY <1>1, <1>2 DEF IInv, GlobalsType, ListsType
  <1>4. LockInv'
    BY <1>1, <1>2 DEF IInv, LockInv, LockedPc
  <1>5. HighBeforeInterrupts' /\ QueuedIsPending'
    BY <1>1 DEF IInv, HighBeforeInterrupts, QueuedIsPending
  <1> QED BY <1>2, <1>3, <1>4, <1>5 DEF IInv

LEMMA WaitReturnStep ==
    ASSUME IInv, WaitReturn
    PROVE  IInv'
  <1>1. /\ stack # <<>> /\ top.pc = "ready" /\ Pop /\ top.pc \notin LockedPc
        /\ UNCHANGED <<TPL, IntEnabled, EventQueueLock, lists>>
    BY DEF WaitReturn, At, LockedPc
  <1>2. StackType' /\ StackInv' /\ TopInv' /\ ((stack # <<>>)' => top'.pc \notin LockedPc)
    BY <1>1, ReturnFacts DEF lists
  <1> QED BY <1>1, <1>2, QuietStep

LEMMA WaitPollStep ==
    ASSUME IInv, WaitPoll
    PROVE  IInv'
  <1> DEFINE e == WaitList[top.prio]
             f == [top EXCEPT !.pc = "waiting"]
             g == Mk("test", top.tpl, 0, e)
  <1>1. /\ stack # <<>> /\ top.pc = "wait" /\ top.pc \notin LockedPc /\ top.pc \notin RestorePc
        /\ UNCHANGED <<TPL, IntEnabled, EventQueueLock, lists>>
    BY DEF WaitPoll, At, LockedPc, RestorePc
  <1>2. CASE Is(e, "NOTIFY_SIGNAL")
    <2>1. Pop
      BY <1>2 DEF WaitPoll
    <2>2. StackType' /\ StackInv' /\ TopInv' /\ ((stack # <<>>)' => top'.pc \notin LockedPc)
      BY <1>1, <2>1, ReturnFacts DEF lists
    <2> QED BY <1>1, <2>2, QuietStep
  <1>3. CASE ~ Is(e, "NOTIFY_SIGNAL")
    <2>1. BecomeUnder(f, g)
      BY <1>3 DEF WaitPoll
    <2>2. top.prio \in 1..Len(WaitList) /\ top.tpl \in Level /\ TPL = top.tpl
      BY <1>1, TopFrame DEF FrameOK, Frame, TopOK, LevelOK
    <2>3. e \in ValidEvent
      BY <2>2, EventAssumption
    <2>4. f \in Frame /\ f.pc = "waiting" /\ f.tpl = top.tpl /\ f.prio = top.prio
      BY <1>1, MoveFacts DEF Pc
    <2>5. g \in Frame /\ FrameOK(g) /\ g.pc = "test" /\ g.tpl = top.tpl
      BY <2>2, <2>3 DEF Mk, Frame, FrameOK, Pc
    <2> HIDE DEF e, f, g
    <2>6. FrameOK(f) /\ Suspended(f, g)
      BY <2>2, <2>4, <2>5 DEF FrameOK, Suspended, LevelOK, LockedPc
    <2>7. StackType' /\ StackInv' /\ stack' # <<>> /\ top' = g
      BY <1>1, <2>1, <2>4, <2>5, <2>6, BecomeUnderStep DEF IInv, GlobalsType
    <2>8. TopInv' /\ g.pc \notin LockedPc
      BY <1>1, <2>2, <2>5, <2>7 DEF TopInv, TopOK, LevelOK, LockedPc
    <2> QED BY <1>1, <2>7, <2>8, QuietStep
  <1> QED BY <1>2, <1>3

\* CheckEvent moves on from one of its tests, taking the lock or not.
LEMMA CheckMoveStep ==
    ASSUME IInv, stack # <<>>, top.pc \in {"test", "retest"},
           NEW pc \in {"requeue", "retest", "consume"}, Become([top EXCEPT !.pc = pc]),
           IF pc = "retest" THEN UNCHANGED <<TPL, IntEnabled, EventQueueLock>> ELSE AcquireLock,
           UNCHANGED lists
    PROVE  IInv'
  <1> DEFINE f == [top EXCEPT !.pc = pc]
  <1>1. FrameOK(top) /\ TPL = top.tpl /\ top.pc \notin LockedPc /\ top.pc \notin RestorePc
    BY TopFrame DEF TopOK, LevelOK, LockedPc, RestorePc
  <1>2. /\ f \in Frame /\ f.pc = pc /\ f.tpl = top.tpl /\ f.ev = top.ev
    BY MoveFacts DEF Pc, LockedPc
  <1> HIDE DEF f
  <1>3. FrameOK(f)
    BY <1>1, <1>2 DEF FrameOK
  <1>4. StackType' /\ StackInv' /\ stack' # <<>> /\ top' = f
    BY <1>1, <1>2, <1>3, BecomeStep DEF IInv, GlobalsType, f
  <1>5. CASE pc = "retest"
    <2>1. f.pc \notin LockedPc /\ TopInv'
      BY <1>1, <1>2, <1>4, <1>5 DEF TopInv, TopOK, LevelOK, LockedPc
    <2> QED BY <1>1, <1>4, <1>5, <2>1, QuietStep
  <1>6. CASE pc # "retest"
    <2>1. f.pc \in LockedPc /\ f.pc # "popping" /\ f.pc # "list"
      BY <1>2, <1>6 DEF LockedPc
    <2> QED BY <1>1, <1>2, <1>4, <1>6, <2>1, AcquireStep
  <1> QED BY <1>5, <1>6

LEMMA CheckTestStep ==
    ASSUME IInv, CheckTest
    PROVE  IInv'
  <1>1. stack # <<>> /\ top.pc = "test" /\ UNCHANGED lists
    BY DEF CheckTest, At
  <1>2. \/ AcquireLock /\ Become([top EXCEPT !.pc = "requeue"])
        \/ Become([top EXCEPT !.pc = "retest"]) /\ UNCHANGED <<TPL, IntEnabled, EventQueueLock>>
    BY DEF CheckTest
  <1> QED BY <1>1, <1>2, CheckMoveStep

LEMMA CheckRequeueStep ==
    ASSUME IInv, CheckRequeue
    PROVE  IInv'
  <1> DEFINE e == top.ev
             f == [top EXCEPT !.pc = "retest"]
  <1>1. stack # <<>> /\ top.pc = "requeue" /\ top.pc \in LockedPc /\ top.pc \notin RestorePc
    BY DEF CheckRequeue, At, LockedPc, RestorePc
  <1>2. e \in ValidEvent
    BY <1>1, TopFrame DEF FrameOK
  <1>3. /\ NotifyEvent(e) \/ UNCHANGED <<EventQueue, EventPending>>
        /\ ReleaseLock /\ BecomeUnder(f, Released)
        /\ UNCHANGED <<EventSignalQueue, RuntimeEventList, SignalCount, allocated>>
    BY DEF CheckRequeue
  <1>4. Released \in Frame /\ FrameOK(Released) /\ Released.pc = "check" /\ Released.tpl = top.tpl
    BY <1>1, ReleasedFacts
  <1>5. f \in Frame /\ f.pc = "retest" /\ f.tpl = top.tpl /\ f.ev = e
    BY <1>1, MoveFacts DEF Pc
  <1> HIDE DEF e, f
  <1>6. FrameOK(f) /\ Suspended(f, Released)
    BY <1>2, <1>4, <1>5 DEF FrameOK, Suspended, LevelOK, LockedPc
  <1>7. StackType' /\ StackInv' /\ stack' # <<>> /\ top' = Released
    BY <1>1, <1>3, <1>4, <1>5, <1>6, BecomeUnderStep DEF IInv, GlobalsType
  <1>8. /\ EventQueue' \in [Level -> Seq(ValidEvent)] /\ EventPending' \subseteq Level
        /\ QueuedIsPending'
    <2>1. CASE NotifyEvent(e)
      BY <1>2, <2>1, NotifyEventFacts
    <2>2. CASE UNCHANGED <<EventQueue, EventPending>>
      BY <2>2 DEF IInv, GlobalsType, ListsType, QueuedIsPending
    <2> QED BY <1>3, <2>1, <2>2
  <1>9. ListsType'
    BY <1>3, <1>8 DEF IInv, GlobalsType, ListsType
  <1> QED BY <1>1, <1>3, <1>7, <1>8, <1>9, ReleaseStep

LEMMA CheckRetestStep ==
    ASSUME IInv, CheckRetest
    PROVE  IInv'
  <1>1. stack # <<>> /\ top.pc = "retest" /\ UNCHANGED lists
    BY DEF CheckRetest, At
  <1>2. CASE AcquireLock /\ Become([top EXCEPT !.pc = "consume"])
    BY <1>1, <1>2, CheckMoveStep
  <1>3. CASE stack' = Caller(FALSE) /\ UNCHANGED <<TPL, IntEnabled, EventQueueLock>>
    <2>1. TPL = top.tpl /\ top.pc \notin RestorePc /\ top.pc \notin LockedPc
      BY <1>1, TopFrame DEF TopOK, LevelOK, RestorePc, LockedPc
    <2>2. /\ stack' \in Seq(Frame) /\ Len(stack') = Len(stack) - 1
          /\ \A i \in 1 .. Len(stack) - 1 : FrameOK(stack'[i])
          /\ \A i \in 1 .. Len(stack) - 2 : Suspended(stack'[i], stack'[i + 1])
          /\ \A g \in Frame : g.tpl = top.tpl /\ Len(stack) > 1
                 => Suspended(stack'[Len(stack) - 1], g)
          /\ Len(stack) \in Nat \ {0}
      BY <1>1, <1>3, <2>1, CallerFacts DEF IInv, GlobalsType
    <2>3. StackType' /\ StackInv'
      <3>1. StackType'
        BY <2>2 DEF StackType
      <3>2. ASSUME NEW i \in 1 .. Len(stack') - 1 PROVE Suspended(stack'[i], stack'[i + 1])
        BY <2>2
      <3>3. StackInv'
        BY <3>2 DEF StackInv, Suspended, LevelOK
      <3> QED BY <3>1, <3>3
    <2>4. (stack # <<>>)' => Suspended(top', top)
      BY <1>1, <2>2, TopFrame DEF top
    <2>5. (stack # <<>>)' => /\ top'.pc \notin LockedPc /\ top'.pc \notin {"select", "lower"}
                             /\ LevelOK(top', TPL)
      BY <2>1, <2>4 DEF Suspended
    <2>6. TopInv'
      BY <1>3, <2>5 DEF TopInv, TopOK, LockedPc, LevelOK
    <2> QED BY <1>1, <1>3, <2>1, <2>3, <2>5, <2>6, QuietStep
  <1> QED BY <1>2, <1>3 DEF CheckRetest

LEMMA CheckConsumeStep ==
    ASSUME IInv, CheckConsume
    PROVE  IInv'
  <1> DEFINE ready == SignalCount[top.ev] > 0
             c == Caller(ready)
  <1>1. stack # <<>> /\ top.pc = "consume" /\ top.pc \in LockedPc /\ top.pc \notin RestorePc
    BY DEF CheckConsume, At, LockedPc, RestorePc
  <1>2. top.ev \in Event
    BY <1>1, TopFrame, NotifyTplFacts DEF FrameOK
  <1>3. /\ SignalCount' = [SignalCount EXCEPT ![top.ev] = 0]
        /\ stack' = Append(c, Released) /\ ReleaseLock
        /\ UNCHANGED <<EventQueue, EventPending, EventSignalQueue, RuntimeEventList, allocated>>
    BY DEF CheckConsume, ClearSignal
  <1>4. Released \in Frame /\ FrameOK(Released) /\ Released.pc = "check" /\ Released.tpl = top.tpl
    BY <1>1, ReleasedFacts
  <1>5. /\ c \in Seq(Frame) /\ Len(c) = Len(stack) - 1
        /\ \A i \in 1 .. Len(stack) - 1 : FrameOK(c[i])
        /\ \A i \in 1 .. Len(stack) - 2 : Suspended(c[i], c[i + 1])
        /\ \A g \in Frame : g.tpl = top.tpl /\ Len(stack) > 1
               => Suspended(c[Len(stack) - 1], g)
        /\ Len(stack) \in Nat \ {0}
    <2>1. ready \in BOOLEAN
      OBVIOUS
    <2> HIDE DEF ready
    <2> QED BY <1>1, <2>1, CallerFacts DEF IInv, GlobalsType
  <1> HIDE DEF c
  <1>6. /\ stack' \in Seq(Frame) /\ Len(stack') = Len(stack)
        /\ \A i \in 1 .. Len(stack) - 1 : stack'[i] = c[i]
        /\ stack'[Len(stack)] = Released
    BY <1>3, <1>4, <1>5, AppendFacts
  <1>7. StackType' /\ (stack # <<>>)' /\ top' = Released
    BY <1>4, <1>5, <1>6 DEF StackType, top
  <1>8. StackInv'
    <2> SUFFICES ASSUME NEW i \in 1 .. Len(stack) - 1
                 PROVE  Suspended(stack'[i], stack'[i + 1])
      BY <1>6 DEF StackInv, Suspended, LevelOK
    <2>1. CASE i = Len(stack) - 1
      BY <1>4, <1>5, <1>6, <2>1
    <2>2. CASE i < Len(stack) - 1
      BY <1>5, <1>6, <2>2
    <2> QED BY <1>5, <2>1, <2>2
  <1>9. ListsType' /\ QueuedIsPending'
    BY <1>2, <1>3 DEF IInv, GlobalsType, ListsType, QueuedIsPending
  <1> QED BY <1>1, <1>3, <1>7, <1>8, <1>9, ReleaseStep

-----------------------------------------------------------------------------
(* The theorems *)

\* The state that InitializeEvent and InitializeTimer leave.
LEMMA InitIInv == Init => IInv
  <1> SUFFICES ASSUME Init PROVE IInv
    OBVIOUS
  <1> USE DEF Init
  <1>1. Event \ Closable \subseteq ValidEvent
    BY EventAssumption DEF ValidEvent
  <1>2. StackType /\ StackInv /\ TopInv /\ LockInv
    BY DEF StackType, StackInv, TopInv, LockInv
  <1>3. ListsType
    BY <1>1 DEF ListsType
  <1>4. GlobalsType
    BY <1>2, <1>3, LevelFacts DEF GlobalsType
  <1>5. HighBeforeInterrupts /\ QueuedIsPending
    BY LevelFacts DEF HighBeforeInterrupts, QueuedIsPending
  <1> QED BY <1>2, <1>4, <1>5 DEF IInv

\* Every step of the code, of its callers and of the interrupt keeps the invariant.
LEMMA NextIInv == IInv /\ [Next]_vars => IInv'
  <1> SUFFICES ASSUME IInv, [Next]_vars PROVE IInv'
    OBVIOUS
  <1>1. CASE Kernel
    BY <1>1, RestoreCheckStep, RestoreSelectStep, RestoreLowerStep, DispatchAcquireStep,
       DispatchPopStep, DispatchCallStep, CreateBodyStep, SignalBodyStep, ListStepStep,
       CloseBodyStep, CloseFreeStep, CheckTestStep, CheckRequeueStep, CheckRetestStep,
       CheckConsumeStep, WaitPollStep, WaitReturnStep DEF Kernel
  <1>2. CASE User
    <2>1. ASSUME NEW t \in RaiseLevels, RaiseTPL(t) PROVE IInv'
      BY <2>1, RaiseTPLStep
    <2>2. ASSUME NEW e \in Event, CreateEvent(e) PROVE IInv'
      <3>1. e \in ValidEvent /\ UserRunning /\ Enter("create", e)
        BY <2>2 DEF CreateEvent, ValidEvent, MayCall
      <3> QED BY <3>1, EnterStep
    <2>3. ASSUME NEW e \in Event, SignalEvent(e) PROVE IInv'
      <3>1. e \in ValidEvent /\ UserRunning /\ Enter("signal", e)
        BY <2>3 DEF SignalEvent, MayUse, MayCall, IInv, GlobalsType, ListsType
      <3> QED BY <3>1, EnterStep
    <2>4. ASSUME NEW e \in Event, CheckEvent(e) PROVE IInv'
      BY <2>4, CheckEventStep
    <2>5. ASSUME NEW e \in Event, CloseEvent(e) PROVE IInv'
      <3>1. e \in ValidEvent /\ UserRunning /\ Enter("close", e)
        BY <2>5 DEF CloseEvent, MayClose, MayUse, MayCall, IInv, GlobalsType, ListsType
      <3> QED BY <3>1, EnterStep
    <2>6. ASSUME NEW s \in 0 .. EVT_EFI_SIGNAL_MAX - 1, RtNotifySignalList(s) PROVE IInv'
      BY <2>6, RtNotifySignalListStep
    <2>7. CASE WaitForEvent
      BY <2>7, WaitForEventStep
    <2> QED BY <1>2, <2>1, <2>2, <2>3, <2>4, <2>5, <2>6, <2>7 DEF User
  <1>3. CASE Leave
    BY <1>3, RestoreTPLStep, NotifyReturnStep DEF Leave
  <1>4. CASE Interrupt
    BY <1>4, TickStep DEF Interrupt
  <1>5. CASE UNCHANGED vars
    BY <1>5 DEF vars, IInv, GlobalsType, ListsType, StackType, StackInv, LockInv, TopInv, TopOK, top,
                HighBeforeInterrupts, QueuedIsPending
  <1> QED BY <1>1, <1>2, <1>3, <1>4, <1>5 DEF Next

\* A build stays the one it is.
LEMMA BuildKept == [Next]_vars => rereads' = rereads
  BY DEF Next, Kernel, User, Leave, Interrupt, vars

THEOREM Invariance == Spec => []IInv
  BY InitIInv, NextIInv, PTL DEF Spec

\* The types of the globals of execdata.c and of the call stack.
THEOREM TypeCorrect == Spec => []TypeOK
  <1>1. Init => rereads \in Reread
    BY DEF Init
  <1>2. rereads \in Reread /\ [Next]_vars => (rereads \in Reread)'
    BY BuildKept
  <1>3. IInv /\ rereads \in Reread => TypeOK
    BY DEF IInv, TypeOK
  <1> QED BY <1>1, <1>2, <1>3, Invariance, PTL DEF Spec

\* The assertions of RtAcquireLock and RtReleaseLock never fail: EventQueueLock
\* is held at most once, at TPL_HIGH_LEVEL and with interrupts disabled, for any
\* number of events and levels and however deep interrupts and calls nest.
THEOREM MutualExclusion == Spec => []LockExclusive
  <1>1. IInv => LockExclusive
    BY DEF IInv, LockInv, LockExclusive
  <1> QED BY <1>1, Invariance, PTL

\* The assertion of DispatchEventNotifies never fails.
THEOREM DispatcherLevel == Spec => []DispatchOwner
  <1>1. IInv => DispatchOwner
    BY DEF IInv, LockInv, DispatchOwner, At, LockedPc
  <1> QED BY <1>1, Invariance, PTL

\* RestoreTPL enables interrupts below TPL_HIGH_LEVEL only, and only after the
\* notifications of TPL_HIGH_LEVEL.
THEOREM HighLevelFirst == Spec => []HighBeforeInterrupts
  <1>1. IInv => HighBeforeInterrupts
    BY DEF IInv
  <1> QED BY <1>1, Invariance, PTL

\* NotifyEvent, DispatchEventNotifies and CloseEvent keep EventPending in step
\* with the queues.
THEOREM NoStrandedLevel == Spec => []QueuedIsPending
  <1>1. IInv => QueuedIsPending
    BY DEF IInv
  <1> QED BY <1>1, Invariance, PTL

-----------------------------------------------------------------------------
(* Events: no reference to a freed event is left behind, no signal is wedged, *)
(* and notify functions nest by level.  The inductive invariant *)

\* A frame that looks at event e when its code goes on.  The dispatcher may find
\* that the event it is about to call is gone.
Uses(f, e) ==
    \/ f.ev = e /\ f.pc \in {"signal", "close", "list", "requeue", "consume", "free", "test", "retest"}
    \/ f.pc \in {"wait", "waiting", "ready"} /\ InList(WaitList, e)

Closer(f) == f.pc \in {"close", "free"}

Once(q) == \A i, j \in 1..Len(q) : q[i] = q[j] => i = j

Signals == 0 .. EVT_EFI_SIGNAL_MAX - 1

\* Some list leads to event e.
Linked(e) ==
    \/ \E p \in Level : InList(EventQueue[p], e)
    \/ \E s \in Signals : InList(EventSignalQueue[s], e)
    \/ e \in RuntimeEventList

\* Lists lead to live events, once, and queues to those of their level.
ListsInv ==
    /\ \A p \in Level : Once(EventQueue[p])
    /\ \A s \in Signals : Once(EventSignalQueue[s])
    /\ \A p \in Level : \A e \in Event : InList(EventQueue[p], e) => NotifyTpl(e) = p
    /\ \A e \in Event : Linked(e) => e \in allocated

\* Frames use live events.
UsersInv == \A i \in 1..Len(stack) : \A e \in Event : Uses(stack[i], e) => e \in allocated

\* Whoever closes an event is alone with it.
ClosersInv ==
    \A i \in 1..Len(stack) : \A e \in Event : Closer(stack[i]) /\ stack[i].ev = e =>
        /\ e \in Closable
        /\ \A j \in 1..Len(stack) : j # i => ~ Uses(stack[j], e)
        /\ stack[i].pc = "free" => ~ Linked(e)

\* Events that nobody may close exist.
KeptInv == Event \ Closable \subseteq allocated

\* CreateEvent has a structure that is not in use.
CreateInv == \A i \in 1..Len(stack) : stack[i].pc = "create" => stack[i].ev \notin allocated

EInv == IInv /\ ListsInv /\ UsersInv /\ ClosersInv /\ CreateInv /\ KeptInv /\ SignalledIsQueued

\* The levels on a stack s that runs at a level, in a build w: nobody returns to
\* a level below one that a frame under it returns to, and a dispatcher is above
\* the level it will restore.  A build that reads EventPending again keeps this
\* up from TPL_HIGH_LEVEL - 1 on.
DispatchPc == {"select", "dispatch", "popping", "call", "notify"}
Kept(t, w) == w = TRUE => t >= TPL_HIGH_LEVEL - 1
AboveCaller(f, w) == f.pc \in DispatchPc /\ Kept(f.tpl, w) => f.tpl < f.prio
Ascending(s, level, w) ==
    /\ \A i, j \in 1..Len(s) : i <= j /\ Kept(s[i].tpl, w) => s[i].tpl <= s[j].tpl
    /\ \A i \in 1..Len(s) : AboveCaller(s[i], w) /\ (Kept(s[i].tpl, w) => s[i].tpl <= level)
NInv == rereads \in BOOLEAN /\ Ascending(stack, TPL, rereads)

-----------------------------------------------------------------------------
(* Lists *)

\* Unlinking an entry of a list without duplicates leaves a list without
\* duplicates that does not have it.
LEMMA RemoveOnce ==
    ASSUME NEW S, NEW q \in Seq(S), NEW e, Once(q)
    PROVE  Once(RemoveEntryList(q, e)) /\ ~ InList(RemoveEntryList(q, e), e)
  <1>1. CASE ~ InList(q, e)
    BY <1>1 DEF RemoveEntryList
  <1>2. CASE InList(q, e)
    <2> DEFINE k == CHOOSE i \in 1..Len(q) : q[i] = e
               r == [i \in 1..(Len(q) - 1) |-> IF i < k THEN q[i] ELSE q[i + 1]]
    <2>1. k \in 1..Len(q) /\ q[k] = e
      BY <1>2 DEF InList
    <2>2. RemoveEntryList(q, e) = r
      BY <1>2 DEF RemoveEntryList
    <2> HIDE DEF k
    <2>3. Len(r) = Len(q) - 1 /\ Len(q) \in Nat
      BY <2>1
    <2>4. ASSUME NEW i \in 1..Len(r)
          PROVE  \E m \in 1..Len(q) : m # k /\ r[i] = q[m] /\ m = IF i < k THEN i ELSE i + 1
      <3>1. CASE i < k
        <4>1. i \in 1..Len(q) /\ i # k /\ r[i] = q[i]
          BY <2>1, <2>3, <3>1
        <4> QED BY <3>1, <4>1
      <3>2. CASE ~ (i < k)
        <4>1. i + 1 \in 1..Len(q) /\ i + 1 # k /\ r[i] = q[i + 1]
          BY <2>1, <2>3, <3>2
        <4> QED BY <3>2, <4>1
      <3> QED BY <3>1, <3>2
    <2> HIDE DEF r
    <2>5. Once(r)
      BY <2>1, <2>3, <2>4 DEF Once
    <2>6. ~ InList(r, e)
      <3> SUFFICES ASSUME NEW i \in 1..Len(r), r[i] = e PROVE FALSE
        BY DEF InList
      <3>1. PICK m \in 1..Len(q) : m # k /\ r[i] = q[m]
        BY <2>4
      <3> QED BY <2>1, <3>1 DEF Once
    <2> QED BY <2>2, <2>5, <2>6
  <1> QED BY <1>1, <1>2

\* An entry is linked at the tail of a list that does not have it.
LEMMA AppendOnce ==
    ASSUME NEW S, NEW q \in Seq(S), NEW e \in S, Once(q), ~ InList(q, e)
    PROVE  /\ Once(Append(q, e))
           /\ \A x : InList(Append(q, e), x) <=> InList(q, x) \/ x = e
  <1> DEFINE r == Append(q, e)
  <1>1. /\ Len(r) = Len(q) + 1 /\ Len(q) \in Nat
        /\ \A i \in 1..Len(q) : r[i] = q[i]
        /\ r[Len(q) + 1] = e
    BY AppendFacts
  <1> HIDE DEF r
  <1>2. \A i \in 1..Len(r) : i \in 1..Len(q) \/ i = Len(q) + 1
    BY <1>1
  <1>3. Once(r)
    BY <1>1, <1>2 DEF Once, InList
  <1>4. ASSUME NEW x PROVE InList(r, x) <=> InList(q, x) \/ x = e
    <2>1. 1..Len(q) \subseteq 1..Len(r) /\ Len(q) + 1 \in 1..Len(r)
      BY <1>1
    <2> QED BY <1>1, <1>2, <2>1 DEF InList
  <1> QED BY <1>3, <1>4 DEF r

\* An entry is linked at the head of a list that does not have it.
LEMMA InsertOnce ==
    ASSUME NEW S, NEW q \in Seq(S), NEW e \in S, Once(q), ~ InList(q, e)
    PROVE  /\ Once(<<e>> \o q)
           /\ \A x : InList(<<e>> \o q, x) <=> InList(q, x) \/ x = e
  <1> DEFINE r == <<e>> \o q
  <1>1. /\ Len(r) = Len(q) + 1 /\ Len(q) \in Nat
        /\ \A i \in 1..Len(q) : r[i + 1] = q[i]
        /\ r[1] = e
    OBVIOUS
  <1> HIDE DEF r
  <1>2. \A i \in 1..Len(r) : i = 1 \/ (i - 1 \in 1..Len(q) /\ r[i] = q[i - 1])
    BY <1>1
  <1>3. Once(r)
    <2> SUFFICES ASSUME NEW i \in 1..Len(r), NEW j \in 1..Len(r), r[i] = r[j]
                 PROVE  i = j
      BY DEF Once
    <2>1. CASE i = 1 /\ j = 1
      BY <2>1
    <2>2. CASE i = 1 /\ j # 1
      BY <1>1, <1>2, <2>2 DEF InList
    <2>3. CASE i # 1 /\ j = 1
      BY <1>1, <1>2, <2>3 DEF InList
    <2>4. CASE i # 1 /\ j # 1
      BY <1>1, <1>2, <2>4 DEF Once
    <2> QED BY <2>1, <2>2, <2>3, <2>4
  <1>4. ASSUME NEW x PROVE InList(r, x) <=> InList(q, x) \/ x = e
    <2>1. ASSUME InList(r, x) PROVE InList(q, x) \/ x = e
      BY <1>1, <1>2, <2>1 DEF InList
    <2>2. ASSUME InList(q, x) PROVE InList(r, x)
      <3>1. PICK i \in 1..Len(q) : q[i] = x
        BY <2>2 DEF InList
      <3>2. i + 1 \in 1..Len(r) /\ r[i + 1] = x
        BY <1>1, <3>1
      <3> QED BY <3>2 DEF InList
    <2>3. 1 \in 1..Len(r) /\ r[1] = e
      BY <1>1
    <2> QED BY <2>1, <2>2, <2>3 DEF InList
  <1> QED BY <1>3, <1>4 DEF r

-----------------------------------------------------------------------------
(* Frames.  A step keeps the frames of the stack, adds frames that use live *)
(* events nobody closes, and leaves those that close one as they are.       *)

Less(f, g) ==
    /\ \A e \in Event : Uses(g, e) => Uses(f, e)
    /\ ~ Closer(f) /\ ~ Closer(g)
    /\ g.pc # "create"

Fresh(g) ==
    /\ \A e \in Event : Uses(g, e) => e \in allocated /\ ~ Closing(e)
    /\ ~ Closer(g)
    /\ g.pc = "create" => g.ev \notin allocated

StackKept ==
    /\ \A i \in 1..Len(stack') :
          \/ i \in 1..Len(stack) /\ (stack'[i] = stack[i] \/ Less(stack[i], stack'[i]))
          \/ Fresh(stack'[i]) /\ (i \in 1..Len(stack) => ~ Closer(stack[i]))
    /\ \A i \in 1..Len(stack) : Closer(stack[i]) => i \in 1..Len(stack')
    /\ Len(stack) \in Nat /\ Len(stack') \in Nat

\* The running frame moves on.
LEMMA KeptBecome ==
    ASSUME StackType, stack # <<>>, NEW f \in Frame, Become(f), Less(top, f)
    PROVE  StackKept
  <1>1. /\ Len(stack') = Len(stack) /\ Len(stack) \in Nat \ {0}
        /\ \A i \in 1..(Len(stack) - 1) : stack'[i] = stack[i]
        /\ stack'[Len(stack)] = f
    BY TopFacts DEF Become, StackType
  <1> QED BY <1>1 DEF StackKept, top

\* A frame is pushed.
LEMMA KeptPush ==
    ASSUME StackType, NEW f \in Frame, Push(f), Fresh(f)
    PROVE  StackKept
  <1>1. /\ Len(stack') = Len(stack) + 1 /\ Len(stack) \in Nat
        /\ \A i \in 1..Len(stack) : stack'[i] = stack[i]
        /\ stack'[Len(stack) + 1] = f
    BY AppendFacts DEF Push, StackType
  <1> QED BY <1>1 DEF StackKept

\* The running frame moves on and calls.
LEMMA KeptBecomeUnder ==
    ASSUME StackType, stack # <<>>, NEW f \in Frame, NEW g \in Frame, BecomeUnder(f, g),
           Less(top, f) \/ (Fresh(f) /\ ~ Closer(top)), Fresh(g)
    PROVE  StackKept
  <1> DEFINE t == [stack EXCEPT ![Len(stack)] = f]
  <1>1. /\ Len(t) = Len(stack) /\ Len(stack) \in Nat \ {0} /\ t \in Seq(Frame)
        /\ \A i \in 1..(Len(stack) - 1) : t[i] = stack[i]
        /\ t[Len(stack)] = f
    BY TopFacts DEF StackType
  <1>2. stack' = Append(t, g)
    BY DEF BecomeUnder
  <1> HIDE DEF t
  <1>3. /\ Len(stack') = Len(stack) + 1
        /\ \A i \in 1..(Len(stack) - 1) : stack'[i] = stack[i]
        /\ stack'[Len(stack)] = f /\ stack'[Len(stack) + 1] = g
    <2>1. /\ Len(stack') = Len(t) + 1
          /\ \A i \in 1..Len(t) : stack'[i] = t[i]
          /\ stack'[Len(t) + 1] = g
      BY <1>1, <1>2, AppendFacts
    <2> QED BY <1>1, <2>1
  <1> QED BY <1>1, <1>3 DEF StackKept, top

\* The running frame returns.
LEMMA KeptPop ==
    ASSUME StackType, stack # <<>>, Pop, ~ Closer(top)
    PROVE  StackKept
  <1>1. /\ Len(stack') = Len(stack) - 1 /\ Len(stack) \in Nat \ {0}
        /\ \A i \in 1..(Len(stack) - 1) : stack'[i] = stack[i]
    BY PopFacts DEF Pop, StackType
  <1> QED BY <1>1 DEF StackKept, top

\* What Told leaves of the frame under CheckEvent.
LEMMA ToldFacts ==
    ASSUME NEW f \in Frame, NEW ready \in BOOLEAN
    PROVE  /\ Told(f, ready) = f \/ Less(f, Told(f, ready))
           /\ Told(f, ready).tpl = f.tpl
           /\ Told(f, ready) = f \/ Told(f, ready).pc \in {"wait", "ready"}
  <1>1. CASE f.pc # "waiting"
    BY <1>1 DEF Told
  <1>2. ASSUME f.pc = "waiting", NEW g, g.pc \in {"wait", "ready"}, g.ev = f.ev
        PROVE  Less(f, g)
    BY <1>2 DEF Less, Uses, Closer
  <1>3. CASE f.pc = "waiting" /\ ready
    <2> DEFINE g == [f EXCEPT !.pc = "ready"]
    <2>1. g.pc = "ready" /\ g.ev = f.ev /\ g.tpl = f.tpl
      BY DEF Frame
    <2>2. Told(f, ready) = g
      BY <1>3 DEF Told
    <2> HIDE DEF g
    <2>3. Less(f, g)
      BY <1>2, <1>3, <2>1
    <2> QED BY <2>1, <2>2, <2>3
  <1>4. CASE f.pc = "waiting" /\ ~ ready
    <2> DEFINE g == [f EXCEPT !.pc = "wait", !.prio = NextIndex(@)]
    <2>1. g.pc = "wait" /\ g.ev = f.ev /\ g.tpl = f.tpl
      BY DEF Frame
    <2>2. Told(f, ready) = g
      BY <1>4 DEF Told
    <2> HIDE DEF g
    <2>3. Less(f, g)
      BY <1>2, <1>4, <2>1
    <2> QED BY <2>1, <2>2, <2>3
  <1> QED BY <1>1, <1>3, <1>4

\* CheckEvent returns, to WaitForEvent or to user code.
LEMMA CallerShape ==
    ASSUME StackType, stack # <<>>, NEW ready \in BOOLEAN
    PROVE  /\ Caller(ready) = [i \in 1 .. Len(stack) - 1 |-> Caller(ready)[i]]
           /\ Len(Caller(ready)) = Len(stack) - 1 /\ Len(stack) \in Nat \ {0}
           /\ \A i \in 1 .. Len(stack) - 1 :
                /\ Caller(ready)[i] = stack[i] \/ Less(stack[i], Caller(ready)[i])
                /\ Caller(ready)[i].tpl = stack[i].tpl
                /\ Caller(ready)[i] = stack[i] \/ Caller(ready)[i].pc \in {"wait", "ready"}
  <1> DEFINE c == Caller(ready)
  <1>1. Len(stack) \in Nat \ {0} /\ \A i \in 1 .. Len(stack) - 1 : stack[i] \in Frame
    BY DEF StackType
  <1>2. c = [i \in 1 .. Len(stack) - 1 |-> IF i = Len(stack) - 1 THEN Told(stack[i], ready) ELSE stack[i]]
    BY DEF Caller
  <1> HIDE DEF c
  <1>3. \A i \in 1 .. Len(stack) - 1 : c[i] = stack[i] \/ c[i] = Told(stack[i], ready)
    BY <1>2
  <1>4. \A i \in 1 .. Len(stack) - 1 :
                /\ c[i] = stack[i] \/ Less(stack[i], c[i])
                /\ c[i].tpl = stack[i].tpl
                /\ c[i] = stack[i] \/ c[i].pc \in {"wait", "ready"}
    BY <1>1, <1>3, ToldFacts
  <1>5. c = [i \in 1 .. Len(stack) - 1 |-> c[i]]
    BY <1>2
  <1>6. Len(c) = Len(stack) - 1
    BY <1>1, <1>2
  <1> QED BY <1>1, <1>4, <1>5, <1>6 DEF c

\* It returns without taking the lock.
LEMMA KeptCaller ==
    ASSUME StackType, stack # <<>>, NEW ready \in BOOLEAN, stack' = Caller(ready), ~ Closer(top)
    PROVE  StackKept
  <1>1. /\ Len(stack') = Len(stack) - 1 /\ Len(stack) \in Nat \ {0}
        /\ \A i \in 1 .. Len(stack) - 1 : stack'[i] = stack[i] \/ Less(stack[i], stack'[i])
    BY CallerShape
  <1> QED BY <1>1 DEF StackKept, top

\* It releases the lock on its way.
LEMMA KeptConsume ==
    ASSUME StackType, StackType', stack # <<>>, NEW ready \in BOOLEAN, NEW g \in Frame,
           Caller(ready) \in Seq(Frame),
           stack' = Append(Caller(ready), g), ~ Closer(top), Fresh(g)
    PROVE  StackKept
  <1> DEFINE c == Caller(ready)
  <1>1. /\ Len(c) = Len(stack) - 1 /\ Len(stack) \in Nat \ {0}
        /\ \A i \in 1 .. Len(stack) - 1 : c[i] = stack[i] \/ Less(stack[i], c[i])
    BY CallerShape
  <1> HIDE DEF c
  <1>2. /\ Len(stack') = Len(stack)
        /\ \A i \in 1 .. Len(stack) - 1 : stack'[i] = c[i]
        /\ stack'[Len(stack)] = g
    <2>1. c \in Seq(Frame) /\ stack' = Append(c, g)
      BY DEF c
    <2>2. /\ Len(stack') = Len(c) + 1
          /\ \A i \in 1..Len(c) : stack'[i] = c[i]
          /\ stack'[Len(c) + 1] = g
      BY <2>1, AppendFacts
    <2> QED BY <1>1, <2>2
  <1> QED BY <1>1, <1>2 DEF StackKept, top

\* The frames that close an event are the same afterwards.
LEMMA ClosersKept ==
    ASSUME StackKept
    PROVE  /\ \A i \in 1..Len(stack') : Closer(stack'[i]) => i \in 1..Len(stack) /\ stack'[i] = stack[i]
           /\ \A i \in 1..Len(stack) : Closer(stack[i]) => i \in 1..Len(stack') /\ stack'[i] = stack[i]
           /\ \A e : Closing(e)' <=> Closing(e)
  <1>1. \A i \in 1..Len(stack') : Closer(stack'[i]) => i \in 1..Len(stack) /\ stack'[i] = stack[i]
    BY DEF StackKept, Less, Fresh
  <1>2. \A i \in 1..Len(stack) : Closer(stack[i]) => i \in 1..Len(stack') /\ stack'[i] = stack[i]
    BY DEF StackKept, Less, Fresh
  <1>3. \A e : Closing(e)' <=> Closing(e)
    BY <1>1, <1>2 DEF Closing, Closer
  <1> QED BY <1>1, <1>2, <1>3

\* Frames and events stay in step when none is freed.
LEMMA FramesKept ==
    ASSUME StackKept, StackType, UsersInv, ClosersInv, allocated \subseteq allocated',
           \A i \in 1..Len(stack) : \A e \in Event : stack[i].pc = "free" /\ stack[i].ev = e => ~ Linked(e)'
    PROVE  UsersInv' /\ ClosersInv'
  <1>1. ASSUME NEW i \in 1..Len(stack'), NEW e \in Event, Uses(stack'[i], e)
        PROVE  \/ i \in 1..Len(stack) /\ Uses(stack[i], e)
               \/ e \in allocated /\ ~ Closing(e)
    BY <1>1 DEF StackKept, Less, Fresh
  <1>2. UsersInv'
    BY <1>1 DEF UsersInv
  <1>3. ASSUME NEW i \in 1..Len(stack'), NEW e \in Event, Closer(stack'[i]), stack'[i].ev = e
        PROVE  /\ e \in Closable
               /\ \A j \in 1..Len(stack') : j # i => ~ Uses(stack'[j], e)
               /\ stack'[i].pc = "free" => ~ Linked(e)'
    <2>1. i \in 1..Len(stack) /\ stack'[i] = stack[i] /\ Closer(stack[i]) /\ stack[i].ev = e
      BY <1>3, ClosersKept
    <2>2. e \in Closable
      BY <2>1 DEF ClosersInv
    <2>3. Closing(e)
      BY <2>1 DEF Closing, Closer
    <2>4. ASSUME NEW j \in 1..Len(stack'), j # i, Uses(stack'[j], e)
          PROVE  FALSE
      <3>1. j \in 1..Len(stack) /\ Uses(stack[j], e)
        BY <1>1, <2>3, <2>4
      <3> QED BY <2>1, <2>4, <3>1 DEF ClosersInv
    <2> QED BY <2>1, <2>2, <2>4
  <1>4. ClosersInv'
    BY <1>3 DEF ClosersInv
  <1> QED BY <1>2, <1>4

\* No frame creates an event that exists.
LEMMA CreateKept ==
    ASSUME StackKept, CreateInv, allocated' = allocated
    PROVE  CreateInv'
  BY DEF StackKept, CreateInv, Less, Fresh

\* A step that leaves the lists and the events alone.
LEMMA QuietEvents ==
    ASSUME EInv, IInv', StackKept, UNCHANGED lists
    PROVE  EInv'
  <1>1. /\ allocated' = allocated /\ EventQueue' = EventQueue /\ EventSignalQueue' = EventSignalQueue
        /\ RuntimeEventList' = RuntimeEventList /\ SignalCount' = SignalCount
    BY DEF lists
  <1>2. \A e : Linked(e)' <=> Linked(e)
    BY <1>1 DEF Linked
  <1>3. ListsInv'
    BY <1>1, <1>2 DEF EInv, ListsInv
  <1>4. \A i \in 1..Len(stack) : \A e \in Event : stack[i].pc = "free" /\ stack[i].ev = e => ~ Linked(e)'
    BY <1>2 DEF EInv, ClosersInv, Closer
  <1>5. UsersInv' /\ ClosersInv'
    BY <1>1, <1>4, FramesKept DEF EInv, IInv, GlobalsType
  <1>6. CreateInv'
    BY <1>1, CreateKept DEF EInv
  <1>7. SignalledIsQueued'
    BY <1>1, ClosersKept DEF EInv, SignalledIsQueued
  <1> QED BY <1>1, <1>3, <1>5, <1>6, <1>7 DEF EInv, KeptInv

-----------------------------------------------------------------------------
(* Frames that steps leave *)

WaitPc == {"wait", "waiting", "ready"}

\* The fields of a frame.
LEMMA MkFacts ==
    ASSUME NEW pc, NEW t, NEW p, NEW e
    PROVE  Mk(pc, t, p, e).pc = pc /\ Mk(pc, t, p, e).tpl = t /\ Mk(pc, t, p, e).prio = p
           /\ Mk(pc, t, p, e).ev = e
  BY DEF Mk

\* A frame without an event uses none.
LEMMA IdleFrame ==
    ASSUME NEW f, f.ev = NoEvent, f.pc \notin WaitPc \cup {"close", "free", "create"}
    PROVE  Fresh(f) /\ \A g : ~ Closer(g) => Less(g, f)
  <1>1. \A e \in Event : ~ Uses(f, e)
    BY ConstAssumption DEF Uses, WaitPc
  <1> QED BY <1>1 DEF Fresh, Less, Closer

\* A frame for an event that the caller may use.
LEMMA FreshFrame ==
    ASSUME NEW f, NEW e \in allocated, ~ Closing(e), f.ev = e,
           f.pc \notin WaitPc \cup {"close", "free", "create"}
    PROVE  Fresh(f)
  BY DEF Fresh, Uses, Closer, WaitPc

\* The running frame goes on with the event it has.
LEMMA MoveLess ==
    ASSUME NEW f \in Frame, NEW pc, NEW g, g = [f EXCEPT !.pc = pc],
           f.pc \notin {"close", "free", "create", "notify"}, pc \notin {"close", "free", "create"},
           pc \in WaitPc => f.pc \in WaitPc,
           pc \in {"signal", "list", "requeue", "consume", "test", "retest"}
               => f.pc \in {"signal", "list", "requeue", "consume", "test", "retest"}
    PROVE  Less(f, g)
  <1>1. g.pc = pc /\ g.ev = f.ev
    BY DEF Frame
  <1> QED BY <1>1 DEF Less, Uses, Closer, WaitPc

\* RestoreTPL's frame.
LEMMA RestoreIdle ==
    ASSUME NEW t
    PROVE  Fresh(RestoreFrame(t)) /\ \A g : ~ Closer(g) => Less(g, RestoreFrame(t))
  <1>1. RestoreFrame(t).ev = NoEvent /\ RestoreFrame(t).pc = "check"
    BY DEF RestoreFrame, Mk
  <1> QED BY <1>1, IdleFrame DEF WaitPc

\* Outside CloseEvent's locked section, lists lead to no event that is closed.
LEMMA LinkedNotClosing ==
    ASSUME EInv, stack # <<>> => top.pc # "close", NEW e \in Event, Linked(e)
    PROVE  ~ Closing(e) /\ e \in allocated
  <1>1. ASSUME NEW i \in 1..Len(stack), stack[i].pc = "close" PROVE FALSE
    <2>1. Len(stack) \in Nat
      BY DEF EInv, IInv, GlobalsType, StackType
    <2>2. i \in 1 .. Len(stack) - 1
      BY <1>1, <2>1 DEF top
    <2> QED BY <1>1, <2>2 DEF EInv, IInv, StackInv, Suspended, LockedPc
  <1>2. ~ Closing(e)
    BY <1>1 DEF EInv, ClosersInv, Closing, Closer
  <1> QED BY <1>2 DEF EInv, ListsInv

-----------------------------------------------------------------------------
(* The steps that leave the lists alone *)

\* RaiseTPL and RestoreTPL.
LEMMA LevelsE ==
    ASSUME EInv, IInv',
           \/ \E t \in RaiseLevels : RaiseTPL(t)
           \/ RestoreTPL \/ RestoreCheck \/ RestoreSelect \/ RestoreLower
    PROVE  EInv'
  <1>1. StackType
    BY DEF EInv, IInv, GlobalsType
  <1>2. ASSUME stack # <<>>, top.pc \notin {"close", "free"}, UNCHANGED lists,
               NEW f \in Frame, Become(f), f.ev = NoEvent,
               f.pc \notin WaitPc \cup {"close", "free", "create"}
        PROVE  EInv'
    <2>1. Less(top, f)
      BY <1>2, IdleFrame DEF Closer
    <2> QED BY <1>1, <1>2, <2>1, KeptBecome, QuietEvents
  <1>3. \A t \in Level : \A p \in Nat : \A pc \in Pc :
            Mk(pc, t, p, NoEvent) \in Frame /\ Mk(pc, t, p, NoEvent).ev = NoEvent
            /\ Mk(pc, t, p, NoEvent).pc = pc
    BY DEF Mk, Frame
  <1>4. stack # <<>> => top.tpl \in Level /\ top.prio \in Nat
    BY TopFrame DEF EInv, Frame
  <1>5. ASSUME NEW t \in RaiseLevels, RaiseTPL(t) PROVE EInv'
    <2> DEFINE f == Mk("raised", TPL, t, NoEvent)
    <2>1. f \in Frame /\ f.ev = NoEvent /\ f.pc = "raised"
      <3>1. TPL \in Level /\ t \in Nat /\ "raised" \in Pc
        BY LevelFacts DEF EInv, IInv, GlobalsType, Level, Pc
      <3> QED BY <1>3, <3>1
    <2>2. Push(f) /\ UNCHANGED lists
      BY <1>5 DEF RaiseTPL
    <2> HIDE DEF f
    <2>3. Fresh(f)
      BY <2>1, IdleFrame DEF WaitPc
    <2> QED BY <1>1, <2>1, <2>2, <2>3, KeptPush, QuietEvents
  <1>6. CASE RestoreTPL
    <2> DEFINE f == Mk("check", top.tpl, 0, NoEvent)
    <2>1. stack # <<>> /\ top.pc = "raised" /\ Become(f) /\ UNCHANGED lists
      BY <1>6 DEF RestoreTPL, At, RestoreFrame
    <2>2. f \in Frame /\ f.ev = NoEvent /\ f.pc = "check"
      BY <1>3, <1>4, <2>1 DEF Pc
    <2> HIDE DEF f
    <2> QED BY <1>2, <2>1, <2>2 DEF WaitPc
  <1>7. CASE RestoreCheck
    <2> DEFINE h == HighestSetBit(EventPending)
               f == Mk("select", top.tpl, h, NoEvent)
               g == Mk("lower", top.tpl, 0, NoEvent)
    <2>1. stack # <<>> /\ top.pc = "check" /\ (Become(f) \/ Become(g)) /\ UNCHANGED lists
      BY <1>7 DEF RestoreCheck, At
    <2>2. h \in Nat
      <3>1. EventPending \subseteq Level
        BY DEF EInv, IInv, GlobalsType, ListsType
      <3>2. h \in Level
        BY <3>1, HighestSetBitFacts
      <3> QED BY <3>2 DEF Level
    <2> HIDE DEF h
    <2>3. f \in Frame /\ f.ev = NoEvent /\ f.pc = "select" /\ g \in Frame /\ g.ev = NoEvent /\ g.pc = "lower"
      BY <1>3, <1>4, <2>1, <2>2 DEF Pc
    <2> HIDE DEF f, g
    <2> QED BY <1>2, <2>1, <2>3 DEF WaitPc
  <1>8. CASE RestoreSelect
    <2> DEFINE p == IF rereads THEN HighestSetBit(EventPending) ELSE top.prio
               f == Mk("dispatch", top.tpl, p, NoEvent)
    <2>2. stack # <<>> /\ top.pc = "select" /\ Become(f) /\ UNCHANGED lists
      BY <1>8 DEF RestoreSelect, At
    <2>3. p \in Nat
      <3>1. EventPending \subseteq Level
        BY DEF EInv, IInv, GlobalsType, ListsType
      <3>2. HighestSetBit(EventPending) \in Level
        BY <3>1, HighestSetBitFacts
      <3> QED BY <1>4, <2>2, <3>2 DEF Level
    <2> HIDE DEF p
    <2>4. f \in Frame /\ f.ev = NoEvent /\ f.pc = "dispatch"
      BY <1>3, <1>4, <2>2, <2>3 DEF Pc
    <2> HIDE DEF f
    <2> QED BY <1>2, <2>2, <2>4 DEF WaitPc
  <1>9. CASE RestoreLower
    <2>1. stack # <<>> /\ top.pc = "lower" /\ Pop /\ UNCHANGED lists
      BY <1>9 DEF RestoreLower, At
    <2>2. ~ Closer(top)
      BY <2>1 DEF Closer
    <2> QED BY <1>1, <2>1, <2>2, KeptPop, QuietEvents
  <1> QED BY <1>5, <1>6, <1>7, <1>8, <1>9

\* The running frame goes on with the event it has, or with none.
LEMMA MoveE ==
    ASSUME EInv, IInv', stack # <<>>, NEW pc \in Pc, Become([top EXCEPT !.pc = pc]),
           top.pc \notin {"close", "free", "create", "notify"}, pc \notin {"close", "free", "create"},
           pc \in WaitPc => top.pc \in WaitPc,
           pc \in {"signal", "list", "requeue", "consume", "test", "retest"}
               => top.pc \in {"signal", "list", "requeue", "consume", "test", "retest"}, UNCHANGED lists
    PROVE  EInv'
  <1> DEFINE f == [top EXCEPT !.pc = pc]
  <1>1. StackType /\ top \in Frame
    BY TopFrame DEF EInv, IInv, GlobalsType
  <1>2. f \in Frame
    BY <1>1 DEF Frame
  <1>3. Less(top, f)
    BY <1>1, MoveLess
  <1> HIDE DEF f
  <1>4. Become(f)
    BY DEF f
  <1> QED BY <1>1, <1>2, <1>3, <1>4, KeptBecome, QuietEvents

\* DispatchEventNotifies without its look at the queue.
LEMMA DispatcherE ==
    ASSUME EInv, IInv', DispatchAcquire \/ DispatchCall \/ NotifyReturn
    PROVE  EInv'
  <1>1. CASE DispatchAcquire
    <2>1. stack # <<>> /\ top.pc = "dispatch" /\ Become([top EXCEPT !.pc = "popping"]) /\ UNCHANGED lists
      BY <1>1 DEF DispatchAcquire, At
    <2> QED BY <2>1, MoveE DEF Pc, LockedPc, WaitPc
  <1>2. CASE DispatchCall
    <2>1. stack # <<>> /\ top.pc = "call" /\ Become([top EXCEPT !.pc = "notify"]) /\ UNCHANGED lists
      BY <1>2 DEF DispatchCall, At
    <2> QED BY <2>1, MoveE DEF Pc, LockedPc, WaitPc
  <1>3. CASE NotifyReturn
    <2> DEFINE f == Mk("dispatch", top.tpl, top.prio, NoEvent)
    <2>1. stack # <<>> /\ top.pc = "notify" /\ Become(f) /\ UNCHANGED lists
      BY <1>3 DEF NotifyReturn, At
    <2>2. StackType /\ top.tpl \in Level /\ top.prio \in Nat
      BY <2>1, TopFrame DEF EInv, IInv, GlobalsType, Frame
    <2>3. f \in Frame /\ f.ev = NoEvent /\ f.pc = "dispatch"
      BY <2>2 DEF Mk, Frame, Pc
    <2> HIDE DEF f
    <2>4. Less(top, f)
      BY <2>1, <2>3, IdleFrame DEF WaitPc, Closer
    <2> QED BY <2>1, <2>2, <2>3, <2>4, KeptBecome, QuietEvents
  <1> QED BY <1>1, <1>2, <1>3

\* The timer interrupt, which signals an event that nobody closes.
LEMMA TickE ==
    ASSUME EInv, IInv', NEW expired \in BOOLEAN, Tick(expired)
    PROVE  EInv'
  <1> DEFINE f == RestoreFrame(TPL)
             g == Mk("signal", TPL_HIGH_LEVEL, 0, EfiCheckTimerEvent)
  <1>1. StackType /\ TPL \in Level /\ UNCHANGED lists
    BY DEF EInv, IInv, GlobalsType, Tick
  <1>2. f \in Frame /\ Fresh(f)
    BY <1>1, RestoreFrameFacts, RestoreIdle
  <1>3. CASE ~ expired
    <2>1. Push(f)
      BY <1>3 DEF Tick, OldTpl
    <2> HIDE DEF f
    <2> QED BY <1>1, <1>2, <2>1, KeptPush, QuietEvents
  <1>4. CASE expired
    <2>1. stack' = Append(Append(stack, f), g)
      BY <1>4 DEF Tick, OldTpl
    <2>2. EfiCheckTimerEvent \in ValidEvent /\ EfiCheckTimerEvent \in Event \ Closable
      BY ConstAssumption, EventAssumption DEF ValidEvent
    <2>3. g \in Frame /\ g.ev = EfiCheckTimerEvent /\ g.pc = "signal"
      BY <2>2, LevelFacts DEF Mk, Frame, Pc, LockedPc
    <2>4. ~ Closing(EfiCheckTimerEvent)
      BY <2>2 DEF EInv, ClosersInv, Closing, Closer
    <2>5. EfiCheckTimerEvent \in allocated
      BY <2>2 DEF EInv, KeptInv
    <2>6. Fresh(g)
      BY <2>3, <2>4, <2>5, FreshFrame DEF WaitPc
    <2> HIDE DEF f, g
    <2>7. StackKept
      <3> DEFINE t == Append(stack, f)
      <3>1. /\ t \in Seq(Frame) /\ Len(t) = Len(stack) + 1 /\ Len(stack) \in Nat
            /\ \A i \in 1..Len(stack) : t[i] = stack[i]
            /\ t[Len(stack) + 1] = f
        BY <1>1, <1>2, AppendFacts DEF StackType
      <3> HIDE DEF t
      <3>2. /\ Len(stack') = Len(t) + 1
            /\ \A i \in 1..Len(t) : stack'[i] = t[i]
            /\ stack'[Len(t) + 1] = g
        BY <2>1, <2>3, <3>1, AppendFacts DEF t
      <3>3. /\ Len(stack') = Len(stack) + 2
            /\ \A i \in 1..Len(stack) : stack'[i] = stack[i]
            /\ stack'[Len(stack) + 1] = f /\ stack'[Len(stack) + 2] = g
        BY <3>1, <3>2
      <3> QED BY <1>2, <2>6, <3>1, <3>3 DEF StackKept
    <2> QED BY <1>1, <2>7, QuietEvents
  <1> QED BY <1>3, <1>4

\* CreateEvent, SignalEvent, CheckEvent, WaitForEvent and RtNotifySignalList begin.
LEMMA CallsE ==
    ASSUME EInv, IInv',
           \/ \E e \in Event : CreateEvent(e) \/ SignalEvent(e) \/ CheckEvent(e)
           \/ \E s \in Signals : RtNotifySignalList(s)
           \/ WaitForEvent
    PROVE  EInv'
  <1>1. StackType /\ TPL \in Level /\ allocated \subseteq ValidEvent
    BY DEF EInv, IInv, GlobalsType, ListsType
  <1>2. ASSUME NEW f \in Frame, Push(f), Fresh(f), UNCHANGED lists PROVE EInv'
    BY <1>1, <1>2, KeptPush, QuietEvents
  <1>3. ASSUME NEW e \in Event, CreateEvent(e) PROVE EInv'
    <2> DEFINE f == Mk("create", TPL, 0, e)
    <2>1. e \in ValidEvent /\ e \notin allocated /\ Push(f) /\ UNCHANGED lists
      BY <1>3 DEF CreateEvent, Enter, ValidEvent
    <2>2. f \in Frame /\ f.ev = e /\ f.pc = "create"
      BY <1>1, <2>1 DEF Mk, Frame, Pc, LockedPc
    <2> HIDE DEF f
    <2>3. Fresh(f)
      BY <2>1, <2>2 DEF Fresh, Uses, Closer
    <2> QED BY <1>2, <2>1, <2>2, <2>3
  <1>4. ASSUME NEW e \in Event, SignalEvent(e) PROVE EInv'
    <2> DEFINE f == Mk("signal", TPL, 0, e)
    <2>1. e \in allocated /\ ~ Closing(e) /\ Push(f) /\ UNCHANGED lists
      BY <1>4 DEF SignalEvent, MayUse, Enter
    <2>2. f \in Frame /\ f.ev = e /\ f.pc = "signal"
      BY <1>1, <2>1 DEF Mk, Frame, Pc, LockedPc
    <2> HIDE DEF f
    <2>3. Fresh(f)
      BY <2>1, <2>2, FreshFrame DEF WaitPc
    <2> QED BY <1>2, <2>1, <2>2, <2>3
  <1>5. ASSUME NEW e \in Event, CheckEvent(e) PROVE EInv'
    <2> DEFINE f == Mk("test", TPL, 0, e)
    <2>1. e \in allocated /\ ~ Closing(e) /\ Push(f) /\ UNCHANGED lists
      BY <1>5 DEF CheckEvent, MayUse
    <2>2. f \in Frame /\ f.ev = e /\ f.pc = "test"
      BY <1>1, <2>1 DEF Mk, Frame, Pc
    <2> HIDE DEF f
    <2>3. Fresh(f)
      BY <2>1, <2>2, FreshFrame DEF WaitPc
    <2> QED BY <1>2, <2>1, <2>2, <2>3
  <1>6. ASSUME NEW s \in Signals, RtNotifySignalList(s) PROVE EInv'
    <2> DEFINE q == EventSignalQueue[s]
               e == IF q = <<>> THEN NoEvent ELSE Head(q)
               f == Mk("list", TPL, s, e)
    <2>1. UserRunning /\ Push(f) /\ UNCHANGED lists
      BY <1>6 DEF RtNotifySignalList, MayCall
    <2>2. q \in Seq(ValidEvent) /\ s \in Nat
      BY DEF EInv, IInv, GlobalsType, ListsType, Signals, EVT_EFI_SIGNAL_MAX
    <2>3. e = NoEvent \/ (e \in ValidEvent /\ InList(q, e))
      <3>1. CASE q = <<>>
        BY <3>1
      <3>2. CASE q # <<>>
        <4>1. e = q[1] /\ 1 \in 1..Len(q) /\ q[1] \in ValidEvent
          BY <2>2, <3>2
        <4> QED BY <4>1 DEF InList
      <3> QED BY <3>1, <3>2
    <2> HIDE DEF e, q
    <2>4. f \in Frame /\ f.ev = e /\ f.pc = "list"
      BY <1>1, <2>2, <2>3 DEF Mk, Frame, Pc, LockedPc
    <2> HIDE DEF f
    <2>5. CASE e = NoEvent
      <3>1. Fresh(f)
        BY <2>4, <2>5, IdleFrame DEF WaitPc
      <3> QED BY <1>2, <2>1, <2>4, <3>1
    <2>6. CASE e # NoEvent
      <3>1. e \in Event /\ Linked(e)
        BY <2>3, <2>6 DEF ValidEvent, Linked, q
      <3>2. ~ Closing(e) /\ e \in allocated
        BY <2>1, <3>1, LinkedNotClosing DEF UserRunning
      <3>3. Fresh(f)
        BY <2>4, <3>2, FreshFrame DEF WaitPc
      <3> QED BY <1>2, <2>1, <2>4, <3>3
    <2> QED BY <2>5, <2>6
  <1>7. CASE WaitForEvent
    <2> DEFINE f == Mk("wait", TPL, 1, NoEvent)
    <2>1. (\A i \in 1..Len(WaitList) : MayUse(WaitList[i])) /\ Push(f) /\ UNCHANGED lists
      BY <1>7 DEF WaitForEvent
    <2>2. f \in Frame /\ f.ev = NoEvent /\ f.pc = "wait"
      BY <1>1 DEF Mk, Frame, Pc
    <2> HIDE DEF f
    <2>3. Fresh(f)
      BY <2>1, <2>2, ConstAssumption DEF Fresh, Uses, Closer, InList, MayUse
    <2> QED BY <1>2, <2>1, <2>2, <2>3
  <1> QED BY <1>3, <1>4, <1>5, <1>6, <1>7

\* Nobody closes what a frame uses.
LEMMA UsedNotClosing ==
    ASSUME EInv, NEW j \in 1..Len(stack), NEW e \in Event, Uses(stack[j], e), ~ Closer(stack[j])
    PROVE  e \in allocated /\ ~ Closing(e)
  <1>1. e \in allocated
    BY DEF EInv, UsersInv
  <1>2. ASSUME NEW i \in 1..Len(stack), Closer(stack[i]), stack[i].ev = e PROVE FALSE
    BY <1>2 DEF EInv, ClosersInv
  <1> QED BY <1>1, <1>2 DEF Closing, Closer

\* The same for the running frame.
LEMMA TopUses ==
    ASSUME EInv, stack # <<>>, NEW e \in Event, Uses(top, e), ~ Closer(top)
    PROVE  e \in allocated /\ ~ Closing(e)
  <1>1. Len(stack) \in 1..Len(stack)
    BY DEF EInv, IInv, GlobalsType, StackType
  <1> QED BY <1>1, UsedNotClosing DEF top

\* CheckEvent and WaitForEvent between their locked sections.
LEMMA ChecksE ==
    ASSUME EInv, IInv', CheckTest \/ CheckRetest \/ WaitPoll \/ WaitReturn
    PROVE  EInv'
  <1>1. StackType
    BY DEF EInv, IInv, GlobalsType
  <1>2. CASE CheckTest
    <2>1. /\ stack # <<>> /\ top.pc = "test" /\ UNCHANGED lists
          /\ Become([top EXCEPT !.pc = "requeue"]) \/ Become([top EXCEPT !.pc = "retest"])
      BY <1>2 DEF CheckTest, At
    <2>2. {"requeue", "retest"} \subseteq Pc
      BY DEF Pc, LockedPc
    <2>3. CASE Become([top EXCEPT !.pc = "requeue"])
      BY <2>1, <2>2, <2>3, MoveE DEF WaitPc
    <2>4. CASE Become([top EXCEPT !.pc = "retest"])
      BY <2>1, <2>2, <2>4, MoveE DEF WaitPc
    <2> QED BY <2>1, <2>3, <2>4
  <1>3. CASE CheckRetest
    <2>1. /\ stack # <<>> /\ top.pc = "retest" /\ UNCHANGED lists
          /\ Become([top EXCEPT !.pc = "consume"]) \/ stack' = Caller(FALSE)
      BY <1>3 DEF CheckRetest, At
    <2>2. CASE Become([top EXCEPT !.pc = "consume"])
      BY <2>1, <2>2, MoveE DEF WaitPc, Pc, LockedPc
    <2>3. CASE stack' = Caller(FALSE)
      <3>1. ~ Closer(top)
        BY <2>1 DEF Closer
      <3>2. StackKept
        BY <1>1, <2>1, <2>3, <3>1, KeptCaller
      <3> QED BY <2>1, <3>2, QuietEvents
    <2> QED BY <2>1, <2>2, <2>3
  <1>4. CASE WaitReturn
    <2>1. stack # <<>> /\ top.pc = "ready" /\ Pop /\ UNCHANGED lists
      BY <1>4 DEF WaitReturn, At
    <2>2. ~ Closer(top)
      BY <2>1 DEF Closer
    <2> QED BY <1>1, <2>1, <2>2, KeptPop, QuietEvents
  <1>5. CASE WaitPoll
    <2> DEFINE e == WaitList[top.prio]
               f == [top EXCEPT !.pc = "waiting"]
               g == Mk("test", top.tpl, 0, e)
    <2>1. /\ stack # <<>> /\ top.pc = "wait" /\ UNCHANGED lists
          /\ Pop \/ BecomeUnder(f, g)
      BY <1>5 DEF WaitPoll, At
    <2>2. ~ Closer(top) /\ top \in Frame /\ top.prio \in 1..Len(WaitList)
      BY <2>1, TopFrame DEF Closer, EInv, FrameOK
    <2>3. CASE Pop
      BY <1>1, <2>1, <2>2, <2>3, KeptPop, QuietEvents
    <2>4. CASE BecomeUnder(f, g)
      <3>1. e \in ValidEvent /\ e \in Event /\ InList(WaitList, e)
        BY <2>2, EventAssumption DEF ValidEvent, InList
      <3> HIDE DEF e
      <3>2. e \in allocated /\ ~ Closing(e)
        BY <2>1, <2>2, <3>1, TopUses DEF Uses
      <3>3. f \in Frame /\ Less(top, f)
        <4>1. f \in Frame /\ f.pc = "waiting" /\ f.ev = top.ev
          BY <2>2 DEF Frame, Pc
        <4>2. top.pc = "wait" /\ ~ Closer(top)
          BY <2>1, <2>2
        <4> HIDE DEF f
        <4> QED BY <4>1, <4>2 DEF Less, Uses, Closer
      <3>4. g \in Frame /\ g.ev = e /\ g.pc = "test"
        BY <2>2, <3>1 DEF Mk, Frame, Pc
      <3> HIDE DEF f, g
      <3>5. Fresh(g)
        BY <3>2, <3>4, FreshFrame DEF WaitPc
      <3>6. StackKept
        BY <1>1, <2>1, <2>4, <3>3, <3>4, <3>5, KeptBecomeUnder
      <3> QED BY <2>1, <3>6, QuietEvents
    <2> QED BY <2>1, <2>3, <2>4
  <1> QED BY <1>2, <1>3, <1>4, <1>5

-----------------------------------------------------------------------------
(* The steps that change the lists *)

\* A step that links and unlinks, and frees nothing.
LEMMA ListedEvents ==
    ASSUME EInv, IInv', StackKept, allocated' = allocated, ListsInv',
           \A e \in Event : Linked(e)' => Linked(e) \/ ~ Closing(e),
           SignalledIsQueued'
    PROVE  EInv'
  <1>1. \A i \in 1..Len(stack) : \A e \in Event : stack[i].pc = "free" /\ stack[i].ev = e => ~ Linked(e)'
    BY DEF EInv, ClosersInv, Closer, Closing
  <1>2. UsersInv' /\ ClosersInv'
    BY <1>1, FramesKept DEF EInv, IInv, GlobalsType
  <1>3. CreateInv'
    BY CreateKept DEF EInv
  <1> QED BY <1>2, <1>3 DEF EInv, KeptInv

\* NotifyEvent links a live event to the queue of its level, once.
LEMMA NotifyLists ==
    ASSUME EInv, NEW e \in allocated, NotifyEvent(e),
           UNCHANGED <<EventSignalQueue, RuntimeEventList, allocated>>
    PROVE  /\ ListsInv'
           /\ \A x \in Event : Linked(x)' => Linked(x) \/ x = e
           /\ \A x \in Event : \A p \in Level : InList(EventQueue[p], x) => InList(EventQueue'[p], x)
           /\ InList(EventQueue'[NotifyTpl(e)], e)
  <1> DEFINE n == NotifyTpl(e)
             r == RemoveEntryList(EventQueue[n], e)
             q == Append(r, e)
  <1>1. /\ e \in ValidEvent /\ e \in Event /\ n \in Level
        /\ EventQueue \in [Level -> Seq(ValidEvent)] /\ EventQueue[n] \in Seq(ValidEvent)
    BY NotifyTplFacts DEF EInv, IInv, GlobalsType, ListsType, ValidEvent
  <1>2. EventQueue' = [EventQueue EXCEPT ![n] = q]
    BY DEF NotifyEvent
  <1>3. Once(EventQueue[n])
    BY <1>1 DEF EInv, ListsInv
  <1>4. /\ r \in Seq(ValidEvent) /\ Once(r) /\ ~ InList(r, e)
        /\ \A x : x # e => (InList(r, x) <=> InList(EventQueue[n], x))
    BY <1>1, <1>3, RemoveFacts, RemoveOnce
  <1> HIDE DEF r
  <1>5. Once(q) /\ \A x : InList(q, x) <=> InList(r, x) \/ x = e
    BY <1>1, <1>4, AppendOnce
  <1>6. \A x : InList(q, x) <=> InList(EventQueue[n], x) \/ x = e
    BY <1>4, <1>5
  <1> HIDE DEF q
  <1>7. EventQueue'[n] = q /\ \A p \in Level : p # n => EventQueue'[p] = EventQueue[p]
    BY <1>1, <1>2
  <1>8. \A x : \A p \in Level : InList(EventQueue'[p], x) <=> InList(EventQueue[p], x) \/ (x = e /\ p = n)
    BY <1>6, <1>7
  <1>9. \A x \in Event : Linked(x)' => Linked(x) \/ x = e
    BY <1>8 DEF Linked
  <1>10. \A p \in Level : Once(EventQueue'[p])
    BY <1>5, <1>7 DEF EInv, ListsInv
  <1>11. \A p \in Level : \A x \in Event : InList(EventQueue'[p], x) => NotifyTpl(x) = p
    BY <1>8 DEF EInv, ListsInv
  <1>12. ListsInv'
    BY <1>9, <1>10, <1>11 DEF EInv, ListsInv
  <1>13. InList(EventQueue'[n], e)
    BY <1>1, <1>8
  <1> HIDE DEF n
  <1>14. InList(EventQueue'[NotifyTpl(e)], e)
    BY <1>13 DEF n
  <1> QED BY <1>8, <1>9, <1>12, <1>14

\* A body that ends in ReleaseLock leaves RestoreTPL's frame.
LEMMA ReleasedKept ==
    ASSUME EInv, stack # <<>>, top.pc \in LockedPc, ~ Closer(top), Become(Released)
    PROVE  StackKept
  <1>1. StackType /\ Released \in Frame
    BY ReleasedFacts DEF EInv, IInv, GlobalsType
  <1>2. Less(top, Released)
    BY RestoreIdle DEF Released
  <1> QED BY <1>1, <1>2, KeptBecome

\* SignalEvent.
LEMMA SignalBodyE ==
    ASSUME EInv, IInv', SignalBody
    PROVE  EInv'
  <1> DEFINE e == top.ev
  <1>1. stack # <<>> /\ top.pc = "signal" /\ Become(Released)
        /\ UNCHANGED <<EventSignalQueue, RuntimeEventList, allocated>>
    BY DEF SignalBody, At
  <1>2. e \in Event /\ ~ Closer(top) /\ Uses(top, e)
    BY <1>1, TopFrame DEF EInv, FrameOK, ValidEvent, Closer, Uses
  <1>3. e \in allocated /\ ~ Closing(e)
    BY <1>1, <1>2, TopUses
  <1>4. StackKept
    BY <1>1, <1>2, ReleasedKept DEF LockedPc
  <1>5. \A x : Closing(x)' <=> Closing(x)
    BY <1>4, ClosersKept
  <1>6. /\ \/ SignalCount' = [SignalCount EXCEPT ![e] = @ + 1]
           \/ SignalCount' = SignalCount
        /\ NotifyEvent(e) \/ UNCHANGED <<EventQueue, EventPending>>
        /\ Is(e, "NOTIFY_SIGNAL") /\ SignalCount' # SignalCount => NotifyEvent(e)
    BY DEF SignalBody
  <1>7. SignalCount \in [Event -> 0..1]
    BY DEF EInv, IInv, GlobalsType, ListsType
  <1> HIDE DEF e
  <1>8. \A x \in Event : x # e => SignalCount'[x] = SignalCount[x]
    BY <1>6, <1>7
  <1>9. CASE NotifyEvent(e)
    <2>1. /\ ListsInv'
          /\ \A x \in Event : Linked(x)' => Linked(x) \/ x = e
          /\ \A x \in Event : \A p \in Level : InList(EventQueue[p], x) => InList(EventQueue'[p], x)
          /\ InList(EventQueue'[NotifyTpl(e)], e)
      BY <1>1, <1>3, <1>9, NotifyLists
    <2>2. \A x \in allocated : x \in ValidEvent /\ x \in Event /\ NotifyTpl(x) \in Level
      BY NotifyTplFacts DEF EInv, IInv, GlobalsType, ListsType
    <2>3. SignalledIsQueued'
      BY <1>1, <1>5, <1>8, <2>1, <2>2 DEF EInv, SignalledIsQueued
    <2> QED BY <1>1, <1>3, <1>4, <2>1, <2>3, ListedEvents
  <1>10. CASE ~ NotifyEvent(e)
    <2>1. EventQueue' = EventQueue /\ (Is(e, "NOTIFY_SIGNAL") => SignalCount' = SignalCount)
      BY <1>6, <1>10
    <2>2. ListsInv' /\ \A x : Linked(x)' <=> Linked(x)
      BY <1>1, <2>1 DEF EInv, ListsInv, Linked
    <2>3. SignalledIsQueued'
      <3> SUFFICES ASSUME NEW x \in allocated, Is(x, "NOTIFY_SIGNAL"), SignalCount'[x] = 1, ~ Closing(x)
                   PROVE  InList(EventQueue[NotifyTpl(x)], x)
        BY <1>1, <1>5, <2>1 DEF SignalledIsQueued
      <3>1. x \in Event
        BY DEF EInv, IInv, GlobalsType, ListsType, ValidEvent
      <3>2. SignalCount[x] = 1
        BY <1>8, <2>1, <3>1
      <3> QED BY <3>2 DEF EInv, SignalledIsQueued
    <2> QED BY <1>1, <1>4, <2>2, <2>3, ListedEvents
  <1> QED BY <1>9, <1>10

\* The queues only grow, and no signal count changes.
LEMMA NotifiedStep ==
    ASSUME EInv, IInv', StackKept, NEW e \in allocated, ~ Closing(e), NotifyEvent(e),
           UNCHANGED <<EventSignalQueue, RuntimeEventList, SignalCount, allocated>>
    PROVE  EInv'
  <1>1. /\ ListsInv'
        /\ \A x \in Event : Linked(x)' => Linked(x) \/ x = e
        /\ \A x \in Event : \A p \in Level : InList(EventQueue[p], x) => InList(EventQueue'[p], x)
    BY NotifyLists
  <1>2. \A x \in allocated : x \in ValidEvent /\ x \in Event /\ NotifyTpl(x) \in Level
    BY NotifyTplFacts DEF EInv, IInv, GlobalsType, ListsType
  <1>3. SignalledIsQueued'
    BY <1>1, <1>2, ClosersKept DEF EInv, SignalledIsQueued
  <1> QED BY <1>1, <1>3, ListedEvents

\* RtNotifySignalList takes one entry of its list.
LEMMA ListStepE ==
    ASSUME EInv, IInv', ListStep
    PROVE  EInv'
  <1> DEFINE e == top.ev
             q == EventSignalQueue[top.prio]
             f == [top EXCEPT !.ev = Succ(q, e)]
  <1>1. stack # <<>> /\ top.pc = "list" /\ ~ Closer(top)
        /\ UNCHANGED <<EventSignalQueue, RuntimeEventList, SignalCount, allocated>>
    BY DEF ListStep, At, Closer
  <1>2. CASE e # NoEvent
    <2>1. NotifyEvent(e) /\ Become(f)
      BY <1>2 DEF ListStep
    <2>2. /\ top \in Frame /\ e \in ValidEvent /\ e \in Event /\ InList(q, e)
          /\ q \in Seq(ValidEvent) /\ top.prio \in Signals
      BY <1>1, <1>2, TopFrame
         DEF EInv, Frame, FrameOK, TopOK, ValidEvent, IInv, GlobalsType, ListsType, Signals
    <2>3. e \in allocated /\ ~ Closing(e)
      BY <1>1, <2>2, LinkedNotClosing DEF Linked
    <2> DEFINE s == Succ(q, e)
    <2>4. s = NoEvent \/ (s \in ValidEvent /\ InList(q, s))
      BY <2>2, SuccFacts
    <2> HIDE DEF s
    <2>5. f \in Frame /\ f.ev = s /\ f.pc = "list"
      BY <1>1, <2>2, <2>4 DEF Frame, s
    <2> HIDE DEF f
    <2>6. s # NoEvent => s \in allocated /\ ~ Closing(s)
      BY <1>1, <2>2, <2>4, LinkedNotClosing DEF Linked, ValidEvent
    <2>7. Fresh(f)
      BY <2>5, <2>6, FreshFrame, IdleFrame DEF WaitPc
    <2>8. StackKept
      <3>1. /\ Len(stack') = Len(stack) /\ Len(stack) \in Nat \ {0}
            /\ \A i \in 1..(Len(stack) - 1) : stack'[i] = stack[i]
            /\ stack'[Len(stack)] = f
        BY <1>1, <2>1, <2>5, TopFacts DEF Become, EInv, IInv, GlobalsType, StackType
      <3> QED BY <1>1, <2>7, <3>1 DEF StackKept, top
    <2> QED BY <1>1, <2>1, <2>3, <2>8, NotifiedStep
  <1>3. CASE e = NoEvent
    <2>1. Become(Released) /\ UNCHANGED lists
      BY <1>1, <1>3 DEF ListStep, lists
    <2> QED BY <1>1, <2>1, ReleasedKept, QuietEvents DEF LockedPc
  <1> QED BY <1>2, <1>3

\* CheckEvent queues the wait notification.
LEMMA CheckRequeueE ==
    ASSUME EInv, IInv', CheckRequeue
    PROVE  EInv'
  <1> DEFINE e == top.ev
             f == [top EXCEPT !.pc = "retest"]
  <1>1. /\ stack # <<>> /\ top.pc = "requeue" /\ ~ Closer(top) /\ BecomeUnder(f, Released)
        /\ UNCHANGED <<EventSignalQueue, RuntimeEventList, SignalCount, allocated>>
        /\ NotifyEvent(e) \/ UNCHANGED <<EventQueue, EventPending>>
    BY DEF CheckRequeue, At, Closer
  <1>2. e \in Event /\ Uses(top, e) /\ top \in Frame
    BY <1>1, TopFrame DEF EInv, FrameOK, ValidEvent, Uses
  <1>3. e \in allocated /\ ~ Closing(e)
    BY <1>1, <1>2, TopUses
  <1>4. f \in Frame /\ Less(top, f)
    <2>1. f \in Frame
      BY <1>2 DEF Frame, Pc
    <2>2. f.pc = "retest" /\ f.ev = top.ev
      BY <1>2 DEF Frame
    <2> HIDE DEF f
    <2>3. Less(top, f)
      BY <1>1, <2>2 DEF Less, Uses, Closer
    <2> QED BY <2>1, <2>3
  <1>5. Released \in Frame /\ Fresh(Released) /\ StackType
    BY <1>1, ReleasedFacts, RestoreIdle DEF LockedPc, EInv, IInv, GlobalsType, Released
  <1> HIDE DEF f
  <1>6. StackKept
    BY <1>1, <1>4, <1>5, KeptBecomeUnder
  <1>7. CASE NotifyEvent(e)
    BY <1>1, <1>3, <1>6, <1>7, NotifiedStep
  <1>8. CASE UNCHANGED <<EventQueue, EventPending>>
    <2>1. UNCHANGED lists
      BY <1>1, <1>8 DEF lists
    <2> QED BY <1>6, <2>1, QuietEvents
  <1> QED BY <1>1, <1>7, <1>8

\* DispatchEventNotifies takes the head of its queue.
LEMMA DispatchPopE ==
    ASSUME EInv, IInv', DispatchPop
    PROVE  EInv'
  <1> DEFINE n == top.prio
             q == EventQueue[n]
             h == Head(q)
             f == Mk("call", top.tpl, n, h)
             g == RestoreFrame(top.tpl)
  <1>1. /\ stack # <<>> /\ top.pc = "popping" /\ ~ Closer(top)
        /\ UNCHANGED <<EventSignalQueue, RuntimeEventList, allocated>>
    BY DEF DispatchPop, At, Closer
  <1>2. /\ top \in Frame /\ top.tpl \in Level /\ n \in Level /\ n \in Nat /\ StackType
        /\ EventQueue \in [Level -> Seq(ValidEvent)] /\ q \in Seq(ValidEvent)
        /\ SignalCount \in [Event -> 0..1]
    BY <1>1, TopFrame DEF EInv, Frame, FrameOK, IInv, GlobalsType, ListsType, Level
  <1>3. Released \in Frame /\ Fresh(Released)
    BY <1>1, ReleasedFacts, RestoreIdle DEF LockedPc, EInv, Released
  <1>4. CASE q # <<>>
    <2> DEFINE r == RemoveEntryList(q, h)
    <2>1. /\ EventQueue' = [EventQueue EXCEPT ![n] = r]
          /\ SignalCount' = [SignalCount EXCEPT ![h] = 0]
          /\ BecomeUnder(f, Released)
      BY <1>4 DEF DispatchPop, ClearSignal
    <2>2. h \in ValidEvent /\ h \in Event /\ InList(q, h)
      <3>1. h = q[1] /\ 1 \in 1..Len(q) /\ q[1] \in ValidEvent
        BY <1>2, <1>4
      <3> QED BY <3>1 DEF InList, ValidEvent
    <2> HIDE DEF h
    <2>3. h \in allocated /\ ~ Closing(h)
      BY <1>1, <1>2, <2>2, LinkedNotClosing DEF Linked
    <2>4. f \in Frame /\ f.ev = h /\ f.pc = "call"
      BY <1>2, <2>2 DEF Mk, Frame, Pc
    <2> HIDE DEF f
    <2>5. Fresh(f)
      BY <2>3, <2>4, FreshFrame DEF WaitPc
    <2>6. StackKept
      BY <1>1, <1>2, <1>3, <2>1, <2>4, <2>5, KeptBecomeUnder
    <2>7. Once(q)
      BY <1>2 DEF EInv, ListsInv
    <2>8. Once(r) /\ ~ InList(r, h) /\ \A x : x # h => (InList(r, x) <=> InList(q, x))
      BY <1>2, <2>7, RemoveFacts, RemoveOnce
    <2> HIDE DEF r
    <2>9. EventQueue'[n] = r /\ \A p \in Level : p # n => EventQueue'[p] = EventQueue[p]
      BY <1>2, <2>1
    <2>10. \A x : \A p \in Level :
              /\ InList(EventQueue'[p], x) => InList(EventQueue[p], x)
              /\ x # h => (InList(EventQueue'[p], x) <=> InList(EventQueue[p], x))
      BY <2>2, <2>8, <2>9
    <2>11. \A x \in Event : Linked(x)' => Linked(x)
      BY <1>1, <2>10 DEF Linked
    <2>12. \A p \in Level : Once(EventQueue'[p])
      BY <2>8, <2>9 DEF EInv, ListsInv
    <2>13. ListsInv'
      BY <1>1, <2>10, <2>11, <2>12 DEF EInv, ListsInv
    <2>14. SignalledIsQueued'
      <3> SUFFICES ASSUME NEW x \in allocated, Is(x, "NOTIFY_SIGNAL"), SignalCount'[x] = 1, ~ Closing(x)
                   PROVE  InList(EventQueue'[NotifyTpl(x)], x)
        BY <1>1, <2>6, ClosersKept DEF SignalledIsQueued
      <3>1. x \in ValidEvent /\ x \in Event /\ NotifyTpl(x) \in Level
        BY NotifyTplFacts DEF EInv, IInv, GlobalsType, ListsType
      <3>2. x # h
        BY <1>2, <2>1, <2>2
      <3>3. SignalCount[x] = 1
        BY <1>2, <2>1, <3>1, <3>2
      <3>4. InList(EventQueue[NotifyTpl(x)], x)
        BY <3>3 DEF EInv, SignalledIsQueued
      <3> QED BY <2>10, <3>1, <3>2, <3>4
    <2> QED BY <1>1, <2>6, <2>11, <2>13, <2>14, ListedEvents
  <1>5. CASE q = <<>>
    <2>1. BecomeUnder(g, Released) /\ UNCHANGED <<EventQueue, SignalCount>>
      BY <1>5 DEF DispatchPop
    <2>2. g \in Frame /\ Less(top, g)
      BY <1>1, <1>2, RestoreFrameFacts, RestoreIdle
    <2> HIDE DEF g
    <2>3. StackKept
      BY <1>1, <1>2, <1>3, <2>1, <2>2, KeptBecomeUnder
    <2>4. ListsInv' /\ \A x : Linked(x)' <=> Linked(x)
      BY <1>1, <2>1 DEF EInv, ListsInv, Linked
    <2>5. SignalledIsQueued'
      BY <1>1, <2>1, <2>3, ClosersKept DEF EInv, SignalledIsQueued
    <2> QED BY <1>1, <2>3, <2>4, <2>5, ListedEvents
  <1> QED BY <1>4, <1>5

\* CheckEvent consumes the signal.
LEMMA CheckConsumeE ==
    ASSUME EInv, IInv', CheckConsume
    PROVE  EInv'
  <1> DEFINE e == top.ev
             ready == SignalCount[e] > 0
  <1>1. /\ stack # <<>> /\ top.pc = "consume" /\ ~ Closer(top)
        /\ SignalCount' = [SignalCount EXCEPT ![e] = 0]
        /\ stack' = Append(Caller(ready), Released)
        /\ UNCHANGED <<EventQueue, EventSignalQueue, RuntimeEventList, allocated>>
    BY DEF CheckConsume, At, Closer, ClearSignal
  <1>2. StackType /\ StackType' /\ StackInv /\ SignalCount \in [Event -> 0..1]
    BY DEF EInv, IInv, GlobalsType, ListsType
  <1>3. Released \in Frame /\ Fresh(Released)
    BY <1>1, ReleasedFacts, RestoreIdle DEF LockedPc, EInv, Released
  <1>4. ready \in BOOLEAN
    OBVIOUS
  <1> HIDE DEF ready
  <1>5. Caller(ready) \in Seq(Frame)
    BY <1>1, <1>2, <1>4, CallerFacts DEF RestorePc
  <1>6. StackKept
    BY <1>1, <1>2, <1>3, <1>4, <1>5, KeptConsume
  <1>7. ListsInv' /\ \A x : Linked(x)' <=> Linked(x)
    BY <1>1 DEF EInv, ListsInv, Linked
  <1>8. SignalledIsQueued'
    <2> SUFFICES ASSUME NEW x \in allocated, Is(x, "NOTIFY_SIGNAL"), SignalCount'[x] = 1, ~ Closing(x)
                 PROVE  InList(EventQueue[NotifyTpl(x)], x)
      BY <1>1, <1>6, ClosersKept DEF SignalledIsQueued
    <2>1. x \in Event
      BY DEF EInv, IInv, GlobalsType, ListsType, ValidEvent
    <2>2. SignalCount[x] = 1
      BY <1>1, <1>2, <2>1
    <2> QED BY <2>2 DEF EInv, SignalledIsQueued
  <1> QED BY <1>1, <1>6, <1>7, <1>8, ListedEvents

\* Suspended code holds no lock.
LEMMA SuspendedUnlocked ==
    ASSUME IInv, NEW i \in 1..Len(stack), stack[i].pc \in LockedPc
    PROVE  i = Len(stack)
  <1>1. Len(stack) \in Nat
    BY DEF IInv, GlobalsType, StackType
  <1>2. i \in 1 .. Len(stack) - 1 \/ i = Len(stack)
    BY <1>1
  <1> QED BY <1>2 DEF IInv, StackInv, Suspended

\* CreateEvent links the event it allocated.
LEMMA CreateBodyE ==
    ASSUME EInv, IInv', CreateBody
    PROVE  EInv'
  <1> DEFINE e == top.ev
             s == Args[e].sig - 1
  <1>1. /\ stack # <<>> /\ top.pc = "create" /\ ~ Closer(top) /\ Become(Released)
        /\ allocated' = allocated \cup {e}
        /\ SignalCount' = [SignalCount EXCEPT ![e] = 0]
        /\ RuntimeEventList' = RuntimeEventList \cup {e} \/ UNCHANGED RuntimeEventList
        /\ \/ /\ s \in DOMAIN EventSignalQueue
              /\ EventSignalQueue' = [EventSignalQueue EXCEPT ![s] = <<e>> \o @]
           \/ UNCHANGED EventSignalQueue
        /\ UNCHANGED EventQueue
    BY DEF CreateBody, At, Closer
  <1>2. /\ e \in ValidEvent /\ e \in Event /\ Len(stack) \in Nat \ {0}
        /\ EventSignalQueue \in [Signals -> Seq(ValidEvent)] /\ SignalCount \in [Event -> 0..1]
        /\ StackType
    <2>1. e \in ValidEvent /\ e \in Event
      BY <1>1, TopFrame DEF EInv, FrameOK, ValidEvent
    <2>2. /\ EventSignalQueue \in [Signals -> Seq(ValidEvent)] /\ SignalCount \in [Event -> 0..1]
          /\ StackType
      BY DEF EInv, IInv, GlobalsType, ListsType, Signals
    <2>3. Len(stack) \in Nat \ {0}
      BY <1>1, <2>2 DEF StackType
    <2> QED BY <2>1, <2>2, <2>3
  <1>3. e \notin allocated
    <2>1. Len(stack) \in 1..Len(stack)
      BY <1>2
    <2>2. \A i \in 1..Len(stack) : stack[i].pc = "create" => stack[i].ev \notin allocated
      BY DEF EInv, CreateInv
    <2> QED BY <1>1, <2>1, <2>2 DEF top
  <1> HIDE DEF e
  <1>4. ~ Linked(e)
    BY <1>2, <1>3 DEF EInv, ListsInv
  <1>5. StackKept
    BY <1>1, ReleasedKept DEF LockedPc
  <1>6. /\ \A t \in Signals : Once(EventSignalQueue'[t])
        /\ \A t \in Signals : \A x : InList(EventSignalQueue'[t], x) => InList(EventSignalQueue[t], x) \/ x = e
    <2>1. CASE UNCHANGED EventSignalQueue
      BY <2>1 DEF EInv, ListsInv
    <2>2. CASE s \in DOMAIN EventSignalQueue /\ EventSignalQueue' = [EventSignalQueue EXCEPT ![s] = <<e>> \o @]
      <3>1. s \in Signals
        BY <1>2, <2>2
      <3> HIDE DEF s
      <3>2. /\ EventSignalQueue'[s] = <<e>> \o EventSignalQueue[s]
            /\ \A t \in Signals : t # s => EventSignalQueue'[t] = EventSignalQueue[t]
        BY <1>2, <2>2, <3>1
      <3>3. EventSignalQueue[s] \in Seq(ValidEvent) /\ Once(EventSignalQueue[s]) /\ ~ InList(EventSignalQueue[s], e)
        BY <1>2, <1>4, <3>1 DEF EInv, ListsInv, Linked
      <3> DEFINE q == <<e>> \o EventSignalQueue[s]
      <3>4. Once(q) /\ \A x : InList(q, x) <=> InList(EventSignalQueue[s], x) \/ x = e
        BY <1>2, <3>3, InsertOnce
      <3> HIDE DEF q
      <3>5. EventSignalQueue'[s] = q
        BY <3>2 DEF q
      <3> QED BY <3>2, <3>4, <3>5 DEF EInv, ListsInv
    <2> QED BY <1>1, <2>1, <2>2
  <1> HIDE DEF s
  <1>7. \A x \in Event : Linked(x)' => Linked(x) \/ x = e
    BY <1>1, <1>6 DEF Linked
  <1>8. ListsInv'
    BY <1>1, <1>6, <1>7 DEF EInv, ListsInv
  <1>9. \A i \in 1..Len(stack) : \A x \in Event : stack[i].pc = "free" /\ stack[i].ev = x => ~ Linked(x)'
    <2> SUFFICES ASSUME NEW i \in 1..Len(stack), NEW x \in Event, stack[i].pc = "free", stack[i].ev = x
                 PROVE  ~ Linked(x)'
      OBVIOUS
    <2>1. x \in allocated
      BY DEF EInv, UsersInv, Uses
    <2>2. ~ Linked(x)
      BY DEF EInv, ClosersInv, Closer
    <2> QED BY <1>3, <1>7, <2>1, <2>2
  <1>10. UsersInv' /\ ClosersInv'
    BY <1>1, <1>2, <1>5, <1>9, FramesKept DEF EInv
  <1>11. CreateInv'
    <2>1. /\ Len(stack') = Len(stack)
          /\ \A i \in 1..(Len(stack) - 1) : stack'[i] = stack[i]
          /\ stack'[Len(stack)] = Released /\ Released.pc = "check"
      <3>1. Released \in Frame /\ Released.pc = "check"
        BY <1>1, ReleasedFacts DEF EInv, LockedPc
      <3> HIDE DEF Released
      <3> QED BY <1>1, <1>2, <3>1, TopFacts DEF Become, StackType
    <2>2. \A i \in 1..Len(stack) : stack[i].pc = "create" => i = Len(stack)
      BY SuspendedUnlocked DEF EInv, LockedPc
    <2>3. \A i \in 1..Len(stack') : i \in 1..(Len(stack) - 1) \/ i = Len(stack)
      BY <1>2, <2>1
    <2>4. \A i \in 1..(Len(stack) - 1) : i \in 1..Len(stack) /\ i # Len(stack)
      BY <1>2
    <2>5. \A i \in 1..Len(stack') : stack'[i].pc # "create"
      BY <2>1, <2>2, <2>3, <2>4
    <2> QED BY <2>5 DEF CreateInv
  <1>12. SignalledIsQueued'
    <2> SUFFICES ASSUME NEW x \in allocated \cup {e}, Is(x, "NOTIFY_SIGNAL"), SignalCount'[x] = 1, ~ Closing(x)
                 PROVE  InList(EventQueue[NotifyTpl(x)], x)
      BY <1>1, <1>5, ClosersKept DEF SignalledIsQueued
    <2>1. x \in Event
      BY <1>2 DEF EInv, IInv, GlobalsType, ListsType, ValidEvent
    <2>2. x # e
      BY <1>1, <1>2
    <2>3. SignalCount[x] = 1
      BY <1>1, <1>2, <2>1, <2>2
    <2> QED BY <2>2, <2>3 DEF EInv, SignalledIsQueued
  <1> QED BY <1>1, <1>8, <1>10, <1>11, <1>12 DEF EInv, KeptInv

\* CloseEvent begins when no other service works on the event.
LEMMA CloseEventE ==
    ASSUME EInv, IInv', NEW e \in Event, CloseEvent(e)
    PROVE  EInv'
  <1> DEFINE f == Mk("close", TPL, 0, e)
             n == Len(stack)
  <1>1. e \in Closable /\ e \in allocated /\ ~ Closing(e) /\ ~ Checking(e) /\ Push(f) /\ UNCHANGED lists
    BY DEF CloseEvent, MayClose, MayUse, Enter
  <1>2. f \in Frame /\ f.ev = e /\ f.pc = "close"
    BY <1>1 DEF Mk, Frame, Pc, LockedPc, EInv, IInv, GlobalsType, ListsType
  <1> HIDE DEF f
  <1>3. /\ Len(stack') = n + 1 /\ n \in Nat
        /\ \A i \in 1..n : stack'[i] = stack[i]
        /\ stack'[n + 1] = f
    BY <1>1, <1>2, AppendFacts DEF Push, EInv, IInv, GlobalsType, StackType
  <1>4. /\ allocated' = allocated /\ EventQueue' = EventQueue /\ EventSignalQueue' = EventSignalQueue
        /\ RuntimeEventList' = RuntimeEventList /\ SignalCount' = SignalCount
    BY <1>1 DEF lists
  <1>5. ListsInv' /\ \A x : Linked(x)' <=> Linked(x)
    BY <1>4 DEF EInv, ListsInv, Linked
  <1>6. \A i \in 1..Len(stack') : i \in 1..n \/ i = n + 1
    BY <1>3
  <1>7. \A x \in Event : Uses(f, x) => x = e
    BY <1>2 DEF Uses
  <1>8. UsersInv'
    BY <1>1, <1>3, <1>4, <1>6, <1>7 DEF EInv, UsersInv
  <1>9. \A i \in 1..n : ~ Uses(stack[i], e)
    <2> SUFFICES ASSUME NEW i \in 1..n, Uses(stack[i], e) PROVE FALSE
      OBVIOUS
    <2>1. stack[i].pc \notin {"close", "free"} \/ stack[i].ev # e
      BY <1>1 DEF Closing
    <2>2. stack[i].pc \in LockedPc
      BY <1>1, <2>1 DEF Checking, Uses, LockedPc
    <2>3. i = n
      BY <1>3, <2>2 DEF EInv, IInv, StackInv, Suspended
    <2> QED BY <1>1, <2>2, <2>3 DEF top, CloseEvent, MayClose, MayUse, MayCall, UserRunning, LockedPc
  <1>10. ClosersInv'
    <2> SUFFICES ASSUME NEW i \in 1..Len(stack'), NEW x \in Event, Closer(stack'[i]), stack'[i].ev = x
                 PROVE  /\ x \in Closable
                        /\ \A j \in 1..Len(stack') : j # i => ~ Uses(stack'[j], x)
                        /\ stack'[i].pc = "free" => ~ Linked(x)'
      BY DEF ClosersInv
    <2>1. CASE i = n + 1
      <3>1. x = e
        BY <1>2, <1>3, <2>1
      <3> QED BY <1>1, <1>2, <1>3, <1>6, <1>9, <2>1, <3>1
    <2>2. CASE i \in 1..n
      <3>1. Closer(stack[i]) /\ stack[i].ev = x /\ stack'[i] = stack[i]
        BY <1>3, <2>2
      <3>2. x # e
        BY <1>1, <2>2, <3>1 DEF Closing, Closer
      <3>3. /\ x \in Closable
            /\ \A j \in 1..n : j # i => ~ Uses(stack[j], x)
            /\ stack[i].pc = "free" => ~ Linked(x)
        BY <2>2, <3>1 DEF EInv, ClosersInv
      <3> QED BY <1>3, <1>5, <1>6, <1>7, <3>1, <3>2, <3>3
    <2> QED BY <1>6, <2>1, <2>2
  <1>11. CreateInv'
    BY <1>2, <1>3, <1>4, <1>6 DEF EInv, CreateInv
  <1>12. \A x : Closing(x) => Closing(x)'
    <2>1. \A i \in 1..n : i \in 1..Len(stack')
      BY <1>3
    <2> QED BY <1>3, <2>1 DEF Closing
  <1>13. SignalledIsQueued'
    BY <1>4, <1>12 DEF EInv, SignalledIsQueued
  <1> QED BY <1>4, <1>5, <1>8, <1>10, <1>11, <1>13 DEF EInv, KeptInv

\* CloseEvent unlinks the event from every list.
LEMMA CloseBodyE ==
    ASSUME EInv, IInv', CloseBody
    PROVE  EInv'
  <1> DEFINE e == top.ev
             n == Len(stack)
             f == Mk("free", top.tpl, 0, e)
  <1>1. /\ stack # <<>> /\ top.pc = "close" /\ BecomeUnder(f, Released)
        /\ EventQueue' = [p \in Level |-> RemoveEntryList(EventQueue[p], e)]
        /\ EventSignalQueue' =
              [s \in DOMAIN EventSignalQueue |-> RemoveEntryList(EventSignalQueue[s], e)]
        /\ RuntimeEventList' = RuntimeEventList \ {e}
        /\ UNCHANGED <<SignalCount, allocated>>
    BY DEF CloseBody, UnlinkNotify, UnlinkSignal, At
  <1>2. /\ e \in ValidEvent /\ e \in Event /\ top.tpl \in Level /\ StackType
        /\ EventQueue \in [Level -> Seq(ValidEvent)]
        /\ EventSignalQueue \in [Signals -> Seq(ValidEvent)]
    <2>1. e \in ValidEvent /\ e \in Event /\ top.tpl \in Level
      BY <1>1, TopFrame DEF EInv, Frame, FrameOK, ValidEvent
    <2>2. /\ EventSignalQueue \in [Signals -> Seq(ValidEvent)] /\ StackType
          /\ EventQueue \in [Level -> Seq(ValidEvent)]
      BY DEF EInv, IInv, GlobalsType, ListsType, Signals
    <2> QED BY <2>1, <2>2
  <1>3. f \in Frame /\ f.ev = e /\ f.pc = "free"
    BY <1>2 DEF Mk, Frame, Pc
  <1>4. Released \in Frame /\ Released.pc = "check" /\ \A x \in Event : ~ Uses(Released, x)
    <2>1. Released \in Frame /\ Released.pc = "check"
      BY <1>1, ReleasedFacts DEF LockedPc, EInv
    <2>2. Released.ev = NoEvent
      BY DEF Released, RestoreFrame, Mk
    <2> QED BY <2>1, <2>2, ConstAssumption DEF Uses
  <1> DEFINE g == Released
  <1> HIDE DEF f, g, Released
  <1>5. /\ Len(stack') = n + 1 /\ n \in Nat \ {0}
        /\ \A i \in 1..(n - 1) : stack'[i] = stack[i]
        /\ stack'[n] = f /\ stack'[n + 1] = Released
    <2> DEFINE t == [stack EXCEPT ![n] = f]
    <2>1. /\ Len(t) = n /\ n \in Nat \ {0} /\ t \in Seq(Frame)
          /\ \A i \in 1..(n - 1) : t[i] = stack[i]
          /\ t[n] = f
      BY <1>1, <1>2, <1>3, TopFacts DEF StackType
    <2>2. stack' = Append(t, Released)
      BY <1>1 DEF BecomeUnder
    <2> HIDE DEF t
    <2>3. /\ Len(stack') = Len(t) + 1
          /\ \A i \in 1..Len(t) : stack'[i] = t[i]
          /\ stack'[Len(t) + 1] = Released
      BY <1>4, <2>1, <2>2, AppendFacts
    <2> QED BY <2>1, <2>3
  <1>6. stack[n].pc = "close" /\ stack[n].ev = e
    BY <1>1 DEF top
  <1> HIDE DEF e, n
  <1>7. /\ \A i \in 1..Len(stack') : i \in 1..(n - 1) \/ i = n \/ i = n + 1
        /\ \A i \in 1..(n - 1) : i \in 1..n /\ i # n
        /\ \A i \in 1..n : i \in 1..(n - 1) \/ i = n
        /\ n \in 1..n /\ n \in 1..Len(stack') /\ \A i \in 1..n : i \in 1..Len(stack')
        /\ n = Len(stack)
    BY <1>5 DEF n
  <1>8. \A i \in 1..(n - 1) : ~ Uses(stack[i], e)
    BY <1>2, <1>6, <1>7 DEF EInv, ClosersInv, Closer
  <1>9. \A p \in Level : /\ Once(EventQueue'[p]) /\ ~ InList(EventQueue'[p], e)
                         /\ \A x : x # e => (InList(EventQueue'[p], x) <=> InList(EventQueue[p], x))
    <2> SUFFICES ASSUME NEW p \in Level
                 PROVE  /\ Once(EventQueue'[p]) /\ ~ InList(EventQueue'[p], e)
                        /\ \A x : x # e => (InList(EventQueue'[p], x) <=> InList(EventQueue[p], x))
      OBVIOUS
    <2>1. EventQueue'[p] = RemoveEntryList(EventQueue[p], e) /\ EventQueue[p] \in Seq(ValidEvent)
      BY <1>1, <1>2 DEF e
    <2>2. Once(EventQueue[p])
      BY DEF EInv, ListsInv
    <2> QED BY <2>1, <2>2, RemoveFacts, RemoveOnce
  <1>10. \A s \in Signals : /\ Once(EventSignalQueue'[s]) /\ ~ InList(EventSignalQueue'[s], e)
                            /\ \A x : x # e => (InList(EventSignalQueue'[s], x) <=> InList(EventSignalQueue[s], x))
    <2> SUFFICES ASSUME NEW s \in Signals
                 PROVE  /\ Once(EventSignalQueue'[s]) /\ ~ InList(EventSignalQueue'[s], e)
                        /\ \A x : x # e => (InList(EventSignalQueue'[s], x) <=> InList(EventSignalQueue[s], x))
      OBVIOUS
    <2>1. EventSignalQueue'[s] = RemoveEntryList(EventSignalQueue[s], e) /\ EventSignalQueue[s] \in Seq(ValidEvent)
      BY <1>1, <1>2 DEF e
    <2>2. Once(EventSignalQueue[s])
      BY DEF EInv, ListsInv
    <2> QED BY <2>1, <2>2, RemoveFacts, RemoveOnce
  <1>11. e \notin RuntimeEventList' /\ RuntimeEventList' \subseteq RuntimeEventList
    BY <1>1 DEF e
  <1>12. \A x \in Event : Linked(x)' => Linked(x) /\ x # e
    <2>1. \A x \in Event : x = e => ~ Linked(x)'
      BY <1>9, <1>10, <1>11 DEF Linked
    <2>2. \A x \in Event : x # e /\ Linked(x)' => Linked(x)
      BY <1>9, <1>10, <1>11 DEF Linked
    <2> QED BY <2>1, <2>2
  <1>13. allocated' = allocated /\ SignalCount' = SignalCount
    BY <1>1
  <1>14. ListsInv'
    <2>1. \A p \in Level : \A x \in Event : InList(EventQueue'[p], x) => NotifyTpl(x) = p
      BY <1>9 DEF EInv, ListsInv
    <2> QED BY <1>9, <1>10, <1>12, <1>13, <2>1 DEF EInv, ListsInv
  <1>15. \A x \in Event : Uses(f, x) <=> x = e
    BY <1>3 DEF Uses
  <1>16. e \in allocated /\ e \in Closable
    BY <1>2, <1>6, <1>7 DEF EInv, UsersInv, ClosersInv, Uses, Closer
  <1>17. UsersInv'
    BY <1>4, <1>5, <1>7, <1>13, <1>15, <1>16 DEF EInv, UsersInv
  <1>18. ClosersInv'
    <2> SUFFICES ASSUME NEW i \in 1..Len(stack'), NEW x \in Event, Closer(stack'[i]), stack'[i].ev = x
                 PROVE  /\ x \in Closable
                        /\ \A j \in 1..Len(stack') : j # i => ~ Uses(stack'[j], x)
                        /\ stack'[i].pc = "free" => ~ Linked(x)'
      BY DEF ClosersInv
    <2>1. CASE i = n
      <3>1. x = e
        BY <1>3, <1>5, <2>1
      <3>2. \A j \in 1..Len(stack') : j # i => ~ Uses(stack'[j], x)
        BY <1>4, <1>5, <1>7, <1>8, <2>1, <3>1
      <3> QED BY <1>12, <1>16, <3>1, <3>2
    <2>2. CASE i \in 1..(n - 1)
      <3>1. i \in 1..Len(stack) /\ Closer(stack[i]) /\ stack[i].ev = x /\ stack'[i] = stack[i]
        BY <1>5, <1>7, <2>2
      <3>2. /\ x \in Closable
            /\ \A j \in 1..Len(stack) : j # i => ~ Uses(stack[j], x)
            /\ stack[i].pc = "free" => ~ Linked(x)
        BY <3>1 DEF EInv, ClosersInv
      <3>3. x # e
        BY <1>8, <2>2, <3>1 DEF Uses, Closer
      <3>4. \A j \in 1..Len(stack') : j # i => ~ Uses(stack'[j], x)
        BY <1>4, <1>5, <1>7, <1>15, <3>2, <3>3
      <3> QED BY <1>12, <3>1, <3>2, <3>4
    <2>3. CASE i = n + 1
      BY <1>4, <1>5, <2>3 DEF Closer
    <2> QED BY <1>7, <2>1, <2>2, <2>3
  <1>19. CreateInv'
    BY <1>3, <1>4, <1>5, <1>7, <1>13 DEF EInv, CreateInv
  <1>20. \A x : Closing(x) => Closing(x)'
    BY <1>3, <1>5, <1>6, <1>7 DEF Closing
  <1>21. Closing(e)
    BY <1>6, <1>7 DEF Closing
  <1>22. SignalledIsQueued'
    <2> SUFFICES ASSUME NEW x \in allocated, Is(x, "NOTIFY_SIGNAL"), SignalCount[x] = 1, ~ Closing(x)
                 PROVE  InList(EventQueue'[NotifyTpl(x)], x)
      BY <1>13, <1>20 DEF SignalledIsQueued
    <2>1. x \in Event /\ NotifyTpl(x) \in Level
      BY NotifyTplFacts DEF EInv, IInv, GlobalsType, ListsType
    <2>2. InList(EventQueue[NotifyTpl(x)], x)
      BY DEF EInv, SignalledIsQueued
    <2> QED BY <1>9, <1>21, <2>1, <2>2
  <1> QED BY <1>13, <1>14, <1>17, <1>18, <1>19, <1>22 DEF EInv, KeptInv

\* CloseEvent frees an event that nothing leads to.
LEMMA CloseFreeE ==
    ASSUME EInv, IInv', CloseFree
    PROVE  EInv'
  <1> DEFINE e == top.ev
             n == Len(stack)
  <1>1. /\ stack # <<>> /\ top.pc = "free" /\ Pop /\ allocated' = allocated \ {e}
        /\ UNCHANGED <<EventQueue, EventSignalQueue, RuntimeEventList, SignalCount>>
    BY DEF CloseFree, At
  <1>2. e \in Event
    BY <1>1, TopFrame DEF EInv, FrameOK, ValidEvent
  <1>3. /\ Len(stack') = n - 1 /\ n \in Nat \ {0}
        /\ \A i \in 1..(n - 1) : stack'[i] = stack[i]
    BY <1>1, PopFacts DEF Pop, EInv, IInv, GlobalsType, StackType
  <1>4. stack[n].pc = "free" /\ stack[n].ev = e
    BY <1>1 DEF top
  <1>5. /\ \A i \in 1..Len(stack') : i \in 1..n /\ i # n /\ stack'[i] = stack[i]
        /\ \A i \in 1..n : i # n => i \in 1..Len(stack')
        /\ n \in 1..n
    BY <1>3
  <1> HIDE DEF e
  <1>6. e \in Closable /\ ~ Linked(e) /\ \A i \in 1..Len(stack') : ~ Uses(stack[i], e)
    BY <1>2, <1>4, <1>5 DEF EInv, ClosersInv, Closer
  <1>7. \A x : Linked(x)' <=> Linked(x)
    BY <1>1 DEF Linked
  <1>8. ListsInv'
    BY <1>1, <1>6, <1>7 DEF EInv, ListsInv
  <1>9. UsersInv'
    BY <1>1, <1>5, <1>6 DEF EInv, UsersInv
  <1>10. ClosersInv'
    BY <1>5, <1>7 DEF EInv, ClosersInv
  <1>11. CreateInv'
    BY <1>1, <1>5 DEF EInv, CreateInv
  <1>12. KeptInv'
    BY <1>1, <1>6 DEF EInv, KeptInv
  <1>13. \A x : x # e /\ Closing(x) => Closing(x)'
    BY <1>4, <1>5 DEF Closing
  <1>14. SignalledIsQueued'
    BY <1>1, <1>13 DEF EInv, SignalledIsQueued
  <1> QED BY <1>8, <1>9, <1>10, <1>11, <1>12, <1>14 DEF EInv

-----------------------------------------------------------------------------
(* The theorems about events *)

\* When user code starts, no list has an entry and no frame uses an event.
LEMMA InitE == Init => EInv
  <1> SUFFICES ASSUME Init PROVE EInv
    OBVIOUS
  <1>1. /\ IInv /\ stack = <<>> /\ Len(stack) = 0
        /\ EventQueue = [p \in Level |-> <<>>]
        /\ EventSignalQueue = [s \in Signals |-> <<>>]
        /\ RuntimeEventList \subseteq allocated /\ allocated = Event \ Closable
        /\ SignalCount = [e \in Event |-> 0]
    BY InitIInv DEF Init, Signals
  <1>2. \A x : ~ InList(<<>>, x) /\ Once(<<>>)
    BY DEF InList, Once
  <1>3. /\ \A p \in Level : EventQueue[p] = <<>>
        /\ \A s \in Signals : EventSignalQueue[s] = <<>>
    BY <1>1
  <1>4. ListsInv
    BY <1>1, <1>2, <1>3 DEF ListsInv, Linked
  <1>5. UsersInv /\ ClosersInv /\ CreateInv /\ KeptInv
    BY <1>1 DEF UsersInv, ClosersInv, CreateInv, KeptInv
  <1>6. SignalledIsQueued
    BY <1>1 DEF SignalledIsQueued
  <1> QED BY <1>1, <1>4, <1>5, <1>6 DEF EInv

\* Every step keeps it.
LEMMA NextE == EInv /\ [Next]_vars => EInv'
  <1> SUFFICES ASSUME EInv, [Next]_vars PROVE EInv'
    OBVIOUS
  <1>1. IInv'
    BY NextIInv DEF EInv
  <1>2. CASE Kernel
    BY <1>1, <1>2, LevelsE, DispatcherE, DispatchPopE, CreateBodyE, SignalBodyE, ListStepE,
       CloseBodyE, CloseFreeE, ChecksE, CheckRequeueE, CheckConsumeE DEF Kernel
  <1>3. CASE User
    BY <1>1, <1>3, LevelsE, CallsE, CloseEventE DEF User, Signals
  <1>4. CASE Leave
    BY <1>1, <1>4, LevelsE, DispatcherE DEF Leave
  <1>5. CASE Interrupt
    BY <1>1, <1>5, TickE DEF Interrupt
  <1>6. CASE UNCHANGED vars
    <2>1. StackKept
      <3>1. stack' = stack /\ Len(stack) \in Nat
        BY <1>6 DEF vars, EInv, IInv, GlobalsType, StackType
      <3> QED BY <3>1 DEF StackKept
    <2>2. UNCHANGED lists
      BY <1>6 DEF vars, lists
    <2> QED BY <1>1, <2>1, <2>2, QuietEvents
  <1> QED BY <1>2, <1>3, <1>4, <1>5, <1>6 DEF Next

\* The inductive invariant of the events holds.
THEOREM EventsInvariance == Spec => []EInv
  BY InitE, NextE, PTL DEF Spec

\* CloseEvent leaves no reference behind in a list: no queue, signal list or
\* runtime list leads to a freed event, and the queues have each event once and
\* at its level, for any number of events and however interrupts, notify
\* functions and closes nest, an event closed between its turn in the queue and
\* the call of its notify function included.
THEOREM NoDanglingEvent == Spec => []QueuesWellFormed
  <1>1. EInv => QueuesWellFormed
    <2> SUFFICES ASSUME EInv PROVE QueuesWellFormed
      OBVIOUS
    <2>1. /\ EventQueue \in [Level -> Seq(ValidEvent)] /\ ValidEvent \subseteq Event
          /\ EventSignalQueue \in [Signals -> Seq(ValidEvent)]
          /\ RuntimeEventList \subseteq ValidEvent
      BY DEF EInv, IInv, GlobalsType, ListsType, Signals, ValidEvent
    <2>2. \A e \in Event : Linked(e) => e \in allocated
      BY DEF EInv, ListsInv
    <2>3. ASSUME NEW p \in Level, NEW i \in 1..Len(EventQueue[p])
          PROVE  /\ EventQueue[p][i] \in allocated /\ NotifyTpl(EventQueue[p][i]) = p
                 /\ \A j \in 1..Len(EventQueue[p]) : EventQueue[p][j] = EventQueue[p][i] => j = i
      <3>1. EventQueue[p][i] \in Event /\ InList(EventQueue[p], EventQueue[p][i])
        BY <2>1 DEF InList
      <3> QED BY <2>2, <3>1 DEF EInv, ListsInv, Linked, Once
    <2>4. ASSUME NEW s \in DOMAIN EventSignalQueue, NEW i \in 1..Len(EventSignalQueue[s])
          PROVE  EventSignalQueue[s][i] \in allocated
      <3>1. s \in Signals /\ EventSignalQueue[s][i] \in Event /\ InList(EventSignalQueue[s], EventSignalQueue[s][i])
        BY <2>1 DEF InList
      <3> QED BY <2>2, <3>1 DEF Linked
    <2>5. RuntimeEventList \subseteq allocated
      BY <2>1, <2>2 DEF Linked
    <2> QED BY <2>3, <2>4, <2>5 DEF QueuesWellFormed
  <1> QED BY <1>1, EventsInvariance, PTL

\* No signal is wedged: SignalEvent ignores a signalled event only while its
\* notification is queued.
THEOREM NoWedgedSignal == Spec => []SignalledIsQueued
  <1>1. EInv => SignalledIsQueued
    BY DEF EInv
  <1> QED BY <1>1, EventsInvariance, PTL

-----------------------------------------------------------------------------
(* The levels on the stack *)

\* The numbers in a frame.
LEMMA FrameLevels ==
    /\ Level \subseteq Nat
    /\ \A f \in Frame : f.tpl \in Level /\ f.tpl \in Nat /\ f.prio \in Nat
  BY LevelFacts DEF Level, Frame

\* Levels above one that is kept are kept.
LEMMA KeptUp ==
    ASSUME NEW t \in Nat, NEW u \in Nat, t <= u, NEW w, Kept(t, w)
    PROVE  Kept(u, w)
  BY LevelFacts DEF Kept, Level

\* A frame that returns to the level it was called at goes on top.
LEMMA AscendPush ==
    ASSUME NEW w, NEW s \in Seq(Frame), NEW m, Ascending(s, m, w), NEW f \in Frame, NEW level \in Level,
           AboveCaller(f, w), m \in Level, Kept(m, w) => m <= f.tpl, Kept(f.tpl, w) => f.tpl <= level
    PROVE  Ascending(Append(s, f), level, w)
  <1> DEFINE r == Append(s, f)
  <1>1. /\ Len(r) = Len(s) + 1 /\ Len(s) \in Nat
        /\ \A i \in 1..Len(s) : r[i] = s[i]
        /\ r[Len(s) + 1] = f
    BY AppendFacts
  <1>2. ASSUME NEW i \in 1..Len(s), Kept(s[i].tpl, w)
        PROVE  s[i].tpl <= f.tpl /\ s[i].tpl <= level
    <2>1. s[i].tpl \in Nat /\ s[i].tpl <= m
      BY <1>2, FrameLevels DEF Ascending
    <2>2. f.tpl \in Nat /\ level \in Nat /\ m \in Nat
      BY FrameLevels
    <2>3. s[i].tpl <= f.tpl
      BY <1>2, <2>1, <2>2, KeptUp
    <2>4. Kept(f.tpl, w)
      BY <1>2, <2>1, <2>2, <2>3, KeptUp
    <2> QED BY <2>1, <2>2, <2>3, <2>4
  <1>3. f.tpl <= f.tpl
    BY FrameLevels
  <1> HIDE DEF r
  <1>4. \A i \in 1..Len(r) : i \in 1..Len(s) \/ i = Len(s) + 1
    BY <1>1
  <1>5. ASSUME NEW i \in 1..Len(r)
        PROVE  AboveCaller(r[i], w) /\ (Kept(r[i].tpl, w) => r[i].tpl <= level)
    <2>1. CASE i \in 1..Len(s)
      BY <1>1, <1>2, <2>1 DEF Ascending
    <2>2. CASE i = Len(s) + 1
      BY <1>1, <2>2
    <2> QED BY <1>4, <2>1, <2>2
  <1>6. ASSUME NEW i \in 1..Len(r), NEW j \in 1..Len(r), i <= j, Kept(r[i].tpl, w)
        PROVE  r[i].tpl <= r[j].tpl
    <2>1. CASE j \in 1..Len(s)
      <3>1. i \in 1..Len(s)
        BY <1>1, <1>6, <2>1
      <3> QED BY <1>1, <1>6, <2>1, <3>1 DEF Ascending
    <2>2. CASE j = Len(s) + 1 /\ i \in 1..Len(s)
      BY <1>1, <1>2, <1>6, <2>2
    <2>3. CASE j = Len(s) + 1 /\ i = Len(s) + 1
      BY <1>1, <1>3, <2>3
    <2> QED BY <1>4, <2>1, <2>2, <2>3
  <1>7. Ascending(r, level, w)
    BY <1>5, <1>6 DEF Ascending
  <1> QED BY <1>7 DEF r

\* What is kept under the frame on top is below the level it returns to.
LEMMA AscendUnderTop ==
    ASSUME NEW w, NEW s \in Seq(Frame), s # <<>>, NEW m, Ascending(s, m, w), NEW level \in Level,
           Kept(s[Len(s)].tpl, w) => s[Len(s)].tpl <= level
    PROVE  \A i \in 1..Len(s) : Kept(s[i].tpl, w) =>
              s[i].tpl <= s[Len(s)].tpl /\ s[i].tpl <= level
  <1>1. Len(s) \in Nat \ {0} /\ Len(s) \in 1..Len(s)
    BY TopFacts
  <1> SUFFICES ASSUME NEW i \in 1..Len(s), Kept(s[i].tpl, w)
               PROVE  s[i].tpl <= s[Len(s)].tpl /\ s[i].tpl <= level
    OBVIOUS
  <1>2. s[i].tpl \in Nat /\ s[Len(s)].tpl \in Nat /\ level \in Nat /\ i <= Len(s)
    BY <1>1, FrameLevels
  <1>3. s[i].tpl <= s[Len(s)].tpl
    BY <1>1, <1>2 DEF Ascending
  <1>4. Kept(s[Len(s)].tpl, w)
    BY <1>2, <1>3, KeptUp
  <1> QED BY <1>2, <1>3, <1>4

\* The frame on top goes on, to return to the same level.
LEMMA AscendTop ==
    ASSUME NEW w, NEW s \in Seq(Frame), s # <<>>, NEW m, Ascending(s, m, w), NEW f \in Frame,
           NEW level \in Level, AboveCaller(f, w), f.tpl = s[Len(s)].tpl, Kept(f.tpl, w) => f.tpl <= level
    PROVE  Ascending([s EXCEPT ![Len(s)] = f], level, w)
  <1> DEFINE r == [s EXCEPT ![Len(s)] = f]
  <1>1. /\ Len(r) = Len(s) /\ Len(s) \in Nat \ {0}
        /\ \A i \in 1..(Len(s) - 1) : r[i] = s[i]
        /\ r[Len(s)] = f
    BY TopFacts
  <1>2. \A i \in 1..Len(s) : Kept(s[i].tpl, w) => s[i].tpl <= level
    BY AscendUnderTop
  <1> HIDE DEF r
  <1>3. \A i \in 1..Len(r) : i \in 1..Len(s) /\ (r[i] = s[i] \/ r[i] = f) /\ r[i].tpl = s[i].tpl
    BY <1>1
  <1>4. \A i \in 1..Len(r) : AboveCaller(r[i], w) /\ (Kept(r[i].tpl, w) => r[i].tpl <= level)
    BY <1>2, <1>3 DEF Ascending
  <1>5. Ascending(r, level, w)
    BY <1>3, <1>4 DEF Ascending
  <1> QED BY <1>5 DEF r

\* The frame on top returns to its caller's level or above.
LEMMA AscendPop ==
    ASSUME NEW w, NEW s \in Seq(Frame), s # <<>>, NEW m, Ascending(s, m, w), NEW level \in Level,
           Kept(s[Len(s)].tpl, w) => s[Len(s)].tpl <= level
    PROVE  Ascending(SubSeq(s, 1, Len(s) - 1), level, w)
  <1> DEFINE r == SubSeq(s, 1, Len(s) - 1)
  <1>1. /\ Len(r) = Len(s) - 1 /\ Len(s) \in Nat \ {0}
        /\ \A i \in 1..(Len(s) - 1) : r[i] = s[i]
    BY PopFacts
  <1>2. \A i \in 1..Len(s) : Kept(s[i].tpl, w) => s[i].tpl <= level
    BY AscendUnderTop
  <1> HIDE DEF r
  <1>3. \A i \in 1..Len(r) : i \in 1..Len(s) /\ r[i] = s[i]
    BY <1>1
  <1>4. \A i \in 1..Len(r) : AboveCaller(r[i], w) /\ (Kept(r[i].tpl, w) => r[i].tpl <= level)
    BY <1>2, <1>3 DEF Ascending
  <1>5. Ascending(r, level, w)
    BY <1>3, <1>4 DEF Ascending
  <1> QED BY <1>5 DEF r

\* CheckEvent returns to its caller's level.
LEMMA AscendCaller ==
    ASSUME NEW w, StackType, stack # <<>>, NEW m, Ascending(stack, m, w), NEW ready \in BOOLEAN,
           NEW level \in Level, Kept(top.tpl, w) => top.tpl <= level
    PROVE  Ascending(Caller(ready), level, w)
  <1> DEFINE r == Caller(ready)
  <1>1. /\ Len(r) = Len(stack) - 1 /\ Len(stack) \in Nat \ {0}
        /\ \A i \in 1 .. Len(stack) - 1 :
              r[i].tpl = stack[i].tpl /\ (r[i] = stack[i] \/ r[i].pc \in {"wait", "ready"})
    BY CallerShape
  <1> HIDE DEF r
  <1>2. \A i \in 1..Len(stack) : Kept(stack[i].tpl, w) => stack[i].tpl <= level
    BY AscendUnderTop DEF StackType, top
  <1>3. \A i \in 1..Len(r) : i \in 1..Len(stack) /\ i \in 1 .. Len(stack) - 1
    BY <1>1
  <1>4. ASSUME NEW i \in 1..Len(r)
        PROVE  AboveCaller(r[i], w) /\ (Kept(r[i].tpl, w) => r[i].tpl <= level)
    <2>1. Kept(r[i].tpl, w) => r[i].tpl <= level
      BY <1>1, <1>2, <1>3
    <2>2. AboveCaller(stack[i], w)
      BY <1>3 DEF Ascending
    <2>3. r[i].pc \in {"wait", "ready"} => AboveCaller(r[i], w)
      BY DEF AboveCaller, DispatchPc
    <2> QED BY <1>1, <1>3, <2>1, <2>2, <2>3
  <1>5. Ascending(r, level, w)
    BY <1>1, <1>3, <1>4 DEF Ascending
  <1> QED BY <1>5 DEF r

\* The running frame goes on and calls.
LEMMA AscendUnder ==
    ASSUME NEW w, StackType, stack # <<>>, NEW m, Ascending(stack, m, w),
           NEW f \in Frame, AboveCaller(f, w), f.tpl = top.tpl,
           NEW g \in Frame, AboveCaller(g, w), Kept(f.tpl, w) => f.tpl <= g.tpl, NEW level \in Level,
           Kept(g.tpl, w) => g.tpl <= level
    PROVE  Ascending(Append([stack EXCEPT ![Len(stack)] = f], g), level, w)
  <1> DEFINE s == [stack EXCEPT ![Len(stack)] = f]
  <1>1. s \in Seq(Frame) /\ f.tpl \in Level /\ f.tpl <= f.tpl
    BY TopFacts, FrameLevels DEF StackType
  <1>2. Ascending(s, f.tpl, w)
    BY <1>1, AscendTop DEF StackType, top
  <1> HIDE DEF s
  <1>3. Ascending(Append(s, g), level, w)
    BY <1>1, <1>2, AscendPush
  <1> QED BY <1>3 DEF s

\* The level the running frame returns to.
LEMMA TopLevel ==
    ASSUME IInv, NInv, stack # <<>>
    PROVE  /\ top \in Frame /\ FrameOK(top) /\ AboveCaller(top, rereads)
           /\ top.tpl \in Level /\ top.tpl \in Nat /\ top.prio \in Nat
           /\ Kept(top.tpl, rereads) => top.tpl <= TPL
  <1>1. Len(stack) \in 1..Len(stack)
    BY DEF IInv, GlobalsType, StackType
  <1> QED BY <1>1, TopFrame, FrameLevels DEF NInv, Ascending, top

\* The running frame goes on.
LEMMA BecomeN ==
    ASSUME IInv, NInv, rereads' = rereads, TPL' \in Level, stack # <<>>, NEW f \in Frame, Become(f),
           f.tpl = top.tpl, AboveCaller(f, rereads), Kept(f.tpl, rereads) => f.tpl <= TPL'
    PROVE  NInv'
  <1>1. stack' = [stack EXCEPT ![Len(stack)] = f] /\ stack \in Seq(Frame)
    BY DEF Become, IInv, GlobalsType, StackType
  <1>2. Ascending(stack', TPL', rereads)
    BY <1>1, AscendTop DEF NInv, top
  <1> QED BY <1>2 DEF NInv

\* The running frame calls at its level.
LEMMA PushN ==
    ASSUME IInv, NInv, rereads' = rereads, TPL' \in Level, NEW f \in Frame, Push(f),
           f.tpl = TPL, AboveCaller(f, rereads), f.tpl <= TPL'
    PROVE  NInv'
  <1>1. stack' = Append(stack, f) /\ stack \in Seq(Frame) /\ TPL \in Level /\ TPL <= f.tpl
    BY FrameLevels DEF Push, IInv, GlobalsType, StackType
  <1>2. Ascending(stack', TPL', rereads)
    BY <1>1, AscendPush DEF NInv
  <1> QED BY <1>2 DEF NInv

\* The running frame goes on and calls.
LEMMA UnderN ==
    ASSUME IInv, NInv, rereads' = rereads, TPL' \in Level, stack # <<>>, NEW f \in Frame, NEW g \in Frame,
           BecomeUnder(f, g), f.tpl = top.tpl, AboveCaller(f, rereads), AboveCaller(g, rereads),
           Kept(f.tpl, rereads) => f.tpl <= g.tpl, Kept(g.tpl, rereads) => g.tpl <= TPL'
    PROVE  NInv'
  <1>1. stack' = Append([stack EXCEPT ![Len(stack)] = f], g) /\ StackType
    BY DEF BecomeUnder, IInv, GlobalsType
  <1>2. Ascending(stack', TPL', rereads)
    BY <1>1, AscendUnder DEF NInv
  <1> QED BY <1>2 DEF NInv

\* The running frame returns.
LEMMA PopN ==
    ASSUME IInv, NInv, rereads' = rereads, TPL' \in Level, stack # <<>>, Pop,
           Kept(top.tpl, rereads) => top.tpl <= TPL'
    PROVE  NInv'
  <1>1. stack' = SubSeq(stack, 1, Len(stack) - 1) /\ stack \in Seq(Frame)
    BY DEF Pop, IInv, GlobalsType, StackType
  <1>2. Ascending(stack', TPL', rereads)
    BY <1>1, AscendPop DEF NInv, top
  <1> QED BY <1>2 DEF NInv

\* A frame outside the dispatcher has no level to keep above.
LEMMA OtherPc ==
    ASSUME NEW f, f.pc \notin DispatchPc
    PROVE  AboveCaller(f, rereads)
  BY DEF AboveCaller

\* RaiseTPL and RestoreTPL.  The second read of EventPending finds what the loop
\* condition saw when interrupts are off, and they are when RestoreTPL is about
\* to dispatch above TPL_HIGH_LEVEL - 1.
LEMMA LevelsN ==
    ASSUME IInv, IInv', NInv, rereads' = rereads,
           \/ \E t \in RaiseLevels : RaiseTPL(t)
           \/ RestoreTPL \/ RestoreCheck \/ RestoreSelect \/ RestoreLower
    PROVE  NInv'
  <1>1. TPL \in Level /\ TPL' \in Level /\ TPL \in Nat /\ EventPending \subseteq Level
    BY FrameLevels DEF IInv, GlobalsType, ListsType
  <1>2. \A t \in Level : \A p \in Nat : \A pc \in Pc :
            LET f == Mk(pc, t, p, NoEvent) IN f \in Frame /\ f.pc = pc /\ f.tpl = t /\ f.prio = p
    BY DEF Mk, Frame
  <1>3. ASSUME NEW t \in RaiseLevels, RaiseTPL(t) PROVE NInv'
    <2> DEFINE f == Mk("raised", TPL, t, NoEvent)
    <2>1. Push(f) /\ TPL' = t /\ TPL <= t
      BY <1>3 DEF RaiseTPL
    <2>2. t \in Nat /\ "raised" \in Pc
      BY LevelFacts, FrameLevels DEF Pc
    <2>3. f \in Frame /\ f.pc = "raised" /\ f.tpl = TPL
      BY <1>1, <1>2, <2>2
    <2> HIDE DEF f
    <2>4. AboveCaller(f, rereads)
      BY <2>3, OtherPc DEF DispatchPc
    <2> QED BY <1>1, <2>1, <2>3, <2>4, PushN
  <1>4. CASE RestoreTPL
    <2> DEFINE f == Mk("check", top.tpl, 0, NoEvent)
    <2>1. stack # <<>> /\ Become(f) /\ TPL' = TPL
      BY <1>4 DEF RestoreTPL, At, RestoreFrame
    <2>2. top.tpl \in Level /\ (Kept(top.tpl, rereads) => top.tpl <= TPL)
      BY <2>1, TopLevel
    <2>3. f \in Frame /\ f.pc = "check" /\ f.tpl = top.tpl
      BY <1>2, <2>2 DEF Pc
    <2> HIDE DEF f
    <2>4. AboveCaller(f, rereads)
      BY <2>3, OtherPc DEF DispatchPc
    <2> QED BY <1>1, <2>1, <2>2, <2>3, <2>4, BecomeN
  <1>5. CASE RestoreCheck
    <2> DEFINE h == HighestSetBit(EventPending)
               f == Mk("select", top.tpl, h, NoEvent)
               g == Mk("lower", top.tpl, 0, NoEvent)
    <2>1. stack # <<>> /\ TPL' = TPL /\ ((Unmasked(top.tpl) /\ Become(f)) \/ Become(g))
      BY <1>5 DEF RestoreCheck, At
    <2>2. top.tpl \in Level /\ top.tpl \in Nat /\ (Kept(top.tpl, rereads) => top.tpl <= TPL)
      BY <2>1, TopLevel
    <2>3. h \in Nat /\ \A q \in EventPending : q \in Nat /\ q <= h
      BY <1>1, HighestSetBitFacts, FrameLevels
    <2> HIDE DEF h
    <2>4. f \in Frame /\ f.pc = "select" /\ f.tpl = top.tpl /\ f.prio = h
      BY <1>2, <2>2, <2>3 DEF Pc
    <2>5. g \in Frame /\ g.pc = "lower" /\ g.tpl = top.tpl
      BY <1>2, <2>2 DEF Pc
    <2> HIDE DEF f, g
    <2>6. CASE Unmasked(top.tpl) /\ Become(f)
      <3>1. top.tpl < h
        BY <2>2, <2>3, <2>6 DEF Unmasked
      <3>2. AboveCaller(f, rereads)
        BY <2>4, <3>1 DEF AboveCaller
      <3> QED BY <1>1, <2>1, <2>2, <2>4, <2>6, <3>2, BecomeN
    <2>7. CASE Become(g)
      <3>1. AboveCaller(g, rereads)
        BY <2>5, OtherPc DEF DispatchPc
      <3> QED BY <1>1, <2>1, <2>2, <2>5, <2>7, <3>1, BecomeN
    <2> QED BY <2>1, <2>6, <2>7
  <1>6. CASE RestoreSelect
    <2> DEFINE h == HighestSetBit(EventPending)
               p == IF rereads THEN h ELSE top.prio
               f == Mk("dispatch", top.tpl, p, NoEvent)
    <2>1. stack # <<>> /\ top.pc = "select" /\ TPL' = p /\ Become(f)
      BY <1>6 DEF RestoreSelect, At, LowerTPL
    <2>2. top.tpl \in Level /\ top.tpl \in Nat /\ top.prio \in Nat /\ AboveCaller(top, rereads)
      BY <2>1, TopLevel
    <2>3. h \in Nat
      BY <1>1, HighestSetBitFacts, FrameLevels
    <2>4. ASSUME Kept(top.tpl, rereads) PROVE top.tpl < p
      <3>1. top.tpl < top.prio
        BY <2>1, <2>2, <2>4 DEF AboveCaller, DispatchPc
      <3>2. CASE rereads = TRUE
        <4>1. TPL_HIGH_LEVEL - 1 <= top.tpl /\ TPL_HIGH_LEVEL \in Nat
          BY <2>4, <3>2, LevelFacts, FrameLevels DEF Kept
        <4>2. ~ (top.prio < TPL_HIGH_LEVEL)
          BY <2>2, <3>1, <4>1
        <4>3. TopOK(top)
          BY <2>1 DEF IInv, TopInv
        <4>4. top.prio = h
          BY <2>1, <4>2, <4>3 DEF TopOK
        <4> HIDE DEF h
        <4> QED BY <3>1, <3>2, <4>4
      <3>3. CASE rereads = FALSE
        BY <3>1, <3>3
      <3> QED BY <3>2, <3>3 DEF NInv
    <2> HIDE DEF h
    <2>5. p \in Nat
      BY <2>2, <2>3
    <2> HIDE DEF p
    <2>6. f \in Frame /\ f.pc = "dispatch" /\ f.tpl = top.tpl /\ f.prio = p
      BY <1>2, <2>2, <2>5 DEF Pc
    <2> HIDE DEF f
    <2>7. AboveCaller(f, rereads) /\ (Kept(f.tpl, rereads) => f.tpl <= TPL')
      BY <2>1, <2>2, <2>4, <2>5, <2>6 DEF AboveCaller
    <2> QED BY <1>1, <2>1, <2>6, <2>7, BecomeN
  <1>7. CASE RestoreLower
    <2>1. stack # <<>> /\ Pop /\ TPL' = top.tpl
      BY <1>7 DEF RestoreLower, At, LowerTPL
    <2>2. top.tpl <= TPL'
      BY <2>1, TopLevel
    <2> QED BY <1>1, <2>1, <2>2, PopN
  <1> QED BY <1>3, <1>4, <1>5, <1>6, <1>7

\* The running frame moves on within its function.
LEMMA MoveN ==
    ASSUME IInv, IInv', NInv, rereads' = rereads, stack # <<>>, NEW pc \in Pc, Become([top EXCEPT !.pc = pc]),
           pc \in DispatchPc => top.pc \in DispatchPc, TPL' = TPL \/ TPL' = TPL_HIGH_LEVEL
    PROVE  NInv'
  <1> DEFINE f == [top EXCEPT !.pc = pc]
  <1>1. /\ top \in Frame /\ AboveCaller(top, rereads) /\ top.tpl \in Level /\ top.tpl \in Nat
        /\ Kept(top.tpl, rereads) => top.tpl <= TPL
        /\ TPL' \in Level /\ TPL \in Nat
    BY TopLevel, FrameLevels DEF IInv, GlobalsType
  <1>2. f \in Frame /\ f.pc = pc /\ f.tpl = top.tpl /\ f.prio = top.prio
    BY MoveFacts
  <1> HIDE DEF f
  <1>3. Become(f)
    BY DEF f
  <1>4. AboveCaller(f, rereads)
    BY <1>1, <1>2 DEF AboveCaller
  <1>5. Kept(f.tpl, rereads) => f.tpl <= TPL'
    BY <1>1, <1>2, LevelFacts DEF Level
  <1> QED BY <1>1, <1>2, <1>3, <1>4, <1>5, BecomeN

\* DispatchEventNotifies.
LEMMA DispatcherN ==
    ASSUME IInv, IInv', NInv, rereads' = rereads, DispatchAcquire \/ DispatchPop \/ DispatchCall \/ NotifyReturn
    PROVE  NInv'
  <1>0. TPL \in Level /\ TPL' \in Level
    BY DEF IInv, GlobalsType
  <1>1. CASE DispatchAcquire
    <2>1. stack # <<>> /\ top.pc = "dispatch" /\ Become([top EXCEPT !.pc = "popping"]) /\ TPL' = TPL_HIGH_LEVEL
      BY <1>1 DEF DispatchAcquire, At, AcquireLock
    <2> QED BY <2>1, MoveN DEF Pc, LockedPc, DispatchPc
  <1>2. CASE DispatchCall
    <2>1. stack # <<>> /\ top.pc = "call" /\ Become([top EXCEPT !.pc = "notify"]) /\ TPL' = TPL
      BY <1>2 DEF DispatchCall, At
    <2> QED BY <2>1, MoveN DEF Pc, DispatchPc
  <1>3. CASE NotifyReturn
    <2> DEFINE f == Mk("dispatch", top.tpl, top.prio, NoEvent)
    <2>1. stack # <<>> /\ top.pc = "notify" /\ Become(f) /\ TPL' = TPL
      BY <1>3 DEF NotifyReturn, At
    <2>2. top.tpl \in Level /\ top.prio \in Nat /\ AboveCaller(top, rereads) /\ (Kept(top.tpl, rereads) => top.tpl <= TPL)
      BY <2>1, TopLevel
    <2>3. f \in Frame /\ f.pc = "dispatch" /\ f.tpl = top.tpl /\ f.prio = top.prio
      BY <2>2 DEF Mk, Frame, Pc
    <2> HIDE DEF f
    <2>4. AboveCaller(f, rereads)
      BY <2>1, <2>2, <2>3 DEF AboveCaller, DispatchPc
    <2> QED BY <1>0, <2>1, <2>2, <2>3, <2>4, BecomeN
  <1>4. CASE DispatchPop
    <2> DEFINE h == Head(EventQueue[top.prio])
               f == Mk("call", top.tpl, top.prio, h)
               g == RestoreFrame(top.tpl)
    <2>1. /\ stack # <<>> /\ top.pc = "popping" /\ TPL' = TPL
          /\ \/ EventQueue[top.prio] # <<>> /\ BecomeUnder(f, Released)
             \/ BecomeUnder(g, Released)
      BY <1>4 DEF DispatchPop, At, ReleaseLock
    <2>2. /\ top.tpl \in Level /\ top.tpl \in Nat /\ top.prio \in Nat /\ top.prio \in Level
          /\ Kept(top.tpl, rereads) => top.tpl < top.prio
      BY <2>1, TopLevel DEF AboveCaller, DispatchPc, FrameOK
    <2>3. Released \in Frame /\ Released.pc = "check" /\ Released.tpl = top.prio
      BY <2>1, ReleasedFacts DEF LockedPc
    <2>4. TPL' = TPL_HIGH_LEVEL
      BY <2>1 DEF IInv, LockInv, LockedPc
    <2>5. AboveCaller(Released, rereads) /\ Released.tpl <= TPL'
          /\ (Kept(top.tpl, rereads) => top.tpl <= Released.tpl)
      BY <2>2, <2>3, <2>4, OtherPc, LevelFacts DEF DispatchPc, Level
    <2> HIDE DEF Released
    <2>6. CASE EventQueue[top.prio] # <<>> /\ BecomeUnder(f, Released)
      <3>1. h \in ValidEvent
        <4>1. EventQueue[top.prio] \in Seq(ValidEvent)
          BY <2>2 DEF IInv, GlobalsType, ListsType
        <4> QED BY <2>6, <4>1
      <3> HIDE DEF h
      <3>2. f \in Frame /\ f.pc = "call" /\ f.tpl = top.tpl /\ f.prio = top.prio
        BY <2>2, <3>1 DEF Mk, Frame, Pc
      <3> HIDE DEF f
      <3>3. AboveCaller(f, rereads) /\ (Kept(f.tpl, rereads) => f.tpl <= Released.tpl)
        BY <2>2, <2>5, <3>2 DEF AboveCaller
      <3>4. Kept(Released.tpl, rereads) => Released.tpl <= TPL'
        BY <2>5
      <3> QED BY <1>0, <2>1, <2>3, <2>5, <2>6, <3>2, <3>3, <3>4, UnderN
    <2>7. CASE BecomeUnder(g, Released)
      <3>1. g \in Frame /\ g.pc = "check" /\ g.tpl = top.tpl
        BY <2>2, RestoreFrameFacts
      <3> HIDE DEF g
      <3>2. AboveCaller(g, rereads)
        BY <3>1, OtherPc DEF DispatchPc
      <3>3. Kept(g.tpl, rereads) => g.tpl <= Released.tpl
        BY <2>5, <3>1
      <3>4. Kept(Released.tpl, rereads) => Released.tpl <= TPL'
        BY <2>5
      <3> QED BY <1>0, <2>1, <2>3, <2>5, <2>7, <3>1, <3>2, <3>3, <3>4, UnderN
    <2> QED BY <2>1, <2>6, <2>7
  <1> QED BY <1>1, <1>2, <1>3, <1>4

\* The timer interrupt.
LEMMA TickN ==
    ASSUME IInv, IInv', NInv, rereads' = rereads, NEW expired \in BOOLEAN, Tick(expired)
    PROVE  NInv'
  <1> DEFINE f == RestoreFrame(TPL)
             g == Mk("signal", TPL_HIGH_LEVEL, 0, EfiCheckTimerEvent)
  <1>1. TPL \in Level /\ TPL \in Nat /\ TPL' = TPL_HIGH_LEVEL /\ TPL' \in Level /\ TPL <= TPL'
    BY LevelFacts, FrameLevels DEF IInv, GlobalsType, Tick, Level
  <1>2. f \in Frame /\ f.pc = "check" /\ f.tpl = TPL
    BY <1>1, RestoreFrameFacts
  <1>3. (~ expired /\ Push(f)) \/ stack' = Append(Append(stack, f), g)
    BY DEF Tick, OldTpl
  <1>4. g \in Frame /\ g.pc = "signal" /\ g.tpl = TPL_HIGH_LEVEL
    BY LevelFacts, ConstAssumption, EventAssumption DEF Mk, Frame, Pc, LockedPc, ValidEvent
  <1> HIDE DEF f, g
  <1>5. AboveCaller(f, rereads) /\ AboveCaller(g, rereads)
    BY <1>2, <1>4, OtherPc DEF DispatchPc
  <1>6. CASE Push(f)
    BY <1>1, <1>2, <1>5, <1>6, PushN
  <1>7. CASE stack' = Append(Append(stack, f), g)
    <2> DEFINE s == Append(stack, f)
    <2>1. stack \in Seq(Frame) /\ s \in Seq(Frame) /\ TPL <= f.tpl /\ f.tpl <= TPL
      BY <1>1, <1>2, AppendFacts DEF IInv, GlobalsType, StackType
    <2>2. Ascending(s, TPL, rereads)
      BY <1>1, <1>2, <1>5, <2>1, AscendPush DEF NInv
    <2> HIDE DEF s
    <2>3. TPL <= g.tpl /\ g.tpl <= TPL' /\ stack' = Append(s, g)
      BY <1>1, <1>4, <1>7, FrameLevels DEF s
    <2>4. Ascending(stack', TPL', rereads)
      BY <1>1, <1>4, <1>5, <2>1, <2>2, <2>3, AscendPush
    <2> QED BY <2>4 DEF NInv
  <1> QED BY <1>3, <1>6, <1>7

\* A service that user code calls.
LEMMA CallsN ==
    ASSUME IInv, IInv', NInv, rereads' = rereads,
           \/ \E e \in Event : CreateEvent(e) \/ SignalEvent(e) \/ CheckEvent(e) \/ CloseEvent(e)
           \/ \E s \in 0 .. EVT_EFI_SIGNAL_MAX - 1 : RtNotifySignalList(s)
           \/ WaitForEvent
    PROVE  NInv'
  <1>1. TPL \in Level /\ TPL \in Nat /\ TPL' \in Level /\ allocated \subseteq ValidEvent
    BY FrameLevels DEF IInv, GlobalsType, ListsType
  <1>2. ASSUME NEW pc \in Pc, NEW p \in Nat, NEW e \in ValidEvent \cup {NoEvent},
               Push(Mk(pc, TPL, p, e)), pc \notin DispatchPc, TPL' = TPL \/ TPL' = TPL_HIGH_LEVEL
        PROVE  NInv'
    <2> DEFINE f == Mk(pc, TPL, p, e)
    <2>1. f \in Frame /\ f.pc = pc /\ f.tpl = TPL
      BY <1>1 DEF Mk, Frame
    <2> HIDE DEF f
    <2>2. Push(f)
      BY <1>2 DEF f
    <2>3. AboveCaller(f, rereads) /\ f.tpl <= TPL'
      BY <1>1, <1>2, <2>1, OtherPc, LevelFacts DEF Level
    <2> QED BY <1>1, <2>1, <2>2, <2>3, PushN
  <1>3. ASSUME NEW pc \in {"create", "signal", "close"}, NEW e \in ValidEvent, Enter(pc, e) PROVE NInv'
    <2>1. Push(Mk(pc, TPL, 0, e)) /\ TPL' = TPL_HIGH_LEVEL
      BY <1>3 DEF Enter, AcquireLock
    <2>2. pc \in Pc /\ pc \notin DispatchPc
      BY DEF Pc, LockedPc, DispatchPc
    <2> QED BY <1>2, <2>1, <2>2
  <1>4. ASSUME NEW e \in Event, CreateEvent(e) \/ SignalEvent(e) \/ CloseEvent(e) PROVE NInv'
    <2>1. e \in ValidEvent /\ (Enter("create", e) \/ Enter("signal", e) \/ Enter("close", e))
      BY <1>1, <1>4 DEF CreateEvent, SignalEvent, CloseEvent, MayClose, MayUse, ValidEvent
    <2> QED BY <1>3, <2>1
  <1>5. ASSUME NEW e \in Event, CheckEvent(e) PROVE NInv'
    <2>1. e \in ValidEvent /\ Push(Mk("test", TPL, 0, e)) /\ TPL' = TPL
      BY <1>1, <1>5 DEF CheckEvent, MayUse
    <2>2. "test" \in Pc /\ "test" \notin DispatchPc
      BY DEF Pc, DispatchPc
    <2> QED BY <1>2, <2>1, <2>2
  <1>6. ASSUME NEW s \in 0 .. EVT_EFI_SIGNAL_MAX - 1, RtNotifySignalList(s) PROVE NInv'
    <2> DEFINE q == EventSignalQueue[s]
               e == IF q = <<>> THEN NoEvent ELSE Head(q)
    <2>1. Push(Mk("list", TPL, s, e)) /\ TPL' = TPL_HIGH_LEVEL
      BY <1>6 DEF RtNotifySignalList, AcquireLock
    <2>2. q \in Seq(ValidEvent) /\ s \in Nat
      BY DEF IInv, GlobalsType, ListsType, EVT_EFI_SIGNAL_MAX
    <2>3. e \in ValidEvent \cup {NoEvent}
      BY <2>2
    <2>4. "list" \in Pc /\ "list" \notin DispatchPc
      BY DEF Pc, LockedPc, DispatchPc
    <2> HIDE DEF e, q
    <2> QED BY <1>2, <2>1, <2>2, <2>3, <2>4
  <1>7. CASE WaitForEvent
    <2>1. Push(Mk("wait", TPL, 1, NoEvent)) /\ TPL' = TPL
      BY <1>7 DEF WaitForEvent
    <2>2. "wait" \in Pc /\ "wait" \notin DispatchPc
      BY DEF Pc, DispatchPc
    <2> QED BY <1>2, <2>1, <2>2
  <1> QED BY <1>4, <1>5, <1>6, <1>7

\* The bodies of the services, which run with the lock held.
LEMMA BodiesN ==
    ASSUME IInv, IInv', NInv, rereads' = rereads,
           CreateBody \/ SignalBody \/ ListStep \/ CloseBody \/ CloseFree \/ CheckRequeue \/ CheckConsume
    PROVE  NInv'
  <1>1. TPL \in Level /\ TPL' = TPL /\ TPL' \in Level
    BY DEF IInv, GlobalsType, CreateBody, SignalBody, ListStep, CloseBody, CloseFree, CheckRequeue,
           CheckConsume, ReleaseLock
  <1>2. ASSUME stack # <<>>, top.pc \in LockedPc, top.pc # "popping"
        PROVE  /\ Released \in Frame /\ AboveCaller(Released, rereads) /\ Released.tpl = top.tpl
               /\ (Kept(Released.tpl, rereads) => Released.tpl <= TPL') /\ top.tpl <= Released.tpl
    <2>1. Released \in Frame /\ Released.pc = "check" /\ Released.tpl = top.tpl
      BY <1>2, ReleasedFacts
    <2> HIDE DEF Released
    <2>2. top.tpl \in Nat /\ (Kept(top.tpl, rereads) => top.tpl <= TPL)
      BY <1>2, TopLevel
    <2> QED BY <1>1, <2>1, <2>2, OtherPc DEF DispatchPc
  <1>3. ASSUME stack # <<>>, top.pc \in LockedPc, top.pc # "popping", Become(Released)
        PROVE  NInv'
    BY <1>1, <1>2, <1>3, BecomeN
  <1>4. ASSUME stack # <<>>, top.pc \in LockedPc, top.pc # "popping",
               NEW f \in Frame, BecomeUnder(f, Released), f.tpl = top.tpl, f.pc \notin DispatchPc
        PROVE  NInv'
    BY <1>1, <1>2, <1>4, OtherPc, UnderN
  <1>5. CASE CreateBody \/ SignalBody
    <2>1. stack # <<>> /\ top.pc \in {"create", "signal"} /\ Become(Released)
      BY <1>5 DEF CreateBody, SignalBody, At
    <2> QED BY <1>3, <2>1 DEF LockedPc
  <1>6. CASE ListStep
    <2> DEFINE e == top.ev
               q == EventSignalQueue[top.prio]
               s == Succ(q, e)
               f == [top EXCEPT !.ev = s]
    <2>1. stack # <<>> /\ top.pc = "list" /\ ((e # NoEvent /\ Become(f)) \/ Become(Released))
      BY <1>6 DEF ListStep, At
    <2>2. CASE Become(Released)
      BY <1>3, <2>1, <2>2 DEF LockedPc
    <2>3. CASE e # NoEvent /\ Become(f)
      <3>1. q \in Seq(ValidEvent) /\ InList(q, e) /\ top \in Frame
        BY <2>1, <2>3, TopFrame DEF FrameOK, TopOK, IInv, GlobalsType, ListsType
      <3>2. s \in ValidEvent \cup {NoEvent}
        BY <3>1, SuccFacts
      <3> HIDE DEF s
      <3>3. f \in Frame /\ f.tpl = top.tpl /\ f.pc = "list"
        BY <2>1, <3>1, <3>2 DEF Frame
      <3> HIDE DEF f
      <3>4. (Kept(top.tpl, rereads) => top.tpl <= TPL) /\ AboveCaller(f, rereads)
        BY <2>1, <3>3, TopLevel, OtherPc DEF DispatchPc
      <3> QED BY <1>1, <2>1, <2>3, <3>3, <3>4, BecomeN
    <2> QED BY <2>1, <2>2, <2>3
  <1>7. CASE CloseBody
    <2> DEFINE f == Mk("free", top.tpl, 0, top.ev)
    <2>1. stack # <<>> /\ top.pc = "close" /\ BecomeUnder(f, Released)
      BY <1>7 DEF CloseBody, At
    <2>2. top.tpl \in Level /\ top.ev \in ValidEvent
      BY <2>1, TopFrame DEF Frame, FrameOK
    <2>3. f \in Frame /\ f.tpl = top.tpl /\ f.pc = "free"
      BY <2>2 DEF Mk, Frame, Pc
    <2> HIDE DEF f
    <2> QED BY <1>4, <2>1, <2>3 DEF LockedPc, DispatchPc
  <1>8. CASE CloseFree
    <2>1. stack # <<>> /\ Pop
      BY <1>8 DEF CloseFree, At
    <2> QED BY <1>1, <2>1, TopLevel, PopN
  <1>9. CASE CheckRequeue
    <2> DEFINE f == [top EXCEPT !.pc = "retest"]
    <2>1. stack # <<>> /\ top.pc = "requeue" /\ BecomeUnder(f, Released)
      BY <1>9 DEF CheckRequeue, At
    <2>2. f \in Frame /\ f.tpl = top.tpl /\ f.pc = "retest"
      BY <2>1, MoveFacts DEF Pc
    <2> HIDE DEF f
    <2> QED BY <1>4, <2>1, <2>2 DEF LockedPc, DispatchPc
  <1>10. CASE CheckConsume
    <2> DEFINE ready == SignalCount[top.ev] > 0
               s == Caller(ready)
    <2>1. stack # <<>> /\ top.pc = "consume" /\ stack' = Append(s, Released)
      BY <1>10 DEF CheckConsume, At
    <2>2. StackType /\ StackInv /\ ready \in BOOLEAN /\ top.tpl \in Level /\ top.tpl <= top.tpl
      BY <2>1, TopLevel DEF IInv, GlobalsType
    <2> HIDE DEF ready
    <2>3. s \in Seq(Frame)
      BY <2>1, <2>2, CallerFacts DEF RestorePc
    <2>4. Ascending(s, top.tpl, rereads)
      BY <2>1, <2>2, AscendCaller DEF NInv
    <2> HIDE DEF s
    <2>5. /\ Released \in Frame /\ AboveCaller(Released, rereads) /\ Released.tpl = top.tpl
          /\ (Kept(Released.tpl, rereads) => Released.tpl <= TPL') /\ top.tpl <= Released.tpl
      BY <1>2, <2>1 DEF LockedPc
    <2>6. Ascending(stack', TPL', rereads)
      BY <1>1, <2>1, <2>2, <2>3, <2>4, <2>5, AscendPush
    <2> QED BY <2>6 DEF NInv
  <1> QED BY <1>5, <1>6, <1>7, <1>8, <1>9, <1>10

\* CheckEvent and WaitForEvent between their locked sections.
LEMMA ChecksN ==
    ASSUME IInv, IInv', NInv, rereads' = rereads, CheckTest \/ CheckRetest \/ WaitPoll \/ WaitReturn
    PROVE  NInv'
  <1>1. TPL \in Level /\ TPL' \in Level
    BY DEF IInv, GlobalsType
  <1>2. {"requeue", "retest", "consume", "waiting", "test"} \subseteq Pc \ DispatchPc
    BY DEF Pc, LockedPc, DispatchPc
  <1>3. ASSUME stack # <<>>, NEW pc \in Pc \ DispatchPc, Become([top EXCEPT !.pc = pc]),
               TPL' = TPL \/ TPL' = TPL_HIGH_LEVEL
        PROVE  NInv'
    BY <1>3, MoveN
  <1>4. CASE CheckTest
    <2>1. /\ stack # <<>> /\ (TPL' = TPL \/ TPL' = TPL_HIGH_LEVEL)
          /\ Become([top EXCEPT !.pc = "requeue"]) \/ Become([top EXCEPT !.pc = "retest"])
      BY <1>4 DEF CheckTest, At, AcquireLock
    <2> QED BY <1>2, <1>3, <2>1
  <1>5. CASE CheckRetest
    <2>1. /\ stack # <<>> /\ (TPL' = TPL \/ TPL' = TPL_HIGH_LEVEL)
          /\ Become([top EXCEPT !.pc = "consume"]) \/ (stack' = Caller(FALSE) /\ TPL' = TPL)
      BY <1>5 DEF CheckRetest, At, AcquireLock
    <2>2. CASE Become([top EXCEPT !.pc = "consume"])
      BY <1>2, <1>3, <2>1, <2>2
    <2>3. CASE stack' = Caller(FALSE) /\ TPL' = TPL
      <3>1. StackType /\ (Kept(top.tpl, rereads) => top.tpl <= TPL')
        BY <2>1, <2>3, TopLevel DEF IInv, GlobalsType
      <3>2. Ascending(stack', TPL', rereads)
        BY <1>1, <2>1, <2>3, <3>1, AscendCaller DEF NInv
      <3> QED BY <3>2 DEF NInv
    <2> QED BY <2>1, <2>2, <2>3
  <1>6. CASE WaitReturn
    <2>1. stack # <<>> /\ Pop /\ TPL' = TPL
      BY <1>6 DEF WaitReturn, At
    <2> QED BY <1>1, <2>1, TopLevel, PopN
  <1>7. CASE WaitPoll
    <2> DEFINE e == WaitList[top.prio]
               f == [top EXCEPT !.pc = "waiting"]
               g == Mk("test", top.tpl, 0, e)
    <2>1. stack # <<>> /\ top.pc = "wait" /\ TPL' = TPL /\ (Pop \/ BecomeUnder(f, g))
      BY <1>7 DEF WaitPoll, At
    <2>2. top.tpl \in Level /\ top.tpl \in Nat /\ (Kept(top.tpl, rereads) => top.tpl <= TPL')
      BY <2>1, TopLevel
    <2>3. CASE Pop
      BY <1>1, <2>1, <2>2, <2>3, PopN
    <2>4. CASE BecomeUnder(f, g)
      <3>1. e \in ValidEvent
        BY <2>1, TopFrame, EventAssumption DEF FrameOK
      <3> HIDE DEF e
      <3>2. f \in Frame /\ f.pc = "waiting" /\ f.tpl = top.tpl
        BY <1>2, <2>1, MoveFacts
      <3>3. g \in Frame /\ g.pc = "test" /\ g.tpl = top.tpl
        BY <2>2, <3>1 DEF Mk, Frame, Pc
      <3> HIDE DEF f, g
      <3>4. AboveCaller(f, rereads) /\ AboveCaller(g, rereads)
        BY <1>2, <3>2, <3>3, OtherPc
      <3>5. f.tpl <= g.tpl /\ (Kept(g.tpl, rereads) => g.tpl <= TPL')
        BY <2>2, <3>2, <3>3
      <3> QED BY <1>1, <2>1, <2>4, <3>2, <3>3, <3>4, <3>5, UnderN
    <2> QED BY <2>1, <2>3, <2>4
  <1> QED BY <1>4, <1>5, <1>6, <1>7

\* Every step keeps the levels on the stack in order.
LEMMA NextN ==
    IInv /\ IInv' /\ NInv /\ [Next]_vars => NInv'
  <1> SUFFICES ASSUME IInv, IInv', NInv, [Next]_vars PROVE NInv'
    OBVIOUS
  <1>0. rereads' = rereads
    BY BuildKept
  <1>1. CASE Kernel
    BY <1>0, <1>1, LevelsN, DispatcherN, BodiesN, ChecksN DEF Kernel
  <1>2. CASE User
    BY <1>0, <1>2, LevelsN, CallsN DEF User
  <1>3. CASE Leave
    BY <1>0, <1>3, LevelsN, DispatcherN DEF Leave
  <1>4. CASE Interrupt
    BY <1>0, <1>4, TickN DEF Interrupt
  <1>5. CASE UNCHANGED vars
    BY <1>5 DEF vars, NInv
  <1> QED BY <1>1, <1>2, <1>3, <1>4, <1>5 DEF Next

\* User code that calls or is interrupted continues at its own level, and the
\* dispatcher that runs above it is above that level.
LEMMA NestsFromLevels == IInv /\ NInv => NotifyNests
  <1> SUFFICES ASSUME IInv, NInv, NEW i \in 1..Len(stack), NEW j \in 1..Len(stack),
                      i < j, Runs(stack[i]), stack[j].pc = "notify", Nested(stack[i].prio)
               PROVE  stack[i].prio < stack[j].prio
    BY DEF NotifyNests
  <1>1. i \in 1 .. Len(stack) - 1 /\ i + 1 \in 1..Len(stack) /\ i + 1 <= j /\ Len(stack) \in Nat
    BY DEF IInv, GlobalsType, StackType
  <1>2. Suspended(stack[i], stack[i + 1])
    BY <1>1 DEF IInv, StackInv
  <1>3. stack[i + 1].tpl = stack[i].prio
    BY <1>2 DEF Suspended, LevelOK, Runs
  <1>4. stack[i].prio \in Nat /\ stack[j].tpl \in Nat /\ stack[j].prio \in Nat
    BY FrameLevels DEF IInv, GlobalsType, StackType
  <1>5. Kept(stack[i + 1].tpl, rereads)
    BY <1>3 DEF Nested, Kept
  <1>6. stack[i + 1].tpl <= stack[j].tpl
    BY <1>1, <1>5 DEF NInv, Ascending
  <1>7. Kept(stack[j].tpl, rereads)
    BY <1>3, <1>4, <1>5, <1>6, KeptUp
  <1>8. stack[j].tpl < stack[j].prio
    BY <1>7 DEF NInv, Ascending, AboveCaller, DispatchPc
  <1> QED BY <1>3, <1>4, <1>6, <1>8

\* Notify functions and raised sections nest at strictly increasing levels: at
\* every level in a build whose RestoreTPL reads EventPending once, and from
\* TPL_HIGH_LEVEL - 1 up in a build that reads it again.
THEOREM NestedLevels == Spec => []NotifyNests
  <1>1. Init => NInv
    <2> SUFFICES ASSUME Init PROVE NInv
      OBVIOUS
    <2>1. stack = <<>> /\ Len(stack) = 0 /\ rereads \in BOOLEAN
      BY ConstAssumption DEF Init
    <2> QED BY <2>1 DEF NInv, Ascending
  <1>2. IInv /\ IInv' /\ NInv /\ [Next]_vars => NInv'
    BY NextN
  <1> QED BY <1>1, <1>2, NestsFromLevels, Invariance, PTL DEF Spec

=============================================================================
