-------------------------- MODULE MonotonicProofs --------------------------
(***************************************************************************)
(* Proofs about the monotonic counter, for every size of its low part, any *)
(* number of boots, with and without callers above TPL_CALLBACK and saves  *)
(* that fail.                                                              *)
(***************************************************************************)
EXTENDS Monotonic, TLAPS

-----------------------------------------------------------------------------
(* High and low parts *)

\* The low part has an even, positive number of values.
LEMMA LowIsPositive == Half \in Nat /\ Low \in Nat /\ Low > 0 /\ Half > 0 /\ Low = Half + Half
BY CountAssumption DEF Low

\* One more high part is at least Low more counts.
LEMMA ProductGrows ==
    ASSUME NEW a \in Int, NEW b \in Int, NEW c \in Nat, c > 0, a < b
    PROVE  a * c + c <= b * c
BY Z3

\* High(n) is the quotient: n lies between its multiple and the next.
LEMMA HighOf ==
    ASSUME NEW n \in Nat
    PROVE  High(n) \in Nat /\ High(n) * Low <= n /\ n < High(n) * Low + Low
<1> DEFINE L == Low
<1>1. L \in Nat /\ L > 0 BY LowIsPositive
<1>2. n \div L \in Nat /\ (n \div L) * L <= n /\ n < (n \div L) * L + L
  <2> HIDE DEF L
  <2> QED BY <1>1
<1> QED BY <1>2 DEF High

\* The most significant bit is a bit.
LEMMA MsbOf ==
    ASSUME NEW n \in Nat
    PROVE  Msb(n) \in {0, 1}
<1> DEFINE L == Low
<1>1. L \in Nat /\ L > 0 /\ L = Half + Half /\ Half \in Nat /\ Half > 0 BY LowIsPositive
<1>2. n % L \in 0 .. L - 1
  <2> HIDE DEF L
  <2> QED BY <1>1
<1>3. \A x \in 0 .. L - 1 : x \div Half \in {0, 1}
  <2> HIDE DEF L
  <2> QED BY <1>1, Z3
<1> QED BY <1>2, <1>3 DEF Msb

\* Where a high part starts: the low part is 0.
LEMMA StartOfHigh ==
    ASSUME NEW h \in Nat
    PROVE  h * Low \in Nat /\ (h * Low) % Low = 0 /\ Msb(h * Low) = 0 /\ High(h * Low) = h
<1> DEFINE L == Low
           n == h * L
           q == n \div L
<1>1. L \in Nat /\ L > 0 /\ L = Half + Half /\ Half \in Nat /\ Half > 0 BY LowIsPositive
<1>2. n \in Nat
  <2> HIDE DEF L
  <2> QED BY <1>1, Z3
<1>3. q \in Nat /\ q * L <= n /\ n < q * L + L
  BY <1>2, HighOf DEF High
<1>4. n % L = n - q * L
  <2> HIDE DEF L, n
  <2> QED BY <1>1, <1>2, Z3 DEF q
<1>5. q = h
  <2>1. ~ (q < h)
    <3> HIDE DEF L, q
    <3> QED BY <1>1, <1>3, ProductGrows
  <2>2. ~ (h < q)
    <3> HIDE DEF L, q
    <3> QED BY <1>1, <1>3, ProductGrows
  <2> HIDE DEF L, q
  <2> QED BY <2>1, <2>2, <1>3
<1>6. n % L = 0
  <2> HIDE DEF L
  <2> QED BY <1>2, <1>4, <1>5
<1>7. 0 \div Half = 0 BY <1>1
<1> QED BY <1>2, <1>5, <1>6, <1>7 DEF Msb, High

\* High parts are ordered as the counts are.
LEMMA BelowNextHigh ==
    ASSUME NEW n \in Nat, NEW h \in Nat
    PROVE  /\ h * Low <= n => h <= High(n)
           /\ n < (h + 1) * Low => High(n) <= h
           /\ n < (High(n) + 1) * Low
<1>1. Low \in Nat /\ Low > 0 BY LowIsPositive
<1>2. High(n) \in Nat /\ High(n) * Low <= n /\ n < High(n) * Low + Low BY HighOf
<1>3. ASSUME h * Low <= n, High(n) < h PROVE FALSE
  <2>1. High(n) * Low + Low <= h * Low BY <1>1, <1>2, <1>3, ProductGrows
  <2> QED BY <1>1, <1>2, <1>3, <2>1
<1>4. ASSUME n < (h + 1) * Low, h < High(n) PROVE FALSE
  <2>1. h * Low + Low <= High(n) * Low BY <1>1, <1>2, <1>4, ProductGrows
  <2>2. (h + 1) * Low = h * Low + Low BY <1>1
  <2> QED BY <1>1, <1>2, <1>4, <2>1, <2>2
<1>5. (High(n) + 1) * Low = High(n) * Low + Low BY <1>1, <1>2
<1> QED BY <1>2, <1>3, <1>4, <1>5

\* The first counts of high parts are in their order.
LEMMA ProductMonotone ==
    ASSUME NEW a \in Int, NEW b \in Int, a <= b
    PROVE  a * Low \in Int /\ b * Low \in Int /\ a * Low <= b * Low
<1>1. Low \in Nat /\ Low > 0 BY LowIsPositive
<1>2. CASE a = b BY <1>1, <1>2
<1>3. CASE a < b
  <2>1. a * Low + Low <= b * Low BY <1>1, <1>3, ProductGrows
  <2> QED BY <1>1, <2>1
<1> QED BY <1>2, <1>3

\* The counts of one high part end before the next begins.
LEMMA ProductStrict ==
    ASSUME NEW a \in Int, NEW b \in Int, a < b
    PROVE  a * Low \in Int /\ b * Low \in Int /\ a * Low < b * Low /\ (a + 1) * Low <= b * Low
<1>1. Low \in Nat /\ Low > 0 BY LowIsPositive
<1>2. a * Low + Low <= b * Low BY <1>1, ProductGrows
<1>3. (a + 1) * Low = a * Low + Low BY <1>1
<1> QED BY <1>1, <1>2, <1>3

-----------------------------------------------------------------------------

\* The first boot establishes the invariant.
LEMMA InitIInv == Init => IInv
<1> SUFFICES ASSUME Init PROVE IInv OBVIOUS
<1>0. Low \in Nat /\ Low > 0 /\ MaxHigh \in Nat /\ MaxHigh >= 1
  BY LowIsPositive, CountAssumption
<1>1. 1 * Low = Low /\ 0 * Low = 0 /\ (0 + 1) * Low = Low BY <1>0
<1>2. Low < (MaxHigh + 1) * Low /\ (MaxHigh + 1) * Low \in Int
  BY <1>0, <1>1, ProductStrict
<1>3. TypeOK
  <2>1. prev \in [Caller -> -1 .. (MaxHigh + 1) * Low] BY <1>0, <1>2 DEF Init
  <2>2. /\ MTC = 0 /\ EfiMtc = Low /\ HighCount = 1 /\ saving = "boot" /\ EfiAtRuntime = FALSE
        /\ signalled = FALSE /\ lastCount = -1 /\ lastHigh = -1
    BY DEF Init
  <2>3. EfiAtRuntime \in BOOLEAN /\ signalled \in BOOLEAN BY <2>2
  <2> QED BY <1>0, <1>2, <2>1, <2>2, <2>3 DEF TypeOK
<1>4. CountsBelow BY <1>0, <1>1, <1>2 DEF Init, CountsBelow
<1>5. SavesNewHigh BY <1>0, <1>1 DEF Init, SavesNewHigh
<1>6. ToggleSeen BY <1>1, StartOfHigh DEF Init, ToggleSeen
<1> QED BY <1>3, <1>4, <1>5, <1>6 DEF IInv

\* What the invariant says of the numbers in a state.
NumbersOK ==
    /\ Low \in Nat /\ Low > 0 /\ MaxHigh \in Nat /\ MaxHigh >= 1
    /\ EfiMtc \in Nat /\ MTC \in Nat /\ MTC <= MaxHigh
    /\ HighCount \in Nat /\ HighCount <= MaxHigh
    /\ (MaxHigh + 1) * Low \in Nat /\ (MTC + 1) * Low \in Nat /\ MTC * Low \in Nat
    /\ lastCount \in Int /\ lastCount >= -1 /\ lastHigh \in Int /\ lastHigh >= -1
    /\ High(EfiMtc) \in Nat /\ MTC <= High(EfiMtc) /\ High(EfiMtc) <= MaxHigh
    /\ EfiMtc < (High(EfiMtc) + 1) * Low

\* The invariant gives the numbers their ranges.
LEMMA Numbers == IInv => NumbersOK
<1> SUFFICES ASSUME IInv PROVE NumbersOK OBVIOUS
<1>0. Low \in Nat /\ Low > 0 /\ MaxHigh \in Nat /\ MaxHigh >= 1
  BY LowIsPositive, CountAssumption
<1>1. (MaxHigh + 1) * Low \in Nat BY <1>0, StartOfHigh
<1>2. EfiMtc \in Nat /\ MTC \in Nat /\ MTC <= MaxHigh /\ HighCount \in Nat /\ HighCount <= MaxHigh
      /\ lastCount \in Int /\ lastCount >= -1 /\ lastHigh \in Int /\ lastHigh >= -1
  BY <1>0, <1>1 DEF IInv, TypeOK
<1>3. (MTC + 1) * Low \in Nat /\ MTC * Low \in Nat BY <1>0, <1>2, StartOfHigh
<1>4. MTC * Low <= EfiMtc /\ EfiMtc < (MaxHigh + 1) * Low BY DEF IInv, CountsBelow
<1>5. High(EfiMtc) \in Nat BY <1>2, HighOf
<1>6. MTC <= High(EfiMtc) /\ High(EfiMtc) <= MaxHigh /\ EfiMtc < (High(EfiMtc) + 1) * Low
  BY <1>0, <1>2, <1>4, BelowNextHigh
<1> QED BY <1>0, <1>1, <1>2, <1>3, <1>5, <1>6 DEF NumbersOK

\* GetNextMonotonicCount under EventQueueLock.
LEMMA GetNextIInv ==
    ASSUME IInv, NEW c \in Caller, GetNextMonotonicCount(c)
    PROVE  IInv'
<1>0. NumbersOK BY Numbers
<1> USE <1>0 DEF NumbersOK
<1>1. EfiMtc + 1 < (MaxHigh + 1) * Low
  <2>1. EfiMtc + 1 # (MaxHigh + 1) * Low
    BY StartOfHigh, MaxHigh + 1 \in Nat DEF GetNextMonotonicCount
  <2>2. EfiMtc < (MaxHigh + 1) * Low BY DEF IInv, CountsBelow
  <2> QED BY <2>1, <2>2
<1>2. TypeOK'
  <2>1. prev' \in [Caller -> -1 .. (MaxHigh + 1) * Low]
    BY <1>1 DEF IInv, TypeOK, GetNextMonotonicCount
  <2> QED BY <1>1, <2>1 DEF IInv, TypeOK, GetNextMonotonicCount
<1>3. CountsBelow'
  <2>1. High(EfiMtc) <= MTC => (High(EfiMtc) + 1) * Low <= (MTC + 1) * Low
    BY ProductMonotone, High(EfiMtc) + 1 \in Int, MTC + 1 \in Int
  <2>2. (High(EfiMtc) + 1) * Low \in Nat BY StartOfHigh, High(EfiMtc) + 1 \in Nat
  <2> QED BY <1>1, <2>1, <2>2 DEF IInv, CountsBelow, GetNextMonotonicCount
<1>4. SavesNewHigh'
  <2>1. HighCount * Low \in Nat BY StartOfHigh
  <2> QED BY <2>1 DEF IInv, SavesNewHigh, GetNextMonotonicCount
<1>5. ToggleSeen'
  <2>1. prev' = [prev EXCEPT ![c] = EfiMtc] /\ prev[c] = -1 /\ signalled' = signalled
    BY DEF GetNextMonotonicCount
  <2>2. prev \in [Caller -> -1 .. (MaxHigh + 1) * Low] BY DEF IInv, TypeOK
  <2>3. CASE Msb(EfiMtc) = 0
    <3>1. prev'[c] = EfiMtc BY <2>1, <2>2
    <3>2. prev'[c] # -1 /\ Msb(prev'[c]) = 0 BY <2>3, <3>1
    <3> QED BY <3>2 DEF ToggleSeen
  <2>4. CASE signalled BY <2>1, <2>4 DEF ToggleSeen
  <2>5. ASSUME NEW d \in Caller, prev[d] # -1, Msb(prev[d]) = 0 PROVE ToggleSeen'
    <3>1. prev'[d] = prev[d] BY <2>1, <2>2, <2>5
    <3>2. prev'[d] # -1 /\ Msb(prev'[d]) = 0 BY <2>5, <3>1
    <3> QED BY <3>2 DEF ToggleSeen
  <2> QED BY <2>3, <2>4, <2>5 DEF IInv, ToggleSeen
<1> QED BY <1>2, <1>3, <1>4, <1>5 DEF IInv

\* The second read of EfiMtc: only the caller that took its count in the
\* lower half may stop being the witness, and it then queues the event.
LEMMA TestToggleIInv ==
    ASSUME IInv, NEW c \in Caller, TestToggle(c)
    PROVE  IInv'
<1>0. NumbersOK BY Numbers
<1> USE <1>0 DEF NumbersOK
<1>1. TypeOK'
  <2>1. prev' \in [Caller -> -1 .. (MaxHigh + 1) * Low]
    BY DEF IInv, TypeOK, TestToggle
  <2>2. signalled' \in BOOLEAN BY DEF IInv, TypeOK, TestToggle, Toggled
  <2> QED BY <2>1, <2>2 DEF IInv, TypeOK, TestToggle
<1>2. CountsBelow' /\ SavesNewHigh' BY DEF IInv, CountsBelow, SavesNewHigh, TestToggle
<1>3. ToggleSeen'
  <2>1. /\ prev' = [prev EXCEPT ![c] = -1] /\ EfiMtc' = EfiMtc
        /\ signalled' = (signalled \/ Msb(EfiMtc) # Msb(prev[c]))
    BY DEF TestToggle, Toggled
  <2>2. prev \in [Caller -> -1 .. (MaxHigh + 1) * Low] BY DEF IInv, TypeOK
  <2>3. CASE Msb(EfiMtc) = 0
    <3>1. Msb(EfiMtc') = 0 BY <2>1, <2>3
    <3> QED BY <3>1 DEF ToggleSeen
  <2>4. CASE signalled BY <2>1, <2>4 DEF ToggleSeen
  <2>5. ASSUME NEW d \in Caller, prev[d] # -1, Msb(prev[d]) = 0, Msb(EfiMtc) # 0 PROVE ToggleSeen'
    <3>1. CASE d = c
      <4>1. signalled' BY <2>1, <2>5, <3>1
      <4> QED BY <4>1 DEF ToggleSeen
    <3>2. CASE d # c
      <4>1. prev'[d] = prev[d] BY <2>1, <2>2, <3>2
      <4>2. prev'[d] # -1 /\ Msb(prev'[d]) = 0 BY <2>5, <4>1
      <4> QED BY <4>2 DEF ToggleSeen
    <3> QED BY <3>1, <3>2
  <2> QED BY <2>3, <2>4, <2>5 DEF IInv, ToggleSeen
<1> QED BY <1>1, <1>2, <1>3 DEF IInv

\* EfiMtcEventHandler moves to a high part that nobody has used.
LEMMA HandlerIInv ==
    ASSUME IInv, NEW who \in {"event", "call"}, EfiMtcEventHandler(who),
           who = "call" => EfiAtRuntime', signalled' \in BOOLEAN,
           UNCHANGED <<MTC, EfiAtRuntime, prev, lastCount, lastHigh>>
    PROVE  IInv'
<1>0. NumbersOK BY Numbers
<1> USE <1>0 DEF NumbersOK
<1> DEFINE h == High(EfiMtc) + 1
<1>1. h \in Nat /\ h <= MaxHigh /\ HighCount' = h /\ EfiMtc' = h * Low /\ saving' = who
  BY DEF EfiMtcEventHandler, NextHigh
<1>2. h * Low \in Nat /\ Msb(h * Low) = 0 BY <1>1, StartOfHigh
<1>3. h * Low < (MaxHigh + 1) * Low BY <1>1, ProductStrict, h < MaxHigh + 1, MaxHigh + 1 \in Int
<1>4. MTC * Low <= h * Low BY <1>1, ProductMonotone, MTC <= h
<1>5. EfiMtc < h * Low BY DEF h
<1> HIDE DEF h
<1>6. TypeOK' BY <1>1, <1>2, <1>3 DEF IInv, TypeOK
<1>7. CountsBelow' BY <1>1, <1>2, <1>3, <1>4, <1>5 DEF IInv, CountsBelow
<1>8. SavesNewHigh'
  <2>1. MTC < h BY <1>1 DEF h
  <2> QED BY <1>1, <1>2, <2>1 DEF SavesNewHigh
<1>9. ToggleSeen' BY <1>1, <1>2 DEF ToggleSeen
<1> QED BY <1>6, <1>7, <1>8, <1>9 DEF IInv

\* The saved high part covers all counts of EfiMtc and below.
LEMMA SaveIInv ==
    ASSUME IInv, NEW ok \in BOOLEAN, Save(ok)
    PROVE  IInv'
<1>0. NumbersOK BY Numbers
<1> USE <1>0 DEF NumbersOK
<1>1. MTC < HighCount /\ HighCount * Low <= EfiMtc /\ HighCount * Low \in Nat
  <2>1. HighCount * Low \in Nat BY StartOfHigh
  <2> QED BY <2>1 DEF IInv, SavesNewHigh, Save
<1>2. saving = "call" => High(EfiMtc) = HighCount
  BY StartOfHigh DEF IInv, SavesNewHigh
<1>3. (MTC + 1) * Low <= (HighCount + 1) * Low /\ (HighCount + 1) * Low \in Nat
  <2>1. (HighCount + 1) * Low \in Nat BY StartOfHigh, HighCount + 1 \in Nat
  <2>2. MTC + 1 <= HighCount + 1 /\ MTC + 1 \in Int /\ HighCount + 1 \in Int BY <1>1
  <2> QED BY <2>1, <2>2, ProductMonotone
<1>4. MTC' = MTC \/ MTC' = HighCount BY DEF Save
<1>5. lastHigh' = lastHigh \/ (lastHigh' = HighCount /\ MTC' = HighCount)
  BY <1>2 DEF Save, Succeeds
<1>6. TypeOK' BY <1>4, <1>5 DEF IInv, TypeOK, Save
<1>7. CountsBelow' BY <1>1, <1>3, <1>4, <1>5 DEF IInv, CountsBelow, Save
<1>8. SavesNewHigh' /\ ToggleSeen' BY DEF IInv, SavesNewHigh, ToggleSeen, Save
<1> QED BY <1>6, <1>7, <1>8 DEF IInv

\* After a power failure the counter starts above what was saved.
LEMMA PowerLossIInv ==
    ASSUME IInv, PowerLoss
    PROVE  IInv'
<1>0. NumbersOK BY Numbers
<1> USE <1>0 DEF NumbersOK
<1> DEFINE h == MTC + 1
<1>1. /\ h \in Nat /\ h <= MaxHigh /\ EfiMtc' = h * Low /\ HighCount' = h /\ saving' = "boot"
      /\ MTC' = MTC /\ lastCount' = lastCount /\ lastHigh' = lastHigh
      /\ EfiAtRuntime' = FALSE /\ signalled' = FALSE /\ prev' = [c \in Caller |-> -1]
  <2>1. High(MTC * Low) = MTC BY StartOfHigh
  <2> QED BY <2>1 DEF PowerLoss, Booted, NextHigh
<1>2. h * Low \in Nat /\ Msb(h * Low) = 0 BY <1>1, StartOfHigh
<1>3. h * Low < (MaxHigh + 1) * Low BY <1>1, ProductStrict, h < MaxHigh + 1, MaxHigh + 1 \in Int
<1>4. MTC * Low <= h * Low BY <1>1, ProductMonotone, MTC <= h
<1>5. MTC < h OBVIOUS
<1>6. lastCount < h * Low BY DEF IInv, CountsBelow
<1>7. lastHigh <= MTC BY DEF IInv, CountsBelow
<1>8. (MTC + 1) * Low = h * Low OBVIOUS
<1> HIDE DEF h
<1>9. TypeOK'
  <2>1. prev' \in [Caller -> -1 .. (MaxHigh + 1) * Low] BY <1>1
  <2>2. EfiAtRuntime' \in BOOLEAN /\ signalled' \in BOOLEAN BY <1>1
  <2>3. /\ EfiMtc' \in 0 .. (MaxHigh + 1) * Low /\ HighCount' \in 0 .. MaxHigh
        /\ saving' \in {"none", "event", "boot", "call"}
    BY <1>1, <1>2, <1>3
  <2>4. /\ MTC' \in 0 .. MaxHigh /\ lastCount' \in -1 .. (MaxHigh + 1) * Low
        /\ lastHigh' \in -1 .. MaxHigh
    BY <1>1 DEF IInv, TypeOK
  <2> QED BY <2>1, <2>2, <2>3, <2>4 DEF TypeOK
<1>10. CountsBelow' BY <1>1, <1>2, <1>3, <1>4, <1>6, <1>7, <1>8 DEF CountsBelow
<1>11. SavesNewHigh' BY <1>1, <1>2, <1>5 DEF SavesNewHigh
<1>12. ToggleSeen' BY <1>1, <1>2 DEF ToggleSeen
<1> QED BY <1>9, <1>10, <1>11, <1>12 DEF IInv

\* Every step preserves the invariant.
LEMMA NextIInv == IInv /\ [Next]_vars => IInv'
<1> SUFFICES ASSUME IInv, [Next]_vars PROVE IInv' OBVIOUS
<1>1. ASSUME NEW c \in Caller, GetNextMonotonicCount(c) PROVE IInv' BY <1>1, GetNextIInv
<1>2. ASSUME NEW c \in Caller, TestToggle(c) PROVE IInv' BY <1>2, TestToggleIInv
<1>3. CASE Dispatch BY <1>3, HandlerIInv DEF Dispatch
<1>4. CASE GetNextHighMonotonicCount
  <2>1. signalled' \in BOOLEAN BY <1>4 DEF IInv, TypeOK, GetNextHighMonotonicCount
  <2> QED BY <1>4, <2>1, HandlerIInv DEF GetNextHighMonotonicCount
<1>5. ASSUME NEW ok \in BOOLEAN, Save(ok) PROVE IInv' BY <1>5, SaveIInv
<1>6. CASE ExitBootServices
  <2>1. TypeOK' BY <1>6 DEF IInv, TypeOK, ExitBootServices
  <2>2. CountsBelow' /\ SavesNewHigh' /\ ToggleSeen'
    BY <1>6 DEF IInv, CountsBelow, SavesNewHigh, ToggleSeen, ExitBootServices
  <2> QED BY <2>1, <2>2 DEF IInv
<1>7. CASE PowerLoss BY <1>7, PowerLossIInv
<1>8. CASE UNCHANGED vars
  <2>1. TypeOK' BY <1>8 DEF IInv, TypeOK, vars
  <2>2. CountsBelow' /\ SavesNewHigh' /\ ToggleSeen'
    BY <1>8 DEF IInv, CountsBelow, SavesNewHigh, ToggleSeen, vars
  <2> QED BY <2>1, <2>2 DEF IInv
<1> QED BY <1>1, <1>2, <1>3, <1>4, <1>5, <1>6, <1>7, <1>8 DEF Next

-----------------------------------------------------------------------------
(* Theorems *)

\* The counter, its copy in NVRAM and everything that was handed out keep their
\* order in every reachable state.
THEOREM CounterInvariant == Spec => []IInv
BY InitIInv, NextIInv, PTL DEF Spec

\* The variables keep their types for every size of the low part.
THEOREM CounterTypes == Spec => []TypeOK
<1>1. IInv => TypeOK BY DEF IInv
<1> QED BY <1>1, CounterInvariant, PTL

\* The update of the high part is always queued before the low part can
\* overflow, whatever callers and handler interleave (mtc.c:137-150).
THEOREM UpdateIsQueued == Spec => []UpdateInTime
<1>1. IInv => UpdateInTime BY DEF IInv, ToggleSeen, UpdateInTime
<1> QED BY <1>1, CounterInvariant, PTL

\* A count is above all counts of this boot and of earlier ones that were taken when
\* their high part had been saved, over any number of boots and failed saves.  Of the
\* other counts it says nothing; a power failure lets them repeat (mtc.c:171-188).
THEOREM CountsIncrease == Spec => Increasing
<1>1. ASSUME IInv, [Next]_vars, NEW c \in Caller, prev[c] = -1, prev'[c] # -1
      PROVE  prev'[c] > lastCount
  <2>n. NumbersOK BY <1>1, Numbers
  <2> USE <2>n DEF NumbersOK
  <2>0. prev \in [Caller -> -1 .. (MaxHigh + 1) * Low] BY <1>1 DEF IInv, TypeOK
  <2>1. ASSUME NEW d \in Caller, GetNextMonotonicCount(d) PROVE prev'[c] > lastCount
    <3>1. prev' = [prev EXCEPT ![d] = EfiMtc] BY <2>1 DEF GetNextMonotonicCount
    <3>2. d = c BY <1>1, <2>0, <3>1
    <3>3. prev'[c] = EfiMtc BY <2>0, <3>1, <3>2
    <3>4. lastCount < EfiMtc BY <1>1 DEF IInv, CountsBelow
    <3> QED BY <3>3, <3>4
  <2>2. ASSUME NEW d \in Caller, TestToggle(d) PROVE FALSE
    <3>1. prev' = [prev EXCEPT ![d] = -1] BY <2>2 DEF TestToggle
    <3> QED BY <1>1, <2>0, <3>1
  <2>3. CASE PowerLoss BY <1>1, <2>3 DEF PowerLoss
  <2>4. ~ (UNCHANGED prev) BY <1>1
  <2> QED BY <1>1, <2>1, <2>2, <2>3, <2>4
       DEF Next, vars, Dispatch, GetNextHighMonotonicCount, Save, ExitBootServices
<1>2. IInv /\ [Next]_vars =>
        [\A c \in Caller : prev[c] = -1 /\ prev'[c] # -1 => prev'[c] > lastCount]_vars
  BY <1>1
<1> QED BY <1>2, CounterInvariant, PTL DEF Increasing, Spec

\* A high part returned with success is never returned again, whatever saves
\* failed and however often the power did (mtc.c:191-220).
THEOREM HighPartsIncrease == Spec => HighIncreasing
<1>1. ASSUME IInv, [Next]_vars, saving = "call", saving' = "none", lastHigh' = High(EfiMtc)
      PROVE  lastHigh' > lastHigh
  <2>n. NumbersOK BY <1>1, Numbers
  <2> USE <2>n DEF NumbersOK
  <2>1. lastHigh <= MTC /\ MTC < HighCount BY <1>1 DEF IInv, CountsBelow, SavesNewHigh
  <2>2. High(EfiMtc) = HighCount BY <1>1, StartOfHigh DEF IInv, SavesNewHigh
  <2> QED BY <1>1, <2>1, <2>2
<1>2. IInv /\ [Next]_vars =>
        [saving = "call" /\ saving' = "none" /\ lastHigh' = High(EfiMtc) => lastHigh' > lastHigh]_vars
  BY <1>1
<1> QED BY <1>2, CounterInvariant, PTL DEF HighIncreasing, Spec
====
