------------------------------- MODULE Timers -------------------------------
(***************************************************************************)
(* Timer events: COREFW/fw/efi/exec/timer.c.                               *)
(*                                                                         *)
(* SetTimer and CheckTimers hold EfiTimerListLock, so they run at          *)
(* TPL_HIGH_LEVEL-1 and exclude each other: the module Exec shows that a   *)
(* notify function of that level never runs inside code that raised the    *)
(* TPL to it.  They are therefore one thread.  The timer interrupt runs at *)
(* TPL_HIGH_LEVEL and may come between any two of their steps; it reads    *)
(* the head of the timer list without EfiTimerListLock.  The module covers *)
(* the time before ExitBootServices, where EfiAtRuntime is FALSE.          *)
(***************************************************************************)
EXTENDS Integers, Sequences

CONSTANTS
    Event,          \* events created with EVT_TIMER
    NoEvent,
    Delay,          \* values that user code passes to SetTimer as TriggerTime
    Duration,       \* values the platform passes to FwTimerTick
    TimeMod,        \* 2^64: times are UINT64
    MaxTime         \* bound: the clock stops here, ticks go on

ASSUME TimeAssumption ==
    /\ TimeMod \in Nat \ {0}
    /\ MaxTime \in Nat /\ MaxTime < TimeMod
    /\ Delay \subseteq 0 .. TimeMod - 1
    /\ Duration \subseteq Nat
    /\ NoEvent \notin Event

Time == 0 .. TimeMod - 1

TimerType == {"Cancel", "Periodic", "Relative"}

VARIABLES
    EfiSystemTime,
    EfiTimerList,   \* events in ascending order of TriggerTime
    Timer,          \* Timer[e]: the TriggerTime and Period of e
    check,          \* EfiCheckTimerEvent is signalled: CheckTimers is due
    thread,         \* SetTimer or CheckTimers: where it is and its locals
    request         \* history: when and for how long e was last set, and how
                    \* often CheckTimers has signalled it since (counted up to
                    \* MaxTime + 1, one more than any timer may)

vars == <<EfiSystemTime, EfiTimerList, Timer, check, thread, request>>

-----------------------------------------------------------------------------
(* pc of the thread:                                                       *)
(*   idle     EfiTimerListLock is free                                     *)
(*   stamp    SetTimer, before it reads CurrentSystemTime                  *)
(*   insert   SetTimer, before InsertEventTimer                            *)
(*   kick     SetTimer, before the test of TriggerTime for zero            *)
(*   scan     CheckTimers, at the condition of its loop                    *)
(*   signal   CheckTimers, before SignalEvent(ev)                          *)
(*   rearm    CheckTimers, after SignalEvent(ev)                           *)
(*   requeue  CheckTimers, before InsertEventTimer                         *)

SetPc == {"stamp", "insert", "kick"}
CheckPc == {"scan", "signal", "rearm", "requeue"}

\* time is SetTimer's TriggerTime argument or CheckTimers' SystemTime.
Thread(pc, e, t) == [pc |-> pc, ev |-> e, time |-> t]

Goto(pc) == thread' = [thread EXCEPT !.pc = pc]

Idle == Thread("idle", NoEvent, 0)

Listed(list, e) == \E i \in 1 .. Len(list) : list[i] = e

\* Unlink e if it is linked.
Without(list, e) ==
    IF Listed(list, e)
    THEN LET k == CHOOSE i \in 1 .. Len(list) : list[i] = e
         IN  [i \in 1 .. Len(list) - 1 |-> IF i < k THEN list[i] ELSE list[i + 1]]
    ELSE list

\* Link e in front of the k-th entry.
With(list, e, k) ==
    [i \in 1 .. Len(list) + 1 |-> IF i < k THEN list[i] ELSE IF i = k THEN e ELSE list[i - 1]]

\* Mutant: the scan for the place skips the head.
Place_SkipsHead(e) ==
    LET later == {i \in 2 .. Len(EfiTimerList) : Timer[EfiTimerList[i]].TriggerTime > Timer[e].TriggerTime}
    IN  IF later = {} THEN Len(EfiTimerList) + 1
        ELSE CHOOSE i \in later : \A j \in later : i <= j

\* The first event with a later TriggerTime, or the end of the list.
Place(e) ==
    LET later == {i \in 1 .. Len(EfiTimerList) : Timer[EfiTimerList[i]].TriggerTime > Timer[e].TriggerTime}
    IN  IF later = {} THEN Len(EfiTimerList) + 1
        ELSE CHOOSE i \in later : \A j \in later : i <= j

InsertEventTimer(e) == EfiTimerList' = With(EfiTimerList, e, Place(e))

Armed(e) == Listed(EfiTimerList, e)

Expired(now) == EfiTimerList # <<>> /\ Timer[Head(EfiTimerList)].TriggerTime <= now

-----------------------------------------------------------------------------
Init ==
    /\ EfiSystemTime = 0
    /\ EfiTimerList = <<>>
    /\ Timer = [e \in Event |-> [TriggerTime |-> 0, Period |-> 0]]
    /\ check = FALSE
    /\ thread = Idle
    /\ request = [e \in Event |-> [type |-> "Cancel", start |-> 0, delay |-> 0, fired |-> 0]]

\* Mutant: the interrupt signals EfiCheckTimerEvent only for a timer that
\* expires at this very tick.
TickCheck_Exact(now) == EfiTimerList # <<>> /\ Timer[Head(EfiTimerList)].TriggerTime = now

TickCheck(now) == Expired(now)

Advanced(d) == IF EfiSystemTime + d > MaxTime THEN MaxTime ELSE EfiSystemTime + d

\* The interrupt runs to its end: it holds EfiSystemTimeLock at TPL_HIGH_LEVEL.
FwTimerTick(d) ==
    LET now == Advanced(d)
    IN  /\ EfiSystemTime' = now
        /\ check' = (check \/ TickCheck(now))
        /\ UNCHANGED <<EfiTimerList, Timer, thread, request>>

-----------------------------------------------------------------------------
(* SetTimer; CloseEvent begins with SetTimer(e, TimerCancel, 0). *)

\* Take the lock, unlink the timer and clear it.
SetTimer(e, type, t) ==
    /\ thread.pc = "idle"
    /\ EfiTimerList' = Without(EfiTimerList, e)
    /\ Timer' = [Timer EXCEPT ![e] = [TriggerTime |-> 0,
                                      Period |-> IF type = "Periodic" THEN t ELSE 0]]
    /\ thread' = IF type = "Cancel" THEN Idle ELSE Thread("stamp", e, t)
    /\ request' = [request EXCEPT ![e] = [type |-> type, start |-> EfiSystemTime,
                                          delay |-> t, fired |-> 0]]
    /\ UNCHANGED <<EfiSystemTime, check>>

SetStamp ==
    /\ thread.pc = "stamp"
    /\ Timer' = [Timer EXCEPT ![thread.ev].TriggerTime = (EfiSystemTime + thread.time) % TimeMod]
    /\ Goto("insert")
    /\ UNCHANGED <<EfiSystemTime, EfiTimerList, check, request>>

SetInsert ==
    /\ thread.pc = "insert"
    /\ InsertEventTimer(thread.ev)
    /\ Goto("kick")
    /\ UNCHANGED <<EfiSystemTime, Timer, check, request>>

\* A timer for now is not left to the next tick.  Then release the lock.
SetKick ==
    /\ thread.pc = "kick"
    /\ check' = (check \/ thread.time = 0)
    /\ thread' = Idle
    /\ UNCHANGED <<EfiSystemTime, EfiTimerList, Timer, request>>

-----------------------------------------------------------------------------
(* CheckTimers, the notify function of EfiCheckTimerEvent *)

\* DispatchEventNotifies clears the signal and calls it; it takes the lock and
\* reads CurrentSystemTime.
CheckTimers ==
    /\ thread.pc = "idle" /\ check
    /\ check' = FALSE
    /\ thread' = Thread("scan", NoEvent, EfiSystemTime)
    /\ UNCHANGED <<EfiSystemTime, EfiTimerList, Timer, request>>

\* Mutant: the timer that is not yet expired is taken as well.
ScanTakes_Any(now) == EfiTimerList # <<>>

ScanTakes(now) == Expired(now)

CheckScan ==
    /\ thread.pc = "scan"
    /\ IF ScanTakes(thread.time)
       THEN /\ thread' = Thread("signal", Head(EfiTimerList), thread.time)
            /\ EfiTimerList' = Without(EfiTimerList, Head(EfiTimerList))
       ELSE thread' = Idle /\ UNCHANGED EfiTimerList
    /\ UNCHANGED <<EfiSystemTime, Timer, check, request>>

CheckSignal ==
    /\ thread.pc = "signal"
    /\ request' = [request EXCEPT ![thread.ev].fired = IF @ > MaxTime THEN @ ELSE @ + 1]
    /\ Goto("rearm")
    /\ UNCHANGED <<EfiSystemTime, EfiTimerList, Timer, check>>

\* Mutant: the next trigger time is the time of this one.
NextTrigger_Same(old, period, now) == old

\* The next trigger time: one period on, or now if that has passed already.
NextTrigger(old, period, now) ==
    LET next == (old + period) % TimeMod
    IN  IF next <= now THEN now ELSE next

CheckRearm ==
    /\ thread.pc = "rearm"
    /\ LET old == Timer[thread.ev].TriggerTime
           period == Timer[thread.ev].Period
       IN  IF period # 0
           THEN /\ Timer' = [Timer EXCEPT ![thread.ev].TriggerTime =
                                 NextTrigger(old, period, thread.time)]
                /\ check' = (check \/ (old + period) % TimeMod <= thread.time)
                /\ Goto("requeue")
           ELSE Goto("scan") /\ UNCHANGED <<Timer, check>>
    /\ UNCHANGED <<EfiSystemTime, EfiTimerList, request>>

CheckRequeue ==
    /\ thread.pc = "requeue"
    /\ InsertEventTimer(thread.ev)
    /\ Goto("scan")
    /\ UNCHANGED <<EfiSystemTime, Timer, check, request>>

-----------------------------------------------------------------------------
Step ==
    \/ SetStamp \/ SetInsert \/ SetKick
    \/ CheckTimers \/ CheckScan \/ CheckSignal \/ CheckRearm \/ CheckRequeue

Next ==
    \/ \E d \in Duration : FwTimerTick(d)
    \/ \E e \in Event, type \in TimerType, t \in Delay : SetTimer(e, type, t)
    \/ Step

Spec == Init /\ [][Next]_vars

\* The code runs between interrupts, the interrupts keep coming, and user code
\* lets CheckTimers run between two calls of SetTimer.
FairSpec ==
    /\ Spec
    /\ WF_vars(Step) /\ SF_vars(CheckTimers)
    /\ WF_vars(\E d \in Duration : FwTimerTick(d))

-----------------------------------------------------------------------------
(* Properties *)

\* Type invariant of the timer fields of IEVENT and the globals of timer.c.
TypeOK ==
    /\ EfiSystemTime \in Time
    /\ EfiTimerList \in Seq(Event)
    /\ Timer \in [Event -> [TriggerTime : Time, Period : Time]]
    /\ check \in BOOLEAN
    /\ thread \in [pc : {"idle"} \cup SetPc \cup CheckPc, ev : Event \cup {NoEvent}, time : Time]
    /\ thread.pc \notin {"idle", "scan"} => thread.ev \in Event
    /\ request \in [Event -> [type : TimerType, start : Time, delay : Time, fired : Nat]]

\* EfiTimerList is sorted, holds an event once, and never the event that
\* SetTimer or CheckTimers is about to insert, even when an interrupt looks.
ListSorted ==
    /\ \A i, j \in 1 .. Len(EfiTimerList) :
          i < j => /\ EfiTimerList[i] # EfiTimerList[j]
                   /\ Timer[EfiTimerList[i]].TriggerTime <= Timer[EfiTimerList[j]].TriggerTime
    /\ thread.pc \in {"stamp", "insert", "signal", "rearm", "requeue"} => ~ Armed(thread.ev)

\* No timer is early: it fires after its delay, a one-shot timer fires once,
\* and a periodic timer has never fired more often than whole periods have
\* passed since it was set, also when CheckTimers catches up after a delay.
Punctual ==
    \A e \in Event :
        LET r == request[e]
            elapsed == EfiSystemTime - r.start
        IN  /\ r.fired > 0 => r.type # "Cancel" /\ r.delay <= elapsed
            /\ r.type = "Relative" => r.fired <= 1
            /\ r.type = "Periodic" /\ r.delay > 0 => r.fired * r.delay <= elapsed

\* A timer that has expired is taken from the list: no tick is overlooked.
ExpiredIsTaken ==
    \A e \in Event :
        (Armed(e) /\ Timer[e].TriggerTime <= EfiSystemTime) ~>
            ~ (Armed(e) /\ Timer[e].TriggerTime <= EfiSystemTime)

\* CheckTimers returns.
CheckEnds == (thread.pc \in CheckPc) ~> (thread.pc = "idle")

-----------------------------------------------------------------------------
(* The invariant of the proofs *)

\* No trigger time exceeds 64 bits.  The code has no test for it.
NoWrap == \A d \in Delay : MaxTime + d < TimeMod

InHand(e, pcs) == thread.ev = e /\ thread.pc \in pcs

\* A timer with a trigger time that has not been signalled yet.
Due(e) == Armed(e) \/ InHand(e, {"insert", "signal", "requeue"})

\* The trigger time of a timer that is due is late enough for the signals it
\* has had and the one to come; once it is signalled, for those it has had.
TriggersLate(e) ==
    LET r == request[e]
        T == Timer[e].TriggerTime
    IN  /\ r.start <= EfiSystemTime
        /\ r.delay \in Delay \cup {0}
        /\ Timer[e].Period = IF r.type = "Periodic" THEN r.delay ELSE 0
        /\ InHand(e, {"stamp"}) => r.type # "Cancel" /\ r.fired = 0 /\ r.delay = thread.time
        /\ Due(e) => /\ r.type # "Cancel" /\ r.start + r.delay <= T
                     /\ r.type = "Relative" => r.fired = 0
                     /\ r.type = "Periodic" => r.start + (r.fired + 1) * r.delay <= T
        /\ InHand(e, {"rearm"}) => /\ r.type # "Cancel" /\ r.start + r.delay <= T
                                   /\ r.type = "Periodic" => r.start + r.fired * r.delay <= T
        /\ InHand(e, {"signal", "rearm"}) => T <= thread.time

ClockInv ==
    /\ EfiSystemTime <= MaxTime
    /\ thread.pc \in CheckPc => thread.time <= EfiSystemTime

\* The inductive invariant that Punctual follows from.
IInv == TypeOK /\ ListSorted /\ ClockInv /\ (\A e \in Event : TriggersLate(e)) /\ Punctual
====
