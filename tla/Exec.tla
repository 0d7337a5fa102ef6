-------------------------------- MODULE Exec --------------------------------
(***************************************************************************)
(* Task priority levels and events: COREFW/fw/efi/exec/{tpl,event}.c, the  *)
(* locks of LIB/Runtime/lock.c and the timer interrupt of the platform     *)
(* (PlDriver/cpu_timer/Ia32/cputimer.c).                                   *)
(*                                                                         *)
(* One processor, one call stack.  The code that runs is the code of the   *)
(* top frame; a timer interrupt pushes its own frames whenever interrupts  *)
(* are enabled.  A frame is cut wherever an interrupt can be observed: the *)
(* sections that run with EventQueueLock held are two steps (acquire, then *)
(* body and release), so that mutual exclusion is a property of the model  *)
(* and not of its granularity.                                             *)
(***************************************************************************)
EXTENDS Integers, Sequences

CONSTANTS
    Event, NoEvent,     \* event handles, and none
    Args,               \* Args[e]: the arguments CreateEvent gets for handle e
    EfiCheckTimerEvent, \* the event InitializeTimer creates
    Closable,           \* handles that user code creates and closes
    WaitList,           \* the UserEvents array passed to WaitForEvent
    RaiseLevels,        \* levels user code raises the TPL to
    TPL_APPLICATION, TPL_HIGH_LEVEL,
    Reread,             \* builds: does HighestSetBit read EventPending again
    MaxDepth            \* bound: no new call or interrupt above this depth

Flags == {"TIMER", "RUNTIME", "RUNTIME_CONTEXT", "NOTIFY_WAIT", "NOTIFY_SIGNAL"}

EVT_EFI_SIGNAL_MAX == 2

\* The low byte of Type is the signal list (EVT_EFI_SIGNAL_MASK); bits 0 and 1
\* of it survive the test for reserved flags.
CreateArgs == [flags : SUBSET Flags, sig : 0..3, tpl : Nat, fn : BOOLEAN]

ASSUME ConstAssumption ==
    /\ TPL_APPLICATION \in Nat /\ TPL_HIGH_LEVEL \in Nat
    /\ 0 < TPL_APPLICATION /\ TPL_APPLICATION + 1 < TPL_HIGH_LEVEL
    /\ Args \in [Event -> CreateArgs] /\ NoEvent \notin Event
    /\ EfiCheckTimerEvent \in Event \ Closable
    /\ Closable \subseteq Event
    /\ RaiseLevels \subseteq TPL_APPLICATION .. TPL_HIGH_LEVEL
    /\ Reread \subseteq BOOLEAN /\ Reread # {}
    /\ MaxDepth \in Nat

Level == 0 .. TPL_HIGH_LEVEL

VALID_TPL(t) == t <= TPL_HIGH_LEVEL

Is(e, f) == f \in Args[e].flags

HasNotify(e) == Is(e, "NOTIFY_WAIT") \/ Is(e, "NOTIFY_SIGNAL")

\* CreateEvent zeroes the notify arguments of an event without notification.
NotifyTpl(e) == IF HasNotify(e) THEN Args[e].tpl ELSE 0

\* What CreateEvent accepts.  EVT_SIGNAL_EXIT_BOOT_SERVICES is NOTIFY_SIGNAL
\* with bit 0 of the low byte, EVT_SIGNAL_VIRTUAL_ADDRESS_CHANGE is RUNTIME,
\* RUNTIME_CONTEXT and NOTIFY_SIGNAL with bit 1.
ExitBootArgs(e) == Is(e, "NOTIFY_SIGNAL") /\ Args[e].sig \in {1, 3}
VirtualArgs(e) == /\ {"RUNTIME", "RUNTIME_CONTEXT", "NOTIFY_SIGNAL"} \subseteq Args[e].flags
                  /\ Args[e].sig \in {2, 3}

ValidCreate(e) ==
    /\ ExitBootArgs(e) => Args[e].flags = {"NOTIFY_SIGNAL"} /\ Args[e].sig = 1
    /\ VirtualArgs(e) => /\ Args[e].flags = {"RUNTIME", "RUNTIME_CONTEXT", "NOTIFY_SIGNAL"}
                         /\ Args[e].sig = 2
    /\ HasNotify(e) => /\ ~ (Is(e, "NOTIFY_WAIT") /\ Is(e, "NOTIFY_SIGNAL"))
                       /\ Args[e].fn
                       /\ Args[e].tpl > TPL_APPLICATION
                       /\ VALID_TPL(Args[e].tpl)

\* InitializeTimer creates the check-timer event one level below the top, and
\* every handle the boot code created before the model starts is a valid one
\* that sits on no signal list.
ValidEvent == {e \in Event : ValidCreate(e)}

ASSUME EventAssumption ==
    /\ WaitList \in Seq(ValidEvent)
    /\ Args[EfiCheckTimerEvent].flags = {"NOTIFY_SIGNAL"}
    /\ Args[EfiCheckTimerEvent].tpl = TPL_HIGH_LEVEL - 1
    /\ \A e \in Event \ Closable : ValidCreate(e) /\ Args[e].sig = 0

VARIABLES
    TPL,                \* current task priority level
    IntEnabled,         \* processor interrupt flag
    EventQueueLock,     \* FLOCK: Lock count and OwnerTpl
    EventQueue,         \* per level, the events whose notification is due
    EventPending,       \* bit mask of the levels with due notifications
    EventSignalQueue,   \* per EFI signal type, the events to notify
    RuntimeEventList,   \* events created with EVT_RUNTIME
    SignalCount,        \* per event
    allocated,          \* events whose IEVENT structure is allocated
    stack,              \* call stack, the running frame last
    rereads             \* which of the two builds runs

vars == <<TPL, IntEnabled, EventQueueLock, EventQueue, EventPending,
          EventSignalQueue, RuntimeEventList, SignalCount, allocated, stack, rereads>>

lists == <<EventQueue, EventPending, EventSignalQueue, RuntimeEventList,
           SignalCount, allocated>>

-----------------------------------------------------------------------------
(* The call stack.  tpl is the TPL that the frame's caller runs at and     *)
(* pc says where in which function a frame is:                             *)
(*   raised    user code between RaiseTPL(prio) and RestoreTPL(tpl)        *)
(*   check     RestoreTPL(tpl), at the condition of its loop               *)
(*   select    in its loop, before TPL = HighestSetBit(EventPending)       *)
(*   dispatch  DispatchEventNotifies(prio), before AcquireLock             *)
(*   popping   DispatchEventNotifies(prio), EventQueueLock held            *)
(*   call      before the call of ev's NotifyFunction                      *)
(*   notify    in ev's NotifyFunction                                      *)
(*   lower     RestoreTPL(tpl) after its loop, before TPL = NewTpl         *)
(*   create, signal, close, list, requeue, consume                         *)
(*             a service holding EventQueueLock                            *)
(*   free      CloseEvent(ev), lock released, before FreePool              *)
(*   test      CheckEvent(ev), before its first test of SignalCount        *)
(*   retest    CheckEvent(ev), before its second test of SignalCount       *)
(*   wait      WaitForEvent, before CheckEvent(WaitList[prio])             *)
(*   waiting   WaitForEvent, in CheckEvent(WaitList[prio])                 *)
(*   ready     WaitForEvent, CheckEvent returned EFI_SUCCESS               *)

LockedPc == {"popping", "create", "signal", "close", "list", "requeue", "consume"}

Pc == LockedPc \cup {"raised", "check", "select", "dispatch", "call", "notify",
                     "lower", "free", "test", "retest", "wait", "waiting", "ready"}

Frame == [pc : Pc, tpl : Level, prio : Nat, ev : ValidEvent \cup {NoEvent}]

Mk(pc, tpl, prio, ev) == [pc |-> pc, tpl |-> tpl, prio |-> prio, ev |-> ev]

RestoreFrame(t) == Mk("check", t, 0, NoEvent)

top == stack[Len(stack)]

At(pc) == stack # <<>> /\ top.pc = pc

Push(f) == stack' = Append(stack, f)

Pop == stack' = SubSeq(stack, 1, Len(stack) - 1)

Become(f) == stack' = [stack EXCEPT ![Len(stack)] = f]

BecomeUnder(f, g) == stack' = Append([stack EXCEPT ![Len(stack)] = f], g)

\* User code runs at the base, inside a raised section or in a notify function.
UserRunning == stack # <<>> => top.pc \in {"raised", "notify"}

MayCall == UserRunning /\ Len(stack) < MaxDepth

-----------------------------------------------------------------------------
(* Locks and lists *)

\* Mutant: the lock raises the TPL but leaves interrupts enabled.
AcquireLock_NoMask ==
    /\ EventQueueLock' = [Lock |-> EventQueueLock.Lock + 1, OwnerTpl |-> TPL]
    /\ TPL' = TPL_HIGH_LEVEL
    /\ UNCHANGED IntEnabled

\* AcquireLock(&EventQueueLock): RaiseTPL(TPL_HIGH_LEVEL), then take the lock.
AcquireLock ==
    /\ EventQueueLock' = [Lock |-> EventQueueLock.Lock + 1, OwnerTpl |-> TPL]
    /\ TPL' = TPL_HIGH_LEVEL
    /\ IntEnabled' = (IntEnabled /\ TPL >= TPL_HIGH_LEVEL)

\* ReleaseLock(&EventQueueLock) up to its tail call of RestoreTPL(OwnerTpl),
\* which is the frame Released.
ReleaseLock ==
    /\ EventQueueLock' = [EventQueueLock EXCEPT !.Lock = @ - 1]
    /\ UNCHANGED <<TPL, IntEnabled>>

Released == RestoreFrame(EventQueueLock.OwnerTpl)

InList(q, e) == \E i \in 1..Len(q) : q[i] = e

RemoveEntryList(q, e) ==
    IF ~ InList(q, e) THEN q
    ELSE LET k == CHOOSE i \in 1..Len(q) : q[i] = e
         IN  [i \in 1..(Len(q) - 1) |-> IF i < k THEN q[i] ELSE q[i + 1]]

\* Mutant: the event is queued but its level is not marked.
NotifyEvent_NoPending(e) ==
    /\ EventQueue' = [EventQueue EXCEPT ![NotifyTpl(e)] = Append(RemoveEntryList(@, e), e)]
    /\ UNCHANGED EventPending

\* NotifyEvent: unlink the event if it is queued, queue it at the tail of its level.
NotifyEvent(e) ==
    /\ EventQueue' = [EventQueue EXCEPT ![NotifyTpl(e)] = Append(RemoveEntryList(@, e), e)]
    /\ EventPending' = EventPending \cup {NotifyTpl(e)}

\* Mutant: the search finds the lowest bit.
HighestSetBit_Lowest(bits) ==
    IF bits = {} THEN 0 ELSE CHOOSE p \in bits : \A q \in bits : p <= q

HighestSetBit(bits) ==
    IF bits = {} THEN 0 ELSE CHOOSE p \in bits : \A q \in bits : q <= p

-----------------------------------------------------------------------------
(* InitializeEvent and InitializeTimer have run; user code is at the base. *)

Init ==
    /\ TPL = TPL_APPLICATION
    /\ IntEnabled = TRUE
    /\ EventQueueLock = [Lock |-> 0, OwnerTpl |-> TPL_APPLICATION]
    /\ EventQueue = [p \in Level |-> <<>>]
    /\ EventPending = {}
    /\ EventSignalQueue = [s \in 0 .. EVT_EFI_SIGNAL_MAX - 1 |-> <<>>]
    /\ RuntimeEventList = {e \in Event \ Closable : Is(e, "RUNTIME")}
    /\ SignalCount = [e \in Event |-> 0]
    /\ allocated = Event \ Closable
    /\ stack = <<>>
    /\ rereads \in Reread

-----------------------------------------------------------------------------
(* Task priority levels *)

RaiseTPL(new) ==
    /\ MayCall
    /\ TPL <= new
    /\ TPL' = new
    /\ IntEnabled' = (IntEnabled /\ ~ (new >= TPL_HIGH_LEVEL /\ TPL < TPL_HIGH_LEVEL))
    /\ Push(Mk("raised", TPL, new, NoEvent))
    /\ UNCHANGED <<EventQueueLock, lists>>

RestoreTPL ==
    /\ At("raised")
    /\ Become(RestoreFrame(top.tpl))
    /\ UNCHANGED <<TPL, IntEnabled, EventQueueLock, lists>>

\* Mutants: the mask includes the level restored to, or misses the next one.
Unmasked_SameLevel(new) == \E p \in EventPending : p >= new
Unmasked_SkipsOne(new) == \E p \in EventPending : p > new + 1

\* (-2 << NewTpl) & EventPending
Unmasked(new) == \E p \in EventPending : p > new

RestoreCheck ==
    /\ At("check")
    /\ IF Unmasked(top.tpl)
       THEN Become(Mk("select", top.tpl, HighestSetBit(EventPending), NoEvent))
       ELSE Become(Mk("lower", top.tpl, 0, NoEvent))
    /\ UNCHANGED <<TPL, IntEnabled, EventQueueLock, lists>>

\* Mutant: TPL is one level off.
LowerTPL_OffByOne(new) ==
    /\ TPL' = new - 1
    /\ IntEnabled' = (IntEnabled \/ new < TPL_HIGH_LEVEL)

\* TPL = new; if (TPL < TPL_HIGH_LEVEL) EfiSetInterruptState (TRUE)
LowerTPL(new) ==
    /\ TPL' = new
    /\ IntEnabled' = (IntEnabled \/ new < TPL_HIGH_LEVEL)

\* TPL = HighestSetBit(EventPending).  EventPending is not volatile: a build
\* either uses the value that the loop condition read or reads the mask again.
RestoreSelect ==
    /\ At("select")
    /\ LET p == IF rereads THEN HighestSetBit(EventPending) ELSE top.prio
       IN  /\ LowerTPL(p)
           /\ Become(Mk("dispatch", top.tpl, p, NoEvent))
    /\ UNCHANGED <<EventQueueLock, lists>>

RestoreLower ==
    /\ At("lower")
    /\ LowerTPL(top.tpl)
    /\ Pop
    /\ UNCHANGED <<EventQueueLock, lists>>

(* DispatchEventNotifies(prio) *)

DispatchAcquire ==
    /\ At("dispatch")
    /\ AcquireLock
    /\ Become([top EXCEPT !.pc = "popping"])
    /\ UNCHANGED lists

\* Mutant: the SignalCount of the event taken from the queue is not cleared.
ClearSignal_Not(e) == UNCHANGED SignalCount

ClearSignal(e) == SignalCount' = [SignalCount EXCEPT ![e] = 0]

\* With the lock held: take the head of the queue and clear its SignalCount,
\* or, when the queue is empty, clear the pending bit and leave.
DispatchPop ==
    /\ At("popping")
    /\ LET q == EventQueue[top.prio]
       IN  IF q # <<>>
           THEN /\ EventQueue' = [EventQueue EXCEPT ![top.prio] = RemoveEntryList(@, Head(q))]
                /\ ClearSignal(Head(q))
                /\ BecomeUnder(Mk("call", top.tpl, top.prio, Head(q)), Released)
                /\ UNCHANGED EventPending
           ELSE /\ EventPending' = EventPending \ {top.prio}
                /\ BecomeUnder(RestoreFrame(top.tpl), Released)
                /\ UNCHANGED <<EventQueue, SignalCount>>
    /\ ReleaseLock
    /\ UNCHANGED <<EventSignalQueue, RuntimeEventList, allocated>>

DispatchCall ==
    /\ At("call")
    /\ Become([top EXCEPT !.pc = "notify"])
    /\ UNCHANGED <<TPL, IntEnabled, EventQueueLock, lists>>

\* The NotifyFunction returns to DispatchEventNotifies, which does not look at
\* the event again.
NotifyReturn ==
    /\ At("notify")
    /\ Become(Mk("dispatch", top.tpl, top.prio, NoEvent))
    /\ UNCHANGED <<TPL, IntEnabled, EventQueueLock, lists>>

-----------------------------------------------------------------------------
(* The timer interrupt: SystemTimerHandler raises to TPL_HIGH_LEVEL, calls *)
(* FwTimerTick and restores the interrupted TPL.  Whether the head of the  *)
(* timer list has expired is the Timers module's business; here it is a    *)
(* free choice.                                                            *)

OldTpl == TPL

Tick(expired) ==
    /\ IntEnabled
    /\ Len(stack) < MaxDepth
    /\ TPL' = TPL_HIGH_LEVEL
    /\ IntEnabled' = FALSE
    /\ IF expired
       THEN /\ stack' = Append(Append(stack, RestoreFrame(OldTpl)),
                              Mk("signal", TPL_HIGH_LEVEL, 0, EfiCheckTimerEvent))
            /\ EventQueueLock' = [Lock |-> EventQueueLock.Lock + 1,
                                  OwnerTpl |-> TPL_HIGH_LEVEL]
       ELSE Push(RestoreFrame(OldTpl)) /\ UNCHANGED EventQueueLock
    /\ UNCHANGED lists

-----------------------------------------------------------------------------
(* Event services *)

\* Some frame is closing e, or an interrupted call of CheckEvent or WaitForEvent
\* was given e.
Closing(e) == \E i \in 1..Len(stack) : stack[i].pc \in {"close", "free"} /\ stack[i].ev = e

Checking(e) ==
    \E i \in 1..Len(stack) :
        \/ stack[i].ev = e /\ stack[i].pc \in {"test", "retest"}
        \/ stack[i].pc \in {"wait", "waiting", "ready"} /\ InList(WaitList, e)

\* The caller's side of the contract, which no code enforces: an event is used
\* while it exists and nobody is closing it, and nobody closes the event that
\* other code has just passed to a service.  The dispatcher is no caller: an
\* event that it took from its queue and is about to call may be closed.
MayUse(e) == MayCall /\ e \in allocated /\ ~ Closing(e)
MayClose(e) == MayUse(e) /\ ~ Checking(e)

\* Each service validates, acquires the lock and pushes a frame for its body.
Enter(pc, e) ==
    /\ AcquireLock
    /\ Push(Mk(pc, TPL, 0, e))
    /\ UNCHANGED lists

CreateEvent(e) ==
    /\ MayCall /\ e \in Closable \ allocated
    /\ ValidCreate(e)
    /\ Enter("create", e)

\* ZeroMem clears the event and its links; an event with an EFI signal type
\* goes to the head of that signal list.  A type past the end of the array
\* (an assertion in debug builds) is not modelled further.
CreateBody ==
    /\ At("create")
    /\ LET e == top.ev
           s == Args[e].sig - 1
       IN  /\ allocated' = allocated \cup {e}
           /\ SignalCount' = [SignalCount EXCEPT ![e] = 0]
           /\ RuntimeEventList' = IF Is(e, "RUNTIME") THEN RuntimeEventList \cup {e}
                                  ELSE RuntimeEventList
           /\ EventSignalQueue' = IF s \in DOMAIN EventSignalQueue
                                  THEN [EventSignalQueue EXCEPT ![s] = <<e>> \o @]
                                  ELSE EventSignalQueue
    /\ ReleaseLock
    /\ Become(Released)
    /\ UNCHANGED <<EventQueue, EventPending>>

SignalEvent(e) == MayUse(e) /\ Enter("signal", e)

Unsignalled(e) == SignalCount[e] = 0

SignalBody ==
    /\ At("signal")
    /\ LET e == top.ev
       IN  IF Unsignalled(e)
           THEN /\ SignalCount' = [SignalCount EXCEPT ![e] = @ + 1]
                /\ IF Is(e, "NOTIFY_SIGNAL") THEN NotifyEvent(e)
                   ELSE UNCHANGED <<EventQueue, EventPending>>
           ELSE UNCHANGED <<SignalCount, EventQueue, EventPending>>
    /\ ReleaseLock
    /\ Become(Released)
    /\ UNCHANGED <<EventSignalQueue, RuntimeEventList, allocated>>

\* The entry after e in list q, NoEvent after the last.
Succ(q, e) ==
    LET k == CHOOSE i \in 1..Len(q) : q[i] = e
    IN  IF k < Len(q) THEN q[k + 1] ELSE NoEvent

\* RtNotifySignalList(s), called by ExitBootServices and SetVirtualAddressMap:
\* one NotifyEvent per entry of the list, all under the lock; ev is the entry
\* that Link points to.
RtNotifySignalList(s) ==
    /\ MayCall
    /\ AcquireLock
    /\ Push(Mk("list", TPL, s, IF EventSignalQueue[s] = <<>> THEN NoEvent
                               ELSE Head(EventSignalQueue[s])))
    /\ UNCHANGED lists

ListStep ==
    /\ At("list")
    /\ IF top.ev # NoEvent
       THEN /\ NotifyEvent(top.ev)
            /\ Become([top EXCEPT !.ev = Succ(EventSignalQueue[top.prio], @)])
            /\ UNCHANGED <<TPL, IntEnabled, EventQueueLock>>
       ELSE /\ ReleaseLock
            /\ Become(Released)
            /\ UNCHANGED <<EventQueue, EventPending>>
    /\ UNCHANGED <<EventSignalQueue, RuntimeEventList, SignalCount, allocated>>

\* CloseEvent unlinks the event under the lock and frees it after releasing it.
CloseEvent(e) == e \in Closable /\ MayClose(e) /\ Enter("close", e)

\* Mutant: CloseEvent leaves the event in the queue of its level.
UnlinkNotify_Not(e) == UNCHANGED EventQueue

UnlinkNotify(e) == EventQueue' = [p \in Level |-> RemoveEntryList(EventQueue[p], e)]

UnlinkSignal(e) ==
    EventSignalQueue' = [s \in DOMAIN EventSignalQueue |-> RemoveEntryList(EventSignalQueue[s], e)]

CloseBody ==
    /\ At("close")
    /\ LET e == top.ev
       IN  /\ UnlinkNotify(e)
           /\ UnlinkSignal(e)
           /\ RuntimeEventList' = RuntimeEventList \ {e}
           /\ BecomeUnder(Mk("free", top.tpl, 0, e), Released)
    /\ ReleaseLock
    /\ UNCHANGED <<EventPending, SignalCount, allocated>>

CloseFree ==
    /\ At("free")
    /\ allocated' = allocated \ {top.ev}
    /\ Pop
    /\ UNCHANGED <<TPL, IntEnabled, EventQueueLock, EventQueue, EventPending,
                   EventSignalQueue, RuntimeEventList, SignalCount>>

\* CheckEvent: an event with a wait notification is queued when it is not
\* signalled; then a signalled event is consumed.  SignalCount is tested
\* without the lock first and again with the lock held.  The events of WaitList
\* are polled by WaitForEvent only.
CheckEvent(e) ==
    /\ MayUse(e) /\ ~ InList(WaitList, e)
    /\ ~ Is(e, "NOTIFY_SIGNAL")
    /\ Push(Mk("test", TPL, 0, e))
    /\ UNCHANGED <<TPL, IntEnabled, EventQueueLock, lists>>

CheckTest ==
    /\ At("test")
    /\ IF SignalCount[top.ev] = 0 /\ Is(top.ev, "NOTIFY_WAIT")
       THEN AcquireLock /\ Become([top EXCEPT !.pc = "requeue"])
       ELSE Become([top EXCEPT !.pc = "retest"]) /\ UNCHANGED <<TPL, IntEnabled, EventQueueLock>>
    /\ UNCHANGED lists

CheckRequeue ==
    /\ At("requeue")
    /\ IF SignalCount[top.ev] = 0 THEN NotifyEvent(top.ev)
       ELSE UNCHANGED <<EventQueue, EventPending>>
    /\ ReleaseLock
    /\ BecomeUnder([top EXCEPT !.pc = "retest"], Released)
    /\ UNCHANGED <<EventSignalQueue, RuntimeEventList, SignalCount, allocated>>

\* The frame under CheckEvent learns the status if it is WaitForEvent's.
NextIndex(i) == IF i = Len(WaitList) THEN 1 ELSE i + 1

\* Mutant: CheckEvent reports EFI_NOT_READY for a signal it consumed.
Told_NotReady(f, ready) ==
    IF f.pc # "waiting" THEN f ELSE [f EXCEPT !.pc = "wait", !.prio = NextIndex(@)]

Told(f, ready) ==
    IF f.pc # "waiting" THEN f
    ELSE IF ready THEN [f EXCEPT !.pc = "ready"]
    ELSE [f EXCEPT !.pc = "wait", !.prio = NextIndex(@)]

Caller(ready) ==
    [i \in 1 .. Len(stack) - 1 |-> IF i = Len(stack) - 1 THEN Told(stack[i], ready) ELSE stack[i]]

CheckRetest ==
    /\ At("retest")
    /\ IF SignalCount[top.ev] > 0
       THEN AcquireLock /\ Become([top EXCEPT !.pc = "consume"])
       ELSE stack' = Caller(FALSE) /\ UNCHANGED <<TPL, IntEnabled, EventQueueLock>>
    /\ UNCHANGED lists

CheckConsume ==
    /\ At("consume")
    /\ ClearSignal(top.ev)
    /\ stack' = Append(Caller(SignalCount[top.ev] > 0), Released)
    /\ ReleaseLock
    /\ UNCHANGED <<EventQueue, EventPending, EventSignalQueue, RuntimeEventList, allocated>>

\* WaitForEvent polls the array in turn; PlIdleLoop does nothing.
WaitForEvent ==
    /\ MayCall
    /\ WaitList # <<>> /\ \A i \in 1..Len(WaitList) : MayUse(WaitList[i])
    /\ TPL = TPL_APPLICATION
    /\ Push(Mk("wait", TPL, 1, NoEvent))
    /\ UNCHANGED <<TPL, IntEnabled, EventQueueLock, lists>>

\* CheckEvent refuses an event with a signal notification and the wait ends.
WaitPoll ==
    /\ At("wait")
    /\ LET e == WaitList[top.prio]
       IN  IF Is(e, "NOTIFY_SIGNAL") THEN Pop
           ELSE BecomeUnder([top EXCEPT !.pc = "waiting"], Mk("test", top.tpl, 0, e))
    /\ UNCHANGED <<TPL, IntEnabled, EventQueueLock, lists>>

WaitReturn ==
    /\ At("ready")
    /\ Pop
    /\ UNCHANGED <<TPL, IntEnabled, EventQueueLock, lists>>

-----------------------------------------------------------------------------
\* Steps the processor takes by itself once a call or an interrupt began.
Kernel ==
    /\ UNCHANGED rereads
    /\ \/ RestoreCheck \/ RestoreSelect \/ RestoreLower
       \/ DispatchAcquire \/ DispatchPop \/ DispatchCall
       \/ CreateBody \/ SignalBody \/ ListStep \/ CloseBody \/ CloseFree
       \/ CheckTest \/ CheckRequeue \/ CheckRetest \/ CheckConsume
       \/ WaitPoll \/ WaitReturn

\* Calls made by applications, drivers and notify functions.
User ==
    /\ UNCHANGED rereads
    /\ \/ \E t \in RaiseLevels : RaiseTPL(t)
       \/ \E e \in Event : CreateEvent(e) \/ SignalEvent(e) \/ CheckEvent(e) \/ CloseEvent(e)
       \/ \E s \in 0 .. EVT_EFI_SIGNAL_MAX - 1 : RtNotifySignalList(s)
       \/ WaitForEvent

\* What user code owes its caller: notify functions return, raised sections end.
Leave == UNCHANGED rereads /\ (RestoreTPL \/ NotifyReturn)

Interrupt == UNCHANGED rereads /\ \E expired \in BOOLEAN : Tick(expired)

Next == Kernel \/ User \/ Leave \/ Interrupt

Spec == Init /\ [][Next]_vars

\* The code of a frame makes progress between interrupts (the timer period is
\* long against the handler), user code leaves what it entered, and the timer
\* keeps interrupting.  A service called, or an interrupt taken, below MaxDepth
\* adds a RestoreTPL and its first dispatcher; nothing is assumed of deeper
\* stacks.
Depth == 1 .. MaxDepth + 2

FairSpec ==
    /\ Spec
    /\ \A d \in Depth : SF_vars(Len(stack) = d /\ (Kernel \/ Leave))
    /\ WF_vars(Interrupt)

\* A notify function that signals itself, or timers that expire faster than
\* they are served, keep the dispatcher busy for ever; liveness is about what
\* happens once new work stops coming in.
QuietSpec == FairSpec /\ <>[][~ User /\ ~ Tick(TRUE)]_vars

-----------------------------------------------------------------------------
(* Properties *)

\* What the fields of a frame hold where its code uses them.
FrameOK(f) ==
    /\ f.pc \in {"raised", "select", "dispatch", "popping", "call", "notify"} => f.prio \in Level
    /\ f.pc \in {"create", "signal", "close", "requeue", "consume", "free", "test", "retest",
                 "call", "notify"} => f.ev \in ValidEvent
    /\ f.pc \in {"wait", "waiting"} => f.prio \in 1..Len(WaitList)
    /\ f.pc = "list" => f.prio \in 0 .. EVT_EFI_SIGNAL_MAX - 1
    /\ f.pc = "raised" => f.tpl <= f.prio
    /\ f.pc \in {"select", "dispatch", "popping", "call", "notify"} => f.tpl < TPL_HIGH_LEVEL

StackType == stack \in Seq(Frame) /\ \A i \in 1..Len(stack) : FrameOK(stack[i])

ListsType ==
    /\ EventQueue \in [Level -> Seq(ValidEvent)]
    /\ EventPending \subseteq Level
    /\ EventSignalQueue \in [0 .. EVT_EFI_SIGNAL_MAX - 1 -> Seq(ValidEvent)]
    /\ RuntimeEventList \subseteq ValidEvent
    /\ SignalCount \in [Event -> 0..1]
    /\ allocated \subseteq ValidEvent

GlobalsType ==
    /\ TPL \in Level
    /\ IntEnabled \in BOOLEAN
    /\ EventQueueLock \in [Lock : Nat, OwnerTpl : Level]
    /\ ListsType
    /\ StackType

\* Type invariant: the globals of execdata.c hold values of their types, and
\* only events that CreateEvent accepted are linked or passed around.
TypeOK == GlobalsType /\ rereads \in Reread

\* EventQueueLock excludes: ASSERT (Lock->Lock == 1) of RtAcquireLock and
\* RtReleaseLock holds in every interleaving with the timer interrupt, because
\* whoever holds the lock runs at TPL_HIGH_LEVEL with interrupts disabled.
LockExclusive ==
    /\ EventQueueLock.Lock \in {0, 1}
    /\ EventQueueLock.Lock = 1 => TPL = TPL_HIGH_LEVEL /\ ~ IntEnabled

\* ASSERT(EventQueueLock.OwnerTpl == Priority) of DispatchEventNotifies: the
\* dispatcher still runs at the level it selected, whatever interrupted it
\* before or during the notify functions it called.
DispatchOwner == At("popping") => EventQueueLock.OwnerTpl = top.prio

\* Interrupts are only enabled below TPL_HIGH_LEVEL, and when they are enabled
\* no notification of TPL_HIGH_LEVEL is left over: RestoreTPL runs those first.
HighBeforeInterrupts == IntEnabled => TPL < TPL_HIGH_LEVEL /\ TPL_HIGH_LEVEL \notin EventPending

\* No notification is stranded: a level with queued events has its bit set in
\* EventPending, so that some RestoreTPL will see it.
QueuedIsPending == \A p \in Level : EventQueue[p] # <<>> => p \in EventPending

\* No event is wedged: while the SignalCount of an event with a signal
\* notification is set (and SignalEvent therefore ignores it), its notification
\* is queued, until CloseEvent takes it out.
SignalledIsQueued ==
    \A e \in allocated :
        Is(e, "NOTIFY_SIGNAL") /\ SignalCount[e] = 1 /\ ~ Closing(e)
            => InList(EventQueue[NotifyTpl(e)], e)

\* CloseEvent leaves no reference behind in any list, whatever interrupts it and
\* even when the event is closed between the dispatcher's taking it from the
\* queue and calling it: the queues hold live events only, each at its own level
\* and at most once, and the signal lists and the list of runtime events hold
\* live events only.
QueuesWellFormed ==
    /\ \A p \in Level : \A i \in 1..Len(EventQueue[p]) :
          LET e == EventQueue[p][i]
          IN  /\ e \in allocated /\ NotifyTpl(e) = p
              /\ \A j \in 1..Len(EventQueue[p]) : EventQueue[p][j] = e => j = i
    /\ \A s \in DOMAIN EventSignalQueue : \A i \in 1..Len(EventSignalQueue[s]) :
          EventSignalQueue[s][i] \in allocated
    /\ RuntimeEventList \subseteq allocated

\* DispatchEventNotifies calls the NotifyFunction of an event that still exists.
\* Does not hold: it reads NotifyFunction with the lock released, after a notify
\* function of a higher level may have closed and freed the event.
NotifyAlive == At("call") => top.ev \in allocated

\* A notify function runs above the user code it suspends, notify functions and
\* raised sections alike.  In a build that reads EventPending once in RestoreTPL
\* this holds at every level.  In a build that reads it again it holds for code
\* that runs at TPL_HIGH_LEVEL - 1 or above, as CheckTimers and the holders of
\* EfiTimerLock do; at lower levels the second read may find the level it came
\* for already served, and dispatch one at or below the level to be restored.
Runs(f) == f.pc \in {"raised", "notify"}
Nested(level) == rereads => level >= TPL_HIGH_LEVEL - 1
NotifyNests ==
    \A i, j \in 1..Len(stack) :
        i < j /\ Runs(stack[i]) /\ stack[j].pc = "notify" /\ Nested(stack[i].prio)
            => stack[i].prio < stack[j].prio

\* RestoreTPL leaves no notification above the level it restores.  Does not
\* hold: the last test of EventPending comes before the TPL is lowered.
RestoreDispatchesAll == [][RestoreLower => \A p \in EventPending : p <= top.tpl]_vars

\* CreateEvent's assertion that the signal type has a list.  Does not hold for
\* types with both low bits and without EVT_NOTIFY_SIGNAL.
SignalTypeInRange == At("create") => Args[top.ev].sig - 1 < EVT_EFI_SIGNAL_MAX

\* Every signal of an event with a signal notification is followed by a run of
\* its notify function, unless the event is closed first.
SignalledIsNotified ==
    \A e \in Event : Is(e, "NOTIFY_SIGNAL") =>
        ((e \in allocated /\ SignalCount[e] = 1) ~> (SignalCount[e] = 0 \/ e \notin allocated))

\* WaitForEvent returns once an event it waits for has been signalled.
WaitEnds ==
    \A i \in 1..Len(WaitList) :
        (SignalCount[WaitList[i]] = 1 /\ stack # <<>> /\ stack[1].pc \in {"wait", "waiting"})
            ~> (stack = <<>> \/ stack[1].pc = "ready")

-----------------------------------------------------------------------------
(* The inductive invariant behind the safety properties *)

\* What code that is suspended under frame g relies on: it holds no lock, it
\* finds the TPL it left when g returns (the level it selected or raised to, or
\* the level of its caller), and only the interrupt's own RestoreTPL to a level
\* below TPL_HIGH_LEVEL comes between RestoreTPL's steps.
RestorePc == {"check", "select", "dispatch", "popping", "call", "notify", "lower"}

LevelOK(f, level) ==
    /\ f.pc \in {"raised", "dispatch", "call", "notify"} => level = f.prio
    /\ f.pc \in {"test", "retest", "wait", "waiting", "ready", "free"} => level = f.tpl
    /\ f.pc \in {"check", "lower"} /\ f.tpl = TPL_HIGH_LEVEL => level = TPL_HIGH_LEVEL

Suspended(f, g) ==
    /\ f.pc \notin LockedPc
    /\ LevelOK(f, g.tpl)
    /\ f.pc \in {"select", "lower"} => g.pc \in RestorePc /\ g.tpl < TPL_HIGH_LEVEL
    /\ f.pc = "select" => f.prio < TPL_HIGH_LEVEL

StackInv == \A i \in 1 .. Len(stack) - 1 : Suspended(stack[i], stack[i + 1])

\* EventQueueLock is held by the running frame or by nobody, and OwnerTpl is
\* the level to go back to.
LockInv ==
    IF stack # <<>> /\ top.pc \in LockedPc
    THEN /\ EventQueueLock.Lock = 1 /\ TPL = TPL_HIGH_LEVEL /\ ~ IntEnabled
         /\ EventQueueLock.OwnerTpl = IF top.pc = "popping" THEN top.prio ELSE top.tpl
    ELSE EventQueueLock.Lock = 0

\* The running frame is at its level, and what RestoreTPL decided is up to date
\* while interrupts are off.  The Link of RtNotifySignalList points into the
\* list it walks.
TopOK(f) ==
    /\ LevelOK(f, TPL)
    /\ f.pc = "select" => IF IntEnabled THEN f.prio < TPL_HIGH_LEVEL
                          ELSE f.prio = HighestSetBit(EventPending)
    /\ f.pc = "lower" /\ f.tpl < TPL_HIGH_LEVEL => TPL_HIGH_LEVEL \notin EventPending
    /\ f.pc = "list" /\ f.ev # NoEvent => InList(EventSignalQueue[f.prio], f.ev)

TopInv == stack # <<>> => TopOK(top)

\* The inductive invariant of the proofs.
IInv ==
    GlobalsType /\ StackInv /\ LockInv /\ TopInv /\ HighBeforeInterrupts /\ QueuedIsPending
====
