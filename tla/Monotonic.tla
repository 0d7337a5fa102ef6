----------------------------- MODULE Monotonic -----------------------------
(***************************************************************************)
(* The monotonic counter: COREFW/fw/efi/exec/mtc.c.                        *)
(*                                                                         *)
(* The low part of EfiMtc counts in memory; the high part is kept in the   *)
(* variable MTC and moves on at every boot, and whenever half of the low   *)
(* part is used up.  The update runs as the notify function of EfiMtcEvent *)
(* at TPL_CALLBACK, so it interrupts the code at TPL_APPLICATION, and      *)
(* drivers at higher levels interrupt both.  SetVariable is atomic here    *)
(* (see VarStore) and may fail.                                            *)
(***************************************************************************)
EXTENDS Integers

CONSTANTS
    Half,           \* 2^31: the most significant bit of the low part
    MaxHigh,        \* bound: the last value of the high part
    Preempting,     \* there are callers above TPL_CALLBACK
    SavesFail       \* SetVariable may fail

Low == 2 * Half

ASSUME CountAssumption ==
    /\ Half \in Nat \ {0} /\ MaxHigh \in Nat \ {0}
    /\ Preempting \in BOOLEAN /\ SavesFail \in BOOLEAN

Caller == {"application"} \cup (IF Preempting THEN {"notify"} ELSE {})

VARIABLES
    EfiMtc,
    MTC,            \* the high part in NVRAM, 0 if there is none
    EfiAtRuntime,
    signalled,      \* EfiMtcEvent is queued
    saving,         \* who runs EfiMtcEventHandler: "none", "event", "boot", "call"
    HighCount,      \* its local variable
    prev,           \* prev[c]: PreviousMtc of a caller that has its count, or -1
    lastCount,      \* history: the largest count handed out since the device
                    \* was new, of those whose high part was saved by then
    lastHigh        \* history: the largest high part that was returned with success

vars == <<EfiMtc, MTC, EfiAtRuntime, signalled, saving, HighCount, prev, lastCount, lastHigh>>

High(count) == count \div Low

\* The most significant bit of the low part.
Msb(count) == (count % Low) \div Half

-----------------------------------------------------------------------------
\* Code at a level runs only if nothing above it does.
Running(c) == c = "application" => saving = "none" /\ ("notify" \in Caller => prev["notify"] = -1)

HandlerRuns == "notify" \in Caller => prev["notify"] = -1

\* GetNextMonotonicCount: take a number under EventQueueLock.  Half of the low
\* part lasts until the event is dispatched.
GetNextMonotonicCount(c) ==
    /\ ~ EfiAtRuntime /\ saving # "boot"
    /\ Running(c) /\ prev[c] = -1
    /\ EfiMtc # 0
    /\ (EfiMtc + 1) % Low # 0
    /\ prev' = [prev EXCEPT ![c] = EfiMtc]
    /\ EfiMtc' = EfiMtc + 1
    /\ lastCount' = IF High(EfiMtc) <= MTC THEN EfiMtc ELSE lastCount
    /\ UNCHANGED <<MTC, EfiAtRuntime, signalled, saving, HighCount, lastHigh>>

\* Mutant: the event is never signalled.
Toggled_Never(count, before) == FALSE

Toggled(count, before) == Msb(count) # Msb(before)

\* Then EfiMtc is read again, without the lock.
TestToggle(c) ==
    /\ Running(c) /\ prev[c] # -1
    /\ signalled' = (signalled \/ Toggled(EfiMtc, prev[c]))
    /\ prev' = [prev EXCEPT ![c] = -1]
    /\ UNCHANGED <<EfiMtc, MTC, EfiAtRuntime, saving, HighCount, lastCount, lastHigh>>

-----------------------------------------------------------------------------
\* Mutant: the high part stays.
NextHigh_Same(count) == High(count)

NextHigh(count) == High(count) + 1

\* EfiMtcEventHandler, first half: move to the next high part.
EfiMtcEventHandler(who) ==
    /\ NextHigh(EfiMtc) <= MaxHigh
    /\ HighCount' = NextHigh(EfiMtc)
    /\ EfiMtc' = HighCount' * Low
    /\ saving' = who

Dispatch ==
    /\ signalled /\ saving = "none" /\ HandlerRuns /\ ~ EfiAtRuntime
    /\ EfiMtcEventHandler("event")
    /\ signalled' = FALSE
    /\ UNCHANGED <<MTC, EfiAtRuntime, prev, lastCount, lastHigh>>

\* GetNextHighMonotonicCount: a runtime service.
GetNextHighMonotonicCount ==
    /\ EfiAtRuntime /\ saving = "none"
    /\ EfiMtcEventHandler("call")
    /\ UNCHANGED <<MTC, EfiAtRuntime, signalled, prev, lastCount, lastHigh>>

\* Mutant: an error of SetVariable is not passed on.
Succeeds_Always(ok) == TRUE

Succeeds(ok) == ok

\* Second half: update the variable.  Only GetNextHighMonotonicCount, which
\* then returns the high part, looks at the status.
Save(ok) ==
    /\ saving # "none" /\ HandlerRuns
    /\ MTC' = IF ok THEN HighCount ELSE MTC
    /\ lastHigh' = IF saving = "call" /\ Succeeds(ok) THEN High(EfiMtc) ELSE lastHigh
    /\ saving' = "none"
    /\ UNCHANGED <<EfiMtc, EfiAtRuntime, signalled, HighCount, prev, lastCount>>

ExitBootServices ==
    /\ ~ EfiAtRuntime /\ saving = "none" /\ \A c \in Caller : prev[c] = -1
    /\ EfiAtRuntime' = TRUE
    /\ UNCHANGED <<EfiMtc, MTC, signalled, saving, HighCount, prev, lastCount, lastHigh>>

-----------------------------------------------------------------------------
\* InitializeMonotonicCount runs before any driver.  It moves the high part
\* that the variable holds; the handler saves it.
Booted(high) ==
    /\ EfiMtc' = NextHigh(high * Low) * Low
    /\ HighCount' = NextHigh(high * Low)
    /\ saving' = "boot"

PowerLoss ==
    /\ MTC < MaxHigh
    /\ Booted(MTC)
    /\ EfiAtRuntime' = FALSE /\ signalled' = FALSE
    /\ prev' = [c \in Caller |-> -1]
    /\ UNCHANGED <<MTC, lastCount, lastHigh>>

Init ==
    /\ MTC = 0 /\ EfiMtc = Low /\ HighCount = 1 /\ saving = "boot"
    /\ EfiAtRuntime = FALSE /\ signalled = FALSE
    /\ prev = [c \in Caller |-> -1]
    /\ lastCount = -1 /\ lastHigh = -1

Next ==
    \/ \E c \in Caller : GetNextMonotonicCount(c) \/ TestToggle(c)
    \/ Dispatch \/ GetNextHighMonotonicCount
    \/ Save(TRUE)
    \/ SavesFail /\ Save(FALSE)
    \/ ExitBootServices \/ PowerLoss

Spec == Init /\ [][Next]_vars

-----------------------------------------------------------------------------
(* Properties *)

\* What GetNextMonotonicCount returns is larger than every count it returned before,
\* in this boot or an earlier one, that was taken when its high part had been saved.
\* Counts that callers above TPL_CALLBACK take after EfiMtcEventHandler has moved the
\* high part and before it has saved it, and those that follow a save that failed, are
\* not among them: after a power failure the next boot may hand them out again, even
\* if no save ever fails (mtc.c:171-188).
Increasing == [][\A c \in Caller : prev[c] = -1 /\ prev'[c] # -1 => prev'[c] > lastCount]_vars

\* A high part that GetNextHighMonotonicCount returns with success is larger
\* than every one it returned before, in this boot or another, whatever saves
\* failed in between.
HighIncreasing ==
    [][saving = "call" /\ saving' = "none" /\ lastHigh' = High(EfiMtc) => lastHigh' > lastHigh]_vars

\* When nothing runs and the event is not queued, the low part is in its lower
\* half: the next update is signalled before the low part overflows.
UpdateInTime ==
    saving = "none" /\ ~ signalled /\ (\A c \in Caller : prev[c] = -1) => Msb(EfiMtc) = 0

\* Type invariant.
TypeOK ==
    /\ EfiMtc \in 0 .. (MaxHigh + 1) * Low
    /\ MTC \in 0 .. MaxHigh /\ HighCount \in 0 .. MaxHigh
    /\ EfiAtRuntime \in BOOLEAN /\ signalled \in BOOLEAN
    /\ saving \in {"none", "event", "boot", "call"}
    /\ prev \in [Caller -> -1 .. (MaxHigh + 1) * Low]
    /\ lastCount \in -1 .. (MaxHigh + 1) * Low /\ lastHigh \in -1 .. MaxHigh

-----------------------------------------------------------------------------
(* The invariant of the proofs *)

\* What was handed out is below what comes next, now and after a power failure.
CountsBelow ==
    /\ MTC * Low <= EfiMtc /\ EfiMtc < (MaxHigh + 1) * Low
    /\ lastCount < EfiMtc /\ lastCount < (MTC + 1) * Low
    /\ lastHigh <= MTC

\* The handler saves a high part that is new, and a caller that waits for its
\* result finds it untouched.
SavesNewHigh ==
    /\ saving # "none" => MTC < HighCount /\ HighCount * Low <= EfiMtc
    /\ saving = "call" => EfiAtRuntime /\ EfiMtc = HighCount * Low

\* In the upper half of the low part, the event is queued or some caller that
\* took its count in the lower half is going to queue it.
ToggleSeen ==
    \/ Msb(EfiMtc) = 0
    \/ signalled
    \/ \E c \in Caller : prev[c] # -1 /\ Msb(prev[c]) = 0

\* The inductive invariant that Increasing, HighIncreasing and UpdateInTime
\* follow from: the counter and its copy in NVRAM stay ahead of everything that
\* was handed out, whatever saves fail (mtc.c:78-97, 137-150, 168-180).
IInv == TypeOK /\ CountsBelow /\ SavesNewHigh /\ ToggleSeen
====
