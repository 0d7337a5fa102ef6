# A verification of the EFI 1.10 Sample Implementation

The repository is Intel's EFI 1.10.14.62 sample firmware and its toolkit. This
directory holds TLA+ models of the part that every other part stands on, the
core under `COREFW/fw/efi`, the TLC configurations that check them, and proofs.
Paths below are relative to `src/EFI_1.10.14.62` unless they start with `src/`.

Contents: [the system](#the-system) · [modules](#the-modules) · [runs](#the-runs) ·
[bounds](#bounds) · [fairness](#fairness) · [proofs](#proofs) ·
[what the code does not guarantee](#what-the-code-does-not-guarantee) ·
[what is left out](#what-is-left-out) · [plan](#plan).

## The system

The firmware runs on one processor without threads. Concurrency comes from task
priority levels (TPL): code runs at a level, a timer interrupt may come whenever
interrupts are enabled (below `TPL_HIGH_LEVEL`), and whenever the level is
lowered, the notify functions of signalled events run on top of the code that
lowered it, highest level first. A lock is a raised level. Persistence comes
from the variable stores, which live in flash: bits can be cleared one by one
and set only by erasing a bank, and the power may fail at any time.

| Component | State | Operations | Interacts with | What is hard | What makes it correct |
|---|---|---|---|---|---|
| Task priority levels and events (`exec/tpl.c`, `exec/event.c`, `LIB/Runtime/lock.c`) | `TPL`, `EventPending`, `EventQueue[]`, `EventSignalQueue[]`, `EventQueueLock`, events | `RaiseTPL`, `RestoreTPL`, `CreateEvent`, `SignalEvent`, `CheckEvent`, `WaitForEvent`, `CloseEvent`, `RtNotifySignalList` | everything: all locks and callbacks | interrupts between any two accesses, nested dispatchers, wait events that are queued and signalled at once | the lock is exclusive, notify functions nest upwards, no signal is lost or wedged, waits end |
| Timer events (`exec/timer.c`, `PlDriver/cpu_timer`) | `EfiSystemTime`, `EfiTimerList`, trigger time and period | `FwTimerTick`, `SetTimer`, `CheckTimers` | the tick signals `EfiCheckTimerEvent`; `CheckTimers` signals events | the tick reads the list without its lock; late periodic timers; 64-bit sums | the list is sorted, no timer is early, expired timers are found |
| Monotonic counter (`exec/mtc.c`) | `EfiMtc`, `EfiMtcEvent`, variable `MTC` | `GetNextMonotonicCount`, `GetNextHighMonotonicCount`, `EfiMtcEventHandler` | the event runs at `TPL_CALLBACK`; saves with `SetVariable` | callers in the middle of the update, failed saves, power failures | a number is not handed out twice, in any boot |
| Variable stores (`variable/*.c`) | banks on the device and their memory copies, bank lists, transaction bank, sequence numbers | `SetVariable`, `GetVariable`, `GetNextVariableName`, garbage collection, recovery at boot | `ExitBootServices` (visibility), NVRAM devices, the counter | power failure at or inside any write, also in recovery; full stores; device errors | an update happens at once or not at all; recovery ends |
| NVRAM devices (`PlDriver/Nvram`, `BuildTip/nt32/var.c`) | bytes | `ClearStore`, `UpdateStore`, `TransactionUpdate`, `SizeStore` | called by the stores | writes that stop in the middle | bits are cleared in order (`INC/protocol/efivar.h`) |
| Handles and protocols (`hand/handle.c`, `notify.c`, `locate.c`) | handles, interfaces, open protocol data, notify lists | install, reinstall, uninstall and their Multiple forms, open, close, locate, register notify | calls drivers with the database lock released | callbacks and drivers that change what a call is working on; calls that fail half way | the lists agree, an interface has one driver, no interface in use is freed, registrations miss nothing, failed calls leave nothing behind |
| Driver connection (`hand/DriverSupport.c`) | driver bindings, controllers | `ConnectController`, `DisconnectController` | the handle database, driver callbacks | drivers that make children, connect while being connected, or refuse to stop | termination, no half-connected tree |
| Pages (`mem/page.c`) | descriptor list, map key | `AllocatePages`, `FreePages`, `GetMemoryMap`, `ExitBootServices` | pool, loader, operating system | the descriptors live in the memory they describe; stale map keys | descriptors partition memory; the key detects changes |
| Pool (`mem/pool.c`) | free lists, the pools of OS types | `AllocatePool`, `FreePool` | pages, whose descriptors are pool blocks | pages that are given back in the middle of a conversion | blocks are disjoint and accounted for |
| Image loader (`loader/*.c`, `DebugImageInfo.c`) | image records, image lists, the chain of started images, debug table | `LoadImage`, `StartImage`, `Exit`, `UnloadImage`, internal images, `ExitBootServices` | pages, handles, drivers that are connected | an image that exits or is unloaded while others run on top of it; loads that fail half way | the chain of started images is a stack; nothing refers to an image that is gone |
| Virtual addresses (`mem/virt.c`, `loader/pe.c`) | virtual address of each descriptor, pointers of runtime code | `SetVirtualAddressMap`, `ConvertPointer` | runtime drivers, image lists | drivers and relocations convert the same pointers; once only, no way back | every pointer is converted once |
| Platforms, boot manager, EDK drivers (buses, disks, FAT, network, consoles), shell, libraries, toolkit | – | – | use the core | – | – |

All but the devices and the last row are modelled. `PROJECT.json` lists all of them, the hazards at
their lines, and the code each definition stands for.

## The modules

| Module | Models |
|---|---|
| `Exec` | task priority levels, events, notification queues, dispatcher, `EventQueueLock`, timer interrupt |
| `MCExec` | its instances: levels 1 to 5, one event for each kind |
| `ExecProofs` | proofs about `Exec`: the lock and the levels; the events |
| `Timers`, `MCTimers`, `TimersProofs` | timer list, tick, `SetTimer`, `CheckTimers` |
| `Monotonic`, `MonotonicProofs` | the counter, over atomic variables that may fail to be saved |
| `VariableMap` | what `SetVariable` promises: an atomic map with power failures |
| `VarStore`, `MCVarStore`, `VarStoreProofs` | banks, garbage collection and recovery; refines `VariableMap` |
| `PageMap` | what the memory services promise: one type for every page |
| `Pages`, `MCPages`, `PoolProofs`, `PagesProofs` | memory map, descriptor stack and pool; refines `PageMap` |
| `Handles`, `MCHandles`, `HandlesProofs` | handle database, registrations, connection of drivers |
| `Virtual` | virtual maps and the conversion of a pointer |
| `Images`, `MCImages`, `ImagesProofs` | image loader, debug table, end of boot services, conversion of runtime images; extends `Virtual` |

They meet at narrow interfaces. `Timers` takes from `Exec` that two pieces of
code at `TPL_HIGH_LEVEL - 1` exclude each other (`NotifyNests`, in every build) and that
releasing a lock dispatches what became pending (`SignalledIsNotified`); `Exec` sees of
`Timers` a tick that may or may not signal the check-timer event. `Monotonic`
takes from `VarStore` that a save is atomic (`Atomic`), and that it may fail, and
from `Exec` that callers above `TPL_CALLBACK` are not preempted by the handler, which
is `NotifyNests` for builds that read `EventPending` once.
`Handles` takes from `Exec` that a notification runs as soon as the level allows
it. `Images` sees of `Handles` which images have their protocols installed and
which have protocols open, and of `Pages` that descriptors do not overlap
(`MapSound`).

### Exec

One call stack. A frame is a service in progress, with its program counter `pc`,
the level `tpl` it will restore, the level `prio` it serves and the event `ev`
it works on. Only the top frame runs; `Tick` pushes the interrupt's frames
whenever `IntEnabled`. Code is cut where an interrupt can be seen. The sections
under `EventQueueLock` are two steps, acquiring (`Enter`, `DispatchAcquire`) and
body with release (`CreateBody`, `SignalBody`, `ListStep`, `CloseBody`,
`CheckRequeue`, `CheckConsume`, `DispatchPop`), so that exclusion is a property
and not an assumption.

* `RestoreTPL` becomes `RestoreCheck` (the loop condition), `RestoreSelect` (the
  read of `HighestSetBit`), the dispatcher's steps, and `RestoreLower` (the
  assignment after the loop). `EventPending` is a plain global: the C source
  reads it in the loop condition and again in the call, and a build may fuse the
  two. The variable `rereads` says which kind of build runs; it is chosen at the start
  and never changes, and all runs of `Exec` cover both (`Reread = {TRUE, FALSE}`).
* `DispatchEventNotifies` is `DispatchAcquire`, `DispatchPop`, `DispatchCall`,
  `NotifyReturn`; between the last two, user code runs and may do anything
  (`User`: raise, create, signal, check, close, wait at the application level).
* `CheckEvent` is `CheckTest`, `CheckRequeue`, `CheckRetest`, `CheckConsume`;
  `WaitForEvent` polls it (`WaitPoll`), and the step that finds no event ready
  stands for one round of the idle loop.
* `CloseEvent` is `CloseBody` and `CloseFree`. What callers owe each other, and no code
  tests, is in its guard: nobody closes the event that other code has just passed to
  `CheckEvent` or `WaitForEvent` (`MayClose`), and nobody uses an event that code below
  is closing (`MayUse`). The dispatcher is not a caller: an event that it has taken from
  its queue and not called yet (`event.c:167-178`), or whose notify function is
  running, may be closed by code of a higher level or by the notify function itself.

The `ASSERT`s of `RtAcquireLock`, `RtReleaseLock` and `DispatchEventNotifies` are
the properties `LockExclusive` and `DispatchOwner`.

### Timers

`EfiTimerListLock` is at `TPL_HIGH_LEVEL - 1`, so `SetTimer` and `CheckTimers`
are one thread, in steps between which `FwTimerTick` may come. `request` is a
history variable: when and how the timer was last set and how often it has fired
since. Times are modulo `TimeMod` (2^64 in the code).

### VarStore

`nv` is the device, `Bank` the memory copies, `Active` the bank lists, `todo`
the steps that remain of the running service. A step is one device access or
one decision; a write goes to memory and to the device (`Write`), and the device
may report an error, after which the code does not touch the bank again.
`PowerLoss` may come at any state. The device is left as it was before the next
step, or in the middle of it (`Torn`): an appended entry whose size is there and
whose state is not, a mark of which the first bit is written, a transaction bank
that holds some of the entries. An erase needs no such case, since the header is
zeroed first and a bank without signature is erased again whatever it holds; a
change of a bank's state is one bit. Memory is lost and `Boot` follows: every bank is read (`AddBank`, `Scan`), change-overs are finished
(`Repair`), entries in transition are resolved (`Check`).

Left out, with reasons: `GetNextVariableName` only reads; no device of the
repository offers `TransactionUpdate`; `SizeStore` grows a store and changes no
bank that is in use. A device error leaves the device unchanged.

A bank is corrupt when an entry reaches too far beyond its end (`CorruptEntry`). With
`sizeof(VARIABLE)` left out of that test (`varinit.c:707-708`), an entry may reach that
far beyond the end and count; debug builds stop at an assertion then (`vario.c:269`).
Recovery erases a corrupt bank (`Scan`, `ClearStore`), writes its new header once more and
sets `Tail` back to where the corrupt entry was (`Truncate`, `varinit.c:742`). `Gap` is the
erased room that this leaves in front of `Tail`. What is appended behind it
(`WithEntry`) takes space and is not found by anyone, since a search ends at the first
erased size. The model does not follow a power failure once such an entry exists
(`Hidden`): the next recovery would set `Tail` in front of it and write over it.

The size of an entry is stored in 16 bits and read as 12 (`VAR_SIZE_MASK`), while only
the length of the data is bounded (`varapi.c:405`). An entry that is longer, because its
name is, would be read as a short one with garbage behind it; debug builds stop at an
assertion (`varapi.c:545`). The model ends there (`Misread`), and the theorems assume that the callers
keep to sizes that can be told (`SizesTold`). A rest at the end of a bank that is too
short for an entry counts as used after a recovery (`varinit.c:680`) and is left out.

Debug builds stop at an `ASSERT (FALSE)` in one branch of the repair of change-overs
(`varinit.c:399`, "need to test"), which recovery reaches after a power failure in the
middle of a collection; the model follows the free build.

No platform of the repository has a store for non-volatile variables that are
invisible at runtime, so these live in the `NV+BS+RT` store (`StoreFor`).

### Monotonic

A count is taken under `EventQueueLock` (`GetNextMonotonicCount`) and compared
with a second read of `EfiMtc` after the lock is released (`TestToggle`).
`EfiMtcEventHandler` is two steps, moving the high part and saving it (`Save`).
Callers are the application level and, with `Preempting`, a driver above
`TPL_CALLBACK`, which may interrupt both and the handler. Boot runs before any
driver. Half of the low part (2^31 counts) is assumed to last until the queued
event is dispatched.

### Pages

`MEMORY_MAP` descriptors live in `MapStack` or in pool blocks, and the pool takes
its pages from the map that the descriptors form. `todo` is the call stack of the
running service, so `AddRange`, `ConvertPages`, `FreeMemoryMapStack`,
`AllocatePoolI` and `FreePoolI` call each other in the model as they do in the
code, and every invariant is checked between any two of their steps, not only
between services. Services run under `MemoryLock`; nothing else can interleave.
`BootServiceAllocatePages` only adjusts arguments, `SetCodeSection` has no caller,
and the watermarks, which a platform sets once, are constants. `Refines` maps the
descriptors to the type and attribute of each page (`PageMap`).

### Handles

`todo` is the call stack: services, drivers (`Supported`, `Start`, `Stop`, modelled
from how the code calls them) and at most one callback. A step is what a function
does from one point where `ProtocolDatabaseLock` is free to the next. Handles and
interfaces are memory that is used again, so that a stale reference meets another
object. A bus driver makes a child when it starts and removes it when it stops;
drivers in `Reluctant` may refuse to stop. With `OwnersWait` no callback takes a
handle away that a call below is working on; without it see below. Left out: handle
keys, the duplicate device path test and `LocateDevicePath`, `OpenProtocolInformation`
and `ProtocolsPerHandle`, which copy, `LocateHandleBuffer`, the platform and bus
override protocols and remaining device paths.

### Images and Virtual

`stack` is the call stack again; a frame is a loader service at work on an image.
User code runs on top of it at five places: the boot manager, an entry point, the
drivers that `StartImage` connects, an `Unload` function, and notifications, which
may come between any two steps. `LongJump` cuts the stack (`Jump`). Structures are
used once, so that a reference to a freed one is seen. The debug table is a set: it
grows by a page when it is full and keeps its entries. The loader itself has no
notion of an image in use, so the callers' duties are constants: with `Reckless`
they start and unload images that a call below is working on (`Busy`), with
`CallbacksExit` a driver that is being connected calls `Exit` for the image that
was interrupted; both are off in the run, and what fails otherwise is said below.

After `ExitBootServices` the operating system passes virtual maps, good and bad
ones. `pointer` follows two pointers of a runtime image: its base, and a word of its
data that has a relocation and that the driver may have pointed somewhere else.
The driver may convert it (`DriversConvert`) before the relocations are applied
again (`ConvertPeImage`, which compares with the value kept since loading).
`MemoryLastConvert` is only a cache of the descriptor the search would find.
`ImageEof` and the fixed lists of pointers in the system tables are left out.

## The runs

Every run is `tlc -config <cfg> <module>` in this directory. For each property of
a passing run, `PROJECT.json` names a mutant, a plausible slip in the code, under
which TLC reports the property violated.

| Run | States | Shows |
|---|---|---|
| `exec_core` | 2 100 000 | `LockExclusive`, `DispatchOwner` (the code's assertions); `HighBeforeInterrupts`: interrupts come back only after the notifications at the top level; `QueuedIsPending`: a queue that is not empty has its bit in `EventPending`; `NotifyNests`: a notify function only ever preempts lower levels, at all levels in builds that read `EventPending` once, from `TPL_HIGH_LEVEL - 1` up in the others |
| `exec_services` | 57 800 | `SignalledIsQueued`: an event that counts as signalled is on its queue or about to be, so that no signal is wedged; `QueuesWellFormed`: no queue holds an event twice or at another level, and no list a freed one, also when an event is closed that the dispatcher is about to call; `SignalledIsNotified`, `WaitEnds`: signalled events are notified and waits on plain events end |
| `exec_lost_signal` | violation | `WaitEnds` fails for an event with `EVT_NOTIFY_WAIT`, see below |
| `timers_core` | 303 000 | `ListSorted` at every point where the tick can look; `Punctual`: no timer fires before its time or more often than its period allows, also when several periods are caught up; `ExpiredIsTaken`, `CheckEnds` |
| `mtc_core` | 51 000 | nested callers, failing saves, power failures: `Increasing` (a count is above all earlier ones that were taken when their high part had been saved), `HighIncreasing` (a high part returned with success is not returned again), `UpdateInTime` |
| `var_core` | 337 000 | a volatile and a non-volatile store in use, a variable that moves between them, power failures everywhere, operating system included: `Atomic` (refinement of `VariableMap`), `ReadsBack` (between services `GetVariable` returns what the device would give back after a failure), `SpaceKept` (at every step `InUse` is what the valid entries take and the entries fit), `CollectionsSafe` (the transaction bank is clear between services, what is erased is valid somewhere else), `BitsCleared` (no write sets a bit), `NeverCorrupt` (what recovery finds in a bank ends within it). No device errors, and sizes are written as one |
| `var_live` | 461 000 | a new device with two banks that fills up, with a device error anywhere and torn sizes, some of which reach beyond the bank: `Asserted` (the three assertions on banks in transition, `varinit.c:366`, `371` and `vgarbage.c:303`; not `ASSERT (FALSE)` at `varinit.c:399`, which fails), `ServiceEnds` (services and recovery end, also after a corrupt bank) |
| `var_shrink` | violation | `Atomic` fails when a value gets shorter, see below |
| `mem_core` | 85 500 | pages and pool allocated and freed up to the end of boot services: `MapSound` (the descriptors partition memory, adjacent ones are merged, the descriptor stack does not overflow), `PoolSound` (blocks are disjoint, each belongs to one list or user), `Accounted` (every page of a type is owned by a caller, the pool, or known to be lost), `KeyIsCurrent`, `FreesSucceed` (what was allocated can be freed), `Refines` |
| `mem_loop` | violation | `StackIsEmptied` fails, see below |
| `handles_core` | 261 000 | a bus, a child, three drivers, an application and a callback: `DatabaseSound` (handle lists and protocol lists agree, one driver to an interface), `Registrations` (no interface is skipped or told twice), `FreedWhenClosed` (no interface is freed that somebody has open), `TreeAtRest` and `MultipleUndone` (a call that fails leaves what it found), `Served` (every call returns, every registrant hears of every interface) |
| `images_core` | 267 000 | an application, a boot service driver and a runtime driver: `StartsNest` (the chain behind `CurrentStartImage` is the images that have not returned), `Registry` (loader lists, handle database and debug table agree, and nothing refers to a freed structure), `PointersConverted`, `ApplicationsLeave` |

## Bounds

* `Exec`: five levels are the five the code uses (application, callback, notify,
  check-timer, high). `MaxDepth` bounds new calls and interrupts; services
  already entered may go deeper. Four frames and the ones they lead to hold a notify
  function inside an interrupt inside a dispatcher inside a raised section.
  `exec_services` has other kinds of events and less depth, for the liveness properties. `SignalCount` needs no bound. The theorems
  hold for any number of levels and events and any depth.
* `Timers`: two timers (order and ties), four units of time, ticks of one and
  three (skipped trigger times), delays from zero. The clock stops at `MaxTime`,
  ticks go on.
* `VarStore`: a unit is `sizeof(VARIABLE)`; a header takes one and an entry two to four.
  Banks of seven or nine units, so that every third or fourth update collects; two banks
  (the layout of the platforms), two variables, `VARH_MAX_SEQUENCE` of two or three so
  that the numbers run out. A torn size reads as 4 or 6 in `var_live`, so that it
  makes the bank corrupt or not, depending on what is in front of it. Power failures are
  not bounded, device errors are (`MaxErrors`).
* `Monotonic`: six or fewer counts to a high part, five high parts. `MaxHigh`
  ends every behaviour, hence `CHECK_DEADLOCK FALSE`.
* `Pages`: six pages of memory in two regions with different attributes; blocks as
  large as half a page, so that two descriptors fill a page and every second
  conversion makes the pool take or return one; two outstanding page allocations
  and one of pool. The alignment is one page (`Align`; IA-64 uses two).
  `MAX_MAP_DEPTH` is the code's six, of which at most three are used. The run ends
  at `ExitBootServices`, or where the code goes on with a NULL descriptor
  (`Undefined`), hence `CHECK_DEADLOCK FALSE`.
* `Handles`: two handles and three interfaces, so that memory is used again; a bus
  driver and two drivers that compete for its child, one of which may refuse to
  stop; one callback during a call of the application.
* `Images`: one image of each kind besides the firmware, three calls deep (a driver
  inside an application inside the boot manager's call, or a notification inside a
  driver), all five failures, seven virtual maps. The run ends in virtual mode, hence
  `CHECK_DEADLOCK FALSE`.

## Fairness

* `Exec!FairSpec`: the code of a frame goes on between interrupts (strong fairness
  for each stack depth, since an interrupt pushes and pops frames above it: the
  timer period is long against its handler), user code leaves what it entered,
  the timer keeps ticking. `QuietSpec` adds that callers and expiring timers stop
  at some point: a notify function that signals itself keeps the firmware busy
  for ever, and that is the caller's doing.
* `Timers!FairSpec`: the thread goes on, ticks come, and `CheckTimers`, once
  signalled, runs when the lock is free (strong fairness, because releasing the
  lock restores a level below it and dispatches it at that moment).
* `VarStore!FairSpec`: the thread goes on, and at some point the power stays on.
* `Handles!FairSpec`: the services and drivers go on (weak fairness), and a queued
  notification is dispatched (strong fairness, because every return to a level
  below it dispatches it).
* `Pages!FairSpec`: the running service goes on; `mem_loop` fails under it.
* `Images!FairSpec`: at each depth, services go on and user code returns (strong
  fairness, since notifications push and pop frames above): notifications end,
  and entry points that never return are outside `ApplicationsLeave`.

## Proofs

`ExecProofs` proves for every set of events, any arguments, any number of levels
from three on, any depth and both kinds of builds (`rereads`):

* `TypeCorrect`: `TypeOK` is an invariant;
* `MutualExclusion`: `LockExclusive`;
* `DispatcherLevel`: `DispatchOwner`;
* `HighLevelFirst`: `HighBeforeInterrupts`;
* `NoStrandedLevel`: `QueuedIsPending`;
* `Invariance`: the inductive invariant `IInv` they follow from.

None of them is inductive. `LockExclusive` speaks of the lock and of the level
its owner saved; to keep it over a return one must know what the frames below
will do when they run again. `IInv` therefore adds to the type invariant,
`HighBeforeInterrupts` and `QueuedIsPending`:

* `StackInv`: each suspended frame waits at a point where it can have called the
  one above it, and that one will restore exactly the level the lower one needs
  (`Suspended`, `LevelOK`);
* `LockInv`: the lock is held exactly when the top frame is inside a locked
  section, then `TPL = TPL_HIGH_LEVEL` and interrupts are off, and the saved
  level is the one the section entered with;
* `TopInv`: the level and the interrupt flag agree with what the top frame is
  about to do.

The argument: sections under the lock run at the top level with interrupts off,
so nothing is pushed on top of them; every other frame that is suspended gets
back the level it had, because whatever is pushed on it ends in a `RestoreTPL` to
the level it found. The proof has one lemma per action and, in it, one step per
conjunct. Assumptions are those of `ConstAssumption`: the levels are ordered, the
check-timer event is never closed, callers raise to valid levels.

Its second part proves, from the same assumptions, `NoDanglingEvent` (`QueuesWellFormed`),
`NoWedgedSignal` (`SignalledIsQueued`) and `NestedLevels` (`NotifyNests`, which says less of
builds that read `EventPending` twice, see below). What rests on the duties of callers in
`MayUse` and `MayClose` is the first two, and they hold although an event may be closed
between its turn in the queue and its call.

* The invariant `EInv` adds to `IInv` that lists have no entry twice and lead to live
  events only (`ListsInv`), that a frame whose code will look at an event again finds
  it alive (`UsersInv`), and that whoever closes an event is alone with it: no other
  frame uses it, and once the lock is released no list leads to it (`ClosersInv`). The
  last one is what makes `FreePool` safe: between unlinking and freeing, an interrupt
  may run any number of dispatchers, and none can find the event. Most steps only move
  frames (`StackKept`): those that close an event stay as they are, and what a new frame
  uses is alive and closed by nobody, because a list or the frame below led to it.
  `SignalledIsQueued` is inductive on top of that: `SignalEvent` sets the count and
  queues the event in one locked section, and the dispatcher and `CheckEvent` take both
  back in one.
* `NInv` says that the levels frames will restore do not decrease up the stack, and
  that a dispatcher serves a level above the one it will restore. A suspended notify
  function gets its own level back from the frame above it (`LevelOK`, from `IInv`), so
  every dispatcher above it serves a higher one. In a build that reads `EventPending`
  twice this is true of the levels from `TPL_HIGH_LEVEL - 1` up only (`Kept`): to restore
  such a level the loop finds nothing but `TPL_HIGH_LEVEL` pending, with interrupts off,
  so the second read gives the same.

`MonotonicProofs` proves, for any width of the counter, any number of boots and
with or without preempting callers and failing saves, `CounterTypes`,
`UpdateIsQueued` (`UpdateInTime`), `CountsIncrease` (`Increasing`) and
`HighPartsIncrease` (`HighIncreasing`). `Increasing` compares a count with the earlier
ones whose high part had been saved when they were taken, and says nothing of the others,
which a power failure lets repeat even when no save ever fails (see below). The inductive invariant adds to the types
that every count handed out is below the counter in memory or below what the next
boot will start from (`CountsBelow`), that a save in progress is one of the current
high part (`SavesNewHigh`), and that a caller between its two reads of `EfiMtc` will
see a toggle that nobody else has seen (`ToggleSeen`).

`TimersProofs` proves, for any set of timers and delays, `TimerTypes`,
`TimerListSorted` (`ListSorted`) and, if sums of clock and delays stay below `TimeMod`
(`NoWrap`), `TimersPunctual` (`Punctual`). Sortedness alone is inductive once the
place where `InsertEventTimer` inserts is known to exist, by the well-ordering of
the naturals; punctuality needs that the snapshot of `CheckTimers` is not ahead of
the clock (`ClockInv`) and that every armed trigger time is at least what was asked
for, plus the periods fired (`TriggersLate`).

`ImagesProofs` proves `ImageInvariant` and, from it, `StartsAreNested` (`StartsNest`), for
any set of images, any depth, whatever fails and with callbacks that call `Exit` or
not. The assumption is that callers leave alone what a call below works on
(`~Reckless`). Besides types, the inductive invariant says that no two calls work on
the same image unless the upper one only asks it to unload itself (`OneUser`), that
the chain is ordered as the stack is (`Chain`), and that a context belongs to the call
of `StartImage` for that very image (`Contexts`). The argument: most steps neither
start an image nor let one return (`Quiet`) and keep the chain for that reason; a start
puts the largest depth in front of it; `Exit` cuts the stack to a depth that is the
largest in the chain, so nothing that is cut off was linked; freeing a structure
cannot lose a context, since by `OneUser` no `StartImage` below is for that image.
`ImagesAssumption` only says what the constants are.

On top of it come `RegistryKept` (`Registry`) and `PointersKept` (`PointersConverted`).

* `RegInv` follows an image structure through its life: which of the loader's lists,
  the handle database and the debug table know of it in which state, and which calls
  may still refer to it when it is freed. `UnloadImage` is where it is needed: it frees
  after the last callback, and only `OneUser` says that no call below will return to
  the structure.
* `PointerInv` follows each pointer of a runtime image through
  `SetVirtualAddressMap`. It has one hypothesis besides `~Reckless`, `MapsApart`: the
  operating system does not map the data a driver points to at an address that equals
  what the loader wrote into the word (`FixupData`), unless the image does not move.
  That is a limit of the code, not of the proof: `ConvertPeImage` takes a word that equals
  its `FixupData` for one that nobody has converted, so with such a map it converts a
  pointer again that the driver has converted itself. `RuntimeAssumption` says that an
  image lies in one descriptor.

`PoolProofs` and `PagesProofs` prove, for any memory, any page and block sizes, any requests
and any order of services, what `mem_core` checks: `MapStaysSound` (`MapSound`),
`PoolStaysSound` (`PoolSound`), `PagesAccounted` (`Accounted`), `KeyStaysCurrent`
(`KeyIsCurrent`), `FreesAlwaysSucceed` (`FreesSucceed`) and, step by step, the refinement
`MapImplementsPages` (`Refines`).

* All of them rest on one invariant `IInv`, because the map lives in the pool and the
  pool in the map: a descriptor is overwritten unless the pool knows who has its block,
  and a page is carved twice unless the map says truly which pages are free. Its parts
  are the types; the call stack (`Calls`: which function may be waiting for which, and
  with which range, block or result); the partition of memory into descriptors and
  ranges on their way to `AddRange` (`Map`, `Reported`); the owner of each block and the
  free lists (`Pool`); the owner of each page, and the range that a running conversion
  claims (`Pages4`, `Claims`); and the key (`Keys`).
* The hard step is `ConvertPages` between `Cut` and `AddRange`: the range is in no
  descriptor, its block may be freed, that may free a page, and this converts pages
  again. `Claims` says that the nested range is disjoint from every range below it, so
  each level can be reasoned about as if it were alone.
* The hypothesis of all six is `[]DepthBounded`, the two assertions of the code on the
  depth of `MapStack` (`page.c:378`, `647`). It cannot be derived: each turn of
  `FreeMemoryMapStack` may push two descriptors and pop one, and that this does not
  go on depends on how much free memory is left and where. `mem_core` checks it as part of
  `TypeOK` for its instance.
* `PagesAssumption` says what the constants are, that the regions a platform reports do
  not overlap, and that the two types the firmware itself uses (`EfiRuntimeServicesData`,
  `EfiBootServicesData`) are not OS types.

`VarStoreProofs` proves `OnlyClearsBits` (`BitsCleared`), `SpaceIsKept` (`SpaceKept`) and
`TypesCorrect` (`TypeOK`, the part of `Asserted` that holds for all constants) for any number of stores and banks,
any variables, any number of device errors and any factory contents, with power
failures at every step of services and recovery and in the middle of writes. They have
two hypotheses. `SizesTold`: no entry is longer than its `Size` field can tell, which is up to
the callers, since the length of a name is not bounded. `[]NeverCorrupt`: recovery finds no
corrupt bank; after one, `SpaceKept` is false (`varinit.c:742`). `NothingCorrupts` proves the
second one from the first for devices that write the two bytes of a size as one
(`GarbledSizes = {}`) and whose first contents fit their banks (`FactoryFits`).

* The code never reads the device before it writes: it writes what its copies in memory
  say. So the invariant `IInv` says that the copies agree with the device (`Synced`): the
  header of every bank, and the entries of every bank that the store uses, is about to
  use (`Activate`) or keeps for transactions.
* They do not agree all the time. A bank that has not been read since the power failed,
  is being erased, or is being filled by a collection is an exception, and so is one
  with a device error, which the code does not write to again. That is why `IInv` needs the order of the steps that
  remain (`Steps`, `Before`): a collection, an erase, an update and a reset of the sequence
  numbers each run to their end before another one starts, so an exception is over
  before anything else looks at the bank. While a collection has yet to write its
  entries (`Data`), the device holds none there; while a bank waits for its header, it is blank.
* `Lists` says that the transaction bank is empty and on no list: a collection appends to
  it and does not erase it first.
* `SpaceKept` is not inductive: when an entry becomes obsolete its size is taken from `InUse`
  whatever its state was (`varapi.c:570`, `varinit.c:562`), and `SetVariable` appends without looking at the end of
  the bank; both trust what was found when the service began (`Room`, `Delete`, `Replace`,
  `Check`). `AInv` adds that trust to `IInv`, as `Planned(todo)`: an entry that will be marked is valid
  now and what will be appended fits now (`Fine`), a service appends once and marks nothing
  after it made an entry obsolete (`Apart`), and nothing else comes between the search and
  the update (`Before`). So an entry is freed once. In recovery `Fine` is what `RtVarMove`
  hopes for, "By design there should always be enough space" (`vgarbage.c:56`): if there were
  not, it would write from an offset it never set. A collection appends what is valid in one
  bank to an empty one; its test for room (`Moved`) and the sums (`SpaceAppend`, `SpaceMark`,
  `Fits`) give both halves of `SpaceKept` there. After a power failure `Scan` establishes it
  anew, from what the device holds.
* `NothingCorrupts` adds `Contained` to the invariant: the entries on the device end within
  their bank. An update writes there what is in memory, of which `Fine` knew that it fits; a write
  that the power cuts off leaves a part of it, or an entry of the same size that counts as obsolete
  (`TornContained`). So `Scan` never finds a corrupt bank, and as long as it has not,
  `AInv` holds, from which the next write is known to fit: the two are proved together, step by step.
* The assumptions `StoreAssumption` and `FactoryAssumption` only say what the constants are;
  a bank has room for its header (`BankSize` is not 0).

`HandlesProofs` proves `DatabaseStaysSound` (`DatabaseSound`) and `RegistrationsMissNothing`
(`Registrations`) for any handles, protocols, drivers and events, any calls of the
application and of callbacks, with any arguments, and any depth of drivers that call
the services.

* They rest on what the callers owe to the database, since the code does not check it,
  `TargetsKept`: while `UninstallProtocolInterface`, `ReinstallProtocolInterface` or
  `OpenProtocol` has let go of the lock to stop the drivers of an interface, nobody else
  removes or replaces that interface. It holds in the instance of `handles_core`.
* There is no theorem for `FreedWhenClosed`. Besides that window (`handle.c:656`) it needs
  that nobody installs a protocol on a handle between another caller's `HandleProtocol` and
  its lock (`handle.c:349-351`): otherwise a handle may have a protocol twice, a reinstall
  may make the two interfaces equal, and the second look-up of `UninstallProtocolInterface`
  (`handle.c:774`) may find another interface than the one whose opens were examined. The
  code closes neither window, and a theorem would assume them away; `handles_core` checks
  the property against drivers that call the services from `Stop`, with callbacks that do not
  take away what is in use.
* The invariant `IInv` says, element by element, that an interface is in the list of its
  handle and of its protocol and in no other, once (`Lists`); that the interface a frame works on
  is still the one it looked up, on that handle, of that protocol (`StackOK`); that an
  interface has one driver at most (`Opened`); and, for registrations, `SeenExactly`
  and `NotMissed` with what they need: a notification function is on the stack only
  above a callback, so its event stays registered (`LocateOK`).
* Only four things happen to the interfaces in a step (`Effect`): none is moved, one is
  replaced, one removed, one added. Most steps are of the first kind, and what they put
  on the stack is well formed (`PureStep`). The hard ones are a removal and a
  replacement, where a registration's position moves back (`UpToRemoved`): what was
  told of before is what is now up to the new position, without the interface that left.
* `HandlesAssumption` says what the constants are and that calls have arguments of their
  types; handles and interfaces among the arguments may be anything.

For the proofs a few operators are closed forms or recursive functions instead of folds:
`Fitting`, `Left` and `Elsewhere` in `Pages`, `RemoveFirst` in `Images`, `Applied` in
`Virtual`, `Without`, `Moved` and `Total` in `VarStore`, `FirstOn`, `RemoveEntryList` and `Sorted` in
`Handles`. Facts about recursive functions are proved from the least index at which they
fail (`LeastNat`): the induction rules of the library take an operator as parameter,
which the provers cannot instantiate, its well-foundedness theorems do not.

The type invariants of `Exec`, `Timers` and `Monotonic` are proved instead of run.

Only model-checked: `ReadsBack`, `CollectionsSafe` (`TBankClear` and `OldCopyKept`), `Atomic` and the `OneTransition` of
`Asserted` of `VarStore`;
`FreedWhenClosed`, `TreeAtRest` and `MultipleUndone` of `Handles`, which depend on what drivers and
callbacks do to each other's handles; `MAX_MAP_DEPTH` of `Pages`, as said above; and everything about liveness,
which is out of the prover's reach. `CollectionsSafe` and `OneTransition` do not hold for all
constants: the first not with device errors or three banks (see below), the second not with three
banks, where a device error in one change-over and a power failure in the next leave two
banks in transition. That is why `OneTransition` makes two of its three claims for stores of at
most two banks only; without that bound it fails with the three banks described below and
`MaxErrors = 1`. Nor do `ReadsBack` and `Atomic`, for boot service variables that are
set at runtime. A theorem about them needs hypotheses that say so.

## What the code does not guarantee

Three runs show where the code does less than a comment or description says:

* `exec_lost_signal`. A signal of a wait event that is already queued by
  `CheckEvent` is erased by the dispatcher, and `WaitForEvent` goes on waiting.
* `var_shrink`. If the power fails while a variable gets a shorter value, recovery
  wants room for a second copy of the longer one, does not find it, and deletes
  the variable.
* `mem_loop`. `FreeMemoryMapStack` moves a descriptor to a new pool page whose
  allocation makes the descriptor needless; it frees the page, which makes the
  descriptor again, for ever, with `MemoryLock` held.

More of the same kind came up and can be had by changing a constant or checking
another property:

* `Exec`. In a build that reads `EventPending` twice, notify functions below
  `TPL_HIGH_LEVEL - 1` do not nest: an interrupt between the two reads empties it,
  `HighestSetBit(0)` is 0, and the TPL drops below the section that is being restored
  (`tpl.c:205-206`). That is why `NotifyNests` leaves the lower levels out for such builds
  (`Nested`); with `Nested` always true it fails in `exec_core`. `NotifyAlive` fails in
  `exec_services`: the dispatcher takes an event from its queue and releases the lock
  (`event.c:167-174`), a notification of a higher level closes the event, and `FreePool` has
  its memory when `NotifyFunction` is read from it (`event.c:178`, `646-693`).
  `RestoreDispatchesAll` fails:
  `RestoreTPL` looks at `EventPending` for the last time before it sets `TPL = NewTpl`
  (`tpl.c:205`, `216`), and a timer interrupt in between leaves its notification
  pending until the next `RestoreTPL`. With `bad` among the events,
  `SignalTypeInRange` fails: a type whose low byte is 3 passes `CreateEvent`'s tests
  and meets its assertion (`event.c:422`).
* `Timers`. With `TimeMod = 8` and a delay of 7, `Punctual` fails: the sum of clock and
  delay wraps.
* `VarStore`. In `var_core`, `HasTBank` fails: a change-over interrupted before the old
  bank is erased leaves a two-bank store without a transaction bank for the whole
  next boot, and no variable can be set. With `BootX` as the calls, `ReadsBack` and
  `Atomic` fail: at runtime `SetVariable` does not see a boot service variable and
  adds a second copy, of which recovery keeps the old one (`varapi.c:103`). With
  `MaxErrors = 1`, `OldCopyKept` fails: collection does not look at write errors of
  the new bank before it erases the old one. In `var_live`, `NeverCorrupt` fails: a
  power failure between the two bytes of an entry's size makes the next boot take
  the bank for corrupt (`varinit.c:708`). What follows is worse than the comment there
  has it ("recover the variables up to the point of corruption"): the bank is
  erased with all its variables, and since `Tail` is set back to where the corrupt entry
  was (`varinit.c:742`), variables set later lie behind erased bytes, count as
  `InUse` and are found neither by `GetVariable` nor after the next boot. `SpaceKept`, and
  the claims that `Gap` is 0 and that nothing is `Hidden`, fail in `var_live` for it.
  With three banks (`ThreeBanks`, `XAndM`,
  `SetX`, `m` and `x` as names, a `BankSize` of 6, a `VARH_MAX_SEQUENCE` of 6, whole sizes and no errors), `Atomic` fails after a
  second power failure in the recovery from the first; and `TBankClear` fails, since a
  bank without entries that is half committed is taken as transaction bank. With two
  banks that cannot happen as long as the store is never empty, and it is not:
  `FwNvStoreInstalled` ends with `InitializeMonotonicCount`, which saves `MTC`. The
  instances keep one variable for ever for this reason.
* `Monotonic`. A driver above `TPL_CALLBACK` that takes a count after the handler has
  moved the high part and before it has saved it, and every caller after a save that failed
  (its status is dropped, `mtc.c:96`), may see the same number again after a power
  failure. The first needs no failing save. `Increasing` leaves both kinds out.
* `Handles`. With `OwnersWait = FALSE`, `TargetsKept` and `DatabaseSound` fail: `Prot` is
  used after the lock was released for `DisconnectController` and taken again
  (`handle.c:656`), by uninstall, reinstall and exclusive opens alike, and it may be another
  interface by then. An exclusive open does not look
  again who has the interface when it has the lock back (`OneExclusive`,
  `handle.c:1129`; the callbacks of the run do not open). `UninstallMultiple` cannot put
  back what it removed when that was the last interface of the handle
  (`handle.c:875`), which is why `MultipleUndone` asks for a valid handle.
* `Pages`. `WipesFreePagesOnly` fails: IA-32 debug builds destroy the contents of freed
  pages after `MemoryLock` is released (`page.c:1106-1117`), when they may belong to
  someone else. `AllocateAddress` over a range that is free only in part leaves the
  part before with its new type and gives it to nobody (`lost`). Pages allocated
  across a change of attributes cannot be freed at once (`page.c:1100`,
  `FreeableAgain`). `FreeMemoryMapStack` does not test for NULL when memory is
  exhausted (`page.c:430`, `Undefined`).
* `Images`. `LockReleased` fails with `"copy"` in `Failing`: `LoadImage` leaves with
  `ImageListLock` taken when there is no memory for the runtime copy of the structure
  (`load.c:438-441`). With `Reckless = TRUE`, `NothingStale` fails: `UnloadImage` looks
  at `Started` and at the `Unload` function and not at `StartImageContext`, so a driver
  can be unloaded below a `StartImage` that still uses its structure (`load.c:655`).
  With `CallbacksExit = TRUE`, `ApplicationsLeave` fails: `Exit` from a driver that is
  being connected inside another image's `StartImage` drops that call before it
  unloads its image.

And from reading, outside the models: `RtLoaderExitBootServices` clears, and
`UnloadImage` frees, `NumberOfPages` pages from a base that was aligned upwards, hence
pages behind the image when `SectionAlignment` exceeds a page (`load.c:773`, `881`,
`pe.c:231`); `ImageEof`, the first address behind an image, is converted with whatever
descriptor comes next, or stops the firmware when there is none (`load.c:921`,
`virt.c:355`); an entry of a virtual map gives only the first descriptor it covers an
address (`virt.c:151`; in `Virtual`, such maps are refused); `FreePool (ExitData)` frees
the caller's variable instead of the data (`load.c:646`); the file stays open when the
structure cannot be allocated (`load.c:400`); `sizeof (DriverOsHandoffHeader)` is the
size of a pointer (`virt.c:233`); `SortedDriverBindingProtocols` is sized before the
drivers it holds are counted (`DriverSupport.c:388`); `Handle->Key`, by which
`StartImage` finds the handles an image has changed, moves when a handle is made and
when an interface is removed or reinstalled, and not when one is added
(`handle.c:397`, `784`).

## What is left out

Beyond what the sections on the modules name: initialisation order and service
tables; the parsing of PE images and the CRC; platforms, boot manager, EDK
drivers, shell and toolkit, which use the core and have their own hardware
protocols; the switch to virtual addresses inside the variable code. After
`ExitBootServices` there is no timer interrupt and no dispatching; `Timers` and
`Exec` cover the time before. By lines the core is a small part of the repository,
most of which is the toolkit (a C library, TCP/IP, Python) and drivers for devices.

## Plan

1. Proofs: on top of the invariants of `VarStoreProofs`, `ReadsBack` for callers that do
   not set boot service variables at runtime, and `CollectionsSafe` for two banks without device errors.
2. `OpenProtocol` with override protocols and the handle keys that `StartImage` uses to
   connect what an image has changed.
3. Candidates above the core: the FAT driver's write cache and the order of its
   writes, retries and late answers in the PXE and MTFTP clients.
