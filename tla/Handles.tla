------------------------------ MODULE Handles ------------------------------
(***************************************************************************)
(* The handle and protocol database and the connection of drivers:         *)
(* COREFW/fw/efi/hand/handle.c, notify.c, locate.c and DriverSupport.c.    *)
(*                                                                         *)
(* There is one processor.  todo is its call stack, the running function   *)
(* last, and every action is what a function does from one point where     *)
(* ProtocolDatabaseLock is free to the next.  At such a point a callback   *)
(* at TPL_CALLBACK may interrupt the application and call the services     *)
(* too; the services themselves let go of the lock to call drivers, which  *)
(* call the services again.                                                *)
(*                                                                         *)
(* Handles and PROTOCOL_INTERFACE structures are memory that is used again *)
(* after it was freed.  Image handles (the agents) stay valid.             *)
(***************************************************************************)
EXTENDS Integers, Sequences, SequencesExt, FiniteSetsExt

CONSTANTS
    Handle, Prot,       \* memory for IHANDLE and PROTOCOL_INTERFACE
    Protocol, Interface,
    Event, Watch,       \* events for RegisterProtocolNotify, and protocols
    Driver,             \* the driver images, highest version first
    Binds,              \* Binds[d]: the protocol driver d opens BY_DRIVER
    Makes,              \* Makes[d]: the protocol of its children, or None
    Reluctant,          \* drivers whose Stop may fail
    AppCalls,           \* the calls the application makes
    CallbackCalls,      \* and the ones callbacks make
    MaxCallbacks,       \* bound: calls by callbacks during one by the application
    OwnersWait,         \* TRUE: no callback takes a handle away that is in use
    None, New           \* no handle (interface, ...); a handle to be made

BY_DRIVER == "BY_DRIVER"
EXCLUSIVE == "EXCLUSIVE"
DRIVER_EXCLUSIVE == "BY_DRIVER|EXCLUSIVE"
BY_CHILD == "BY_CHILD_CONTROLLER"
GET == "GET_PROTOCOL"       \* BY_HANDLE_PROTOCOL and TEST_PROTOCOL are alike
Attribute == {BY_DRIVER, EXCLUSIVE, DRIVER_EXCLUSIVE, BY_CHILD, GET}

Drivers == {Driver[j] : j \in DOMAIN Driver}
Agent == Drivers \cup {c.agent : c \in AppCalls \cup CallbackCalls}

VARIABLES
    handles,        \* the handles with a valid Signature: HandleList
    prot,           \* prot[k]: the PROTOCOL_INTERFACE in k, or Freed
    onHandle,       \* onHandle[h]: its Protocols, the last added first
    byProtocol,     \* byProtocol[p]: the PROTOCOL_ENTRY's Protocols in order
    reg,            \* reg[e]: its PROTOCOL_NOTIFY: protocol and Position
    signalled,      \* events signalled whose notification is not yet started
    todo,           \* the call stack
    ret,            \* what the last call returned: a status and a handle
    interrupts,     \* callbacks since the application made its call
    got             \* got[e]: the interfaces e's registrant has been told of

db == <<handles, prot, onHandle, byProtocol>>
notes == <<reg, signalled, got>>
vars == <<db, notes, todo, ret, interrupts>>

-----------------------------------------------------------------------------
(* Lists *)

Freed == [h |-> None, p |-> None, i |-> None, open |-> {}]

\* The first interface of handle h that is one of K.
FirstOn(h, K) ==
    LET good == {j \in DOMAIN onHandle[h] : onHandle[h][j] \in K}
    IN  IF good = {} THEN None ELSE onHandle[h][Min(good)]

GetProtocolEntry(h, p) == FirstOn(h, {k \in Prot : prot[k].p = p})

FindProtocolInterface(h, p, i) == FirstOn(h, {k \in Prot : prot[k].p = p /\ prot[k].i = i})

Opens(h) == UNION {prot[k].open : k \in Range(onHandle[h])}

DriverOpens(S) == {o \in S : o.attr \in {BY_DRIVER, DRIVER_EXCLUSIVE}}
ExclusiveOpens(S) == {o \in S : o.attr \in {EXCLUSIVE, DRIVER_EXCLUSIVE}}
ChildOpens(S) == {o \in S : o.attr = BY_CHILD}

\* The list head is None: it is before the first interface.
Place(s, k) == CHOOSE j \in DOMAIN s : s[j] = k
Before(s, k) == IF Place(s, k) = 1 THEN None ELSE s[Place(s, k) - 1]
UpTo(s, k) == IF k = None THEN {} ELSE {s[j] : j \in 1 .. Place(s, k)}

RemoveEntryList(s, k) == RemoveAt(s, Place(s, k))

-----------------------------------------------------------------------------
(* The call stack *)

Call(op) == [op |-> op, h |-> None, p |-> None, i |-> None, agent |-> None, ctrl |-> None,
             attr |-> GET, prot |-> None, to |-> None, set |-> {}, list |-> <<>>, n |-> 0]

DoInstall(h, p, i) == [Call("Install") EXCEPT !.h = h, !.p = p, !.i = i]
DoUninstall(h, p, i) == [Call("Uninstall") EXCEPT !.h = h, !.p = p, !.i = i]
DoReinstall(h, p, i, to) == [Call("Reinstall") EXCEPT !.h = h, !.p = p, !.i = i, !.to = to]
DoOpen(h, p, a, c, at) ==
    [Call("Open") EXCEPT !.h = h, !.p = p, !.agent = a, !.ctrl = c, !.attr = at]
DoClose(h, p, a, c) == [Call("Close") EXCEPT !.h = h, !.p = p, !.agent = a, !.ctrl = c]
DoConnectWith(h, drivers) == [Call("Connect") EXCEPT !.h = h, !.list = drivers]
DoConnect(h) == DoConnectWith(h, <<>>)
DoDisconnect(h, d, c) == [Call("Disconnect") EXCEPT !.h = h, !.agent = d, !.ctrl = c]
DoStart(d, h) == [Call("Start") EXCEPT !.agent = d, !.h = h]
DoStop(d, h, S) == [Call("Stop") EXCEPT !.agent = d, !.h = h, !.set = S]
DoInstallMultiple(h, list) == [Call("InstallMultiple") EXCEPT !.h = h, !.list = list]
DoUninstallMultiple(h, list) == [Call("UninstallMultiple") EXCEPT !.h = h, !.list = list]

\* What applications and callbacks may call, and with which arguments.
ServiceCall(c) ==
    \/ c = DoInstall(c.h, c.p, c.i) /\ c.p \in Protocol /\ c.i \in Interface
    \/ c = DoUninstall(c.h, c.p, c.i)
    \/ c = DoReinstall(c.h, c.p, c.i, c.to) /\ c.to \in Interface
    \/ c = DoOpen(c.h, c.p, c.agent, c.ctrl, c.attr) /\ c.attr \in Attribute
    \/ c = DoClose(c.h, c.p, c.agent, c.ctrl)
    \/ c = DoConnectWith(c.h, c.list) /\ c.list \in Seq(Drivers)
    \/ c = DoDisconnect(c.h, c.agent, c.ctrl)
    \/ /\ c = DoInstallMultiple(c.h, c.list) \/ c = DoUninstallMultiple(c.h, c.list)
       /\ c.list \in Seq(Protocol \X Interface)

ASSUME HandlesAssumption ==
    /\ Driver \in Seq(Drivers) /\ Makes \in [Drivers -> Protocol \cup {None}]
    /\ Interface # {} /\ Watch \subseteq Protocol /\ MaxCallbacks \in Nat
    /\ None \notin Handle \cup Prot \cup Protocol
    /\ \A c \in AppCalls \cup CallbackCalls : ServiceCall(c)

Running(op) == todo # <<>> /\ Last(todo).op = op
Goto(calls) == todo' = Front(todo) \o calls
Enter(calls) == Goto(calls) /\ UNCHANGED ret
Status(s, h) == [status |-> s, h |-> h]
Return(s) == Goto(<<>>) /\ ret' = Status(s, None)
Err == ret.status # "SUCCESS"

\* One callback at a time, and none above TPL_CALLBACK.
InCallback == \E j \in DOMAIN todo : todo[j].op = "Callback"
AtNotify == \E j \in DOMAIN todo : todo[j].op \in {"InstallMultiple", "UndoInstalls"}
CanInterrupt == ~InCallback /\ ~AtNotify

-----------------------------------------------------------------------------
(* Installing *)

Registered(p) == {e \in Event : reg[e].p = p}

\* Mutant: the registrants are not told.
NotifyProtocolEntry_Not(p) == UNCHANGED signalled

NotifyProtocolEntry(p) == signalled' = signalled \cup Registered(p)

\* InstallProtocolInterface first asks HandleProtocol, without the lock.
Install ==
    /\ Running("Install")
    /\ LET f == Last(todo)
       IN  IF f.h \in handles /\ GetProtocolEntry(f.h, f.p) # None
           THEN Return("INVALID_PARAMETER")
           ELSE Enter(<<[f EXCEPT !.op = "InstallLocked"]>>)
    /\ UNCHANGED <<db, notes, interrupts>>

\* The interface goes to the head of the handle's list and to the tail of the
\* protocol's.  If the ASSERT that it is unique fails, the firmware stops.  Out
\* of memory, the status is the one HandleProtocol gave.
AddInterface(k, h, p, i) ==
    /\ prot' = [prot EXCEPT ![k] = [h |-> h, p |-> p, i |-> i, open |-> {}]]
    /\ onHandle' = [onHandle EXCEPT ![h] = <<k>> \o @]
    /\ byProtocol' = [byProtocol EXCEPT ![p] = Append(@, k)]
    /\ handles' = handles \cup {h}

FreeProt == {k \in Prot : prot[k] = Freed}
HandleFor(f) == IF f.h = New THEN Handle \ handles ELSE {f.h}

InstallLocked ==
    /\ Running("InstallLocked")
    /\ LET f == Last(todo)
       IN  \/ /\ FreeProt = {} \/ HandleFor(f) = {}
              /\ Return(IF f.h = New THEN "OUT_OF_RESOURCES" ELSE "UNSUPPORTED")
              /\ UNCHANGED <<db, signalled>>
           \/ /\ FreeProt # {} /\ f.h # New /\ f.h \notin handles
              /\ Return("INVALID_PARAMETER")
              /\ UNCHANGED <<db, signalled>>
           \/ /\ FreeProt # {} /\ HandleFor(f) # {}
              /\ f.h = New \/ f.h \in handles
              /\ LET h == CHOOSE x \in HandleFor(f) : TRUE
                     k == CHOOSE x \in FreeProt : TRUE
                 IN  /\ FindProtocolInterface(h, f.p, f.i) = None
                     /\ AddInterface(k, h, f.p, f.i)
                     /\ NotifyProtocolEntry(f.p)
                     /\ Goto(<<>>)
                     /\ ret' = Status("SUCCESS", h)
    /\ UNCHANGED <<reg, got, interrupts>>

\* InstallMultipleProtocolInterfaces runs at TPL_NOTIFY: no callback interrupts
\* it.  f.n of the interfaces have been tried.
InstallMultiple ==
    /\ Running("InstallMultiple")
    /\ LET f == Last(todo)
           h == IF f.n > 0 /\ ~Err THEN ret.h ELSE f.h
       IN  \/ /\ f.n > 0 /\ Err
              /\ Enter(<<[f EXCEPT !.op = "UndoInstalls", !.n = 0, !.to = ret.status,
                                   !.list = SubSeq(@, 1, f.n - 1)]>>)
           \/ /\ f.n = 0 \/ ~Err
              /\ f.n < Len(f.list)
              /\ LET x == f.list[f.n + 1]
                 IN  Enter(<<[f EXCEPT !.h = h, !.n = @ + 1], DoInstall(h, x[1], x[2])>>)
           \/ /\ f.n = Len(f.list) /\ ~Err
              /\ Enter(<<>>)
    /\ UNCHANGED <<db, notes, interrupts>>

\* The ones that were installed are removed again, first to last.  Mutant: the
\* last of them is forgotten.
ToUndo_ButOne(f) == f.n + 1 < Len(f.list)

ToUndo(f) == f.n < Len(f.list)

UndoInstalls ==
    /\ Running("UndoInstalls")
    /\ LET f == Last(todo)
       IN  IF ToUndo(f)
           THEN LET x == f.list[f.n + 1]
                IN  Enter(<<[f EXCEPT !.n = @ + 1], DoUninstall(f.h, x[1], x[2])>>)
           ELSE Return(f.to)
    /\ UNCHANGED <<db, notes, interrupts>>

-----------------------------------------------------------------------------
(* Uninstalling *)

\* A position at k is moved back, and k leaves both lists.  Mutant: it is not.
BackUp_Not(k) == UNCHANGED reg

BackUp(k) ==
    reg' = [e \in Event |-> IF reg[e].pos = k /\ reg[e].p = prot[k].p
                            THEN [reg[e] EXCEPT !.pos = Before(byProtocol[prot[k].p], k)]
                            ELSE reg[e]]

Forget(k) == got' = [e \in Event |-> got[e] \ {k}]

\* DisconnectControllersUsingProtocolInterface, from one time it has the lock
\* to the next: the drivers of k are stopped one after the other; if then only
\* opens are left that need not be closed, they are dropped and k is idle.
Refused(f) == f.prot # None /\ Err

Kept(k) == {o \in prot[k].open : o.attr # GET}
Dropped(k) == [prot EXCEPT ![k].open = Kept(k)]

\* Mutant: the opens that are left do not count.
Idle_Any(f, k) == ~Refused(f) /\ DriverOpens(prot[k].open) = {}

Idle(f, k) == ~Refused(f) /\ Kept(k) = {}

StopUsers(f, k) ==
    /\ ~Refused(f)
    /\ \E o \in DriverOpens(prot[k].open) :
          Enter(<<[f EXCEPT !.prot = k], DoDisconnect(f.h, o.agent, None)>>)
    /\ UNCHANGED <<db, notes>>

\* Opens are left: the drivers are connected again.
Reconnect(f, k, rest) ==
    /\ ~Refused(f) /\ ~Idle(f, k) /\ DriverOpens(prot[k].open) = {}
    /\ prot' = Dropped(k)
    /\ Enter(rest \o <<DoConnect(f.h)>>)
    /\ UNCHANGED <<handles, onHandle, byProtocol, notes>>

\* The interface a call works on, which it looks up once.
Target(f) == IF f.prot # None THEN f.prot ELSE FindProtocolInterface(f.h, f.p, f.i)

NoTarget(f) ==
    \/ /\ f.prot = None /\ f.h \notin handles
       /\ Return("INVALID_PARAMETER")
       /\ UNCHANGED <<db, notes>>
    \/ /\ f.prot = None /\ f.h \in handles /\ Target(f) = None
       /\ Return("NOT_FOUND")
       /\ UNCHANGED <<db, notes>>

HasTarget(f) == f.prot # None \/ (f.h \in handles /\ Target(f) # None)

Denied == Call("Denied")

HandlesLeft(h, left) == IF left = <<>> THEN handles \ {h} ELSE handles

\* The idle interface is looked up again and removed, and with the last one the
\* handle.
RemoveInterface(f) ==
    LET k == FindProtocolInterface(f.h, f.p, f.i)
        left == RemoveEntryList(onHandle[f.h], k)
    IN  IF k = None
        THEN /\ prot' = Dropped(Target(f))
             /\ Return("NOT_FOUND")
             /\ UNCHANGED <<handles, onHandle, byProtocol, notes>>
        ELSE /\ BackUp(k) /\ Forget(k)
             /\ byProtocol' = [byProtocol EXCEPT ![f.p] = RemoveEntryList(@, k)]
             /\ onHandle' = [onHandle EXCEPT ![f.h] = left]
             /\ handles' = HandlesLeft(f.h, left)
             /\ prot' = [Dropped(Target(f)) EXCEPT ![k] = Freed]
             /\ Return("SUCCESS")
             /\ UNCHANGED signalled

Uninstall ==
    /\ Running("Uninstall")
    /\ LET f == Last(todo)
       IN  \/ NoTarget(f)
           \/ /\ HasTarget(f)
              /\ \/ Refused(f) /\ Return("ACCESS_DENIED") /\ UNCHANGED <<db, notes>>
                 \/ StopUsers(f, Target(f))
                 \/ Reconnect(f, Target(f), <<Denied>>)
                 \/ Idle(f, Target(f)) /\ RemoveInterface(f)
    /\ UNCHANGED interrupts

\* Mutant: the call returns success when the drivers are connected again.
Deny_Succeeds ==
    /\ Running("Denied")
    /\ Return("SUCCESS")
    /\ UNCHANGED <<db, notes, interrupts>>

Deny ==
    /\ Running("Denied")
    /\ Return("ACCESS_DENIED")
    /\ UNCHANGED <<db, notes, interrupts>>

\* UninstallMultipleProtocolInterfaces, which callbacks can interrupt.
UninstallMultiple ==
    /\ Running("UninstallMultiple")
    /\ LET f == Last(todo)
       IN  \/ /\ f.n > 0 /\ Err
              /\ Enter(<<[f EXCEPT !.op = "UndoUninstalls", !.n = 0, !.to = ret.status,
                                   !.list = SubSeq(@, 1, f.n - 1)]>>)
           \/ /\ f.n = 0 \/ ~Err
              /\ f.n < Len(f.list)
              /\ LET x == f.list[f.n + 1]
                 IN  Enter(<<[f EXCEPT !.n = @ + 1], DoUninstall(f.h, x[1], x[2])>>)
           \/ /\ f.n = Len(f.list) /\ ~Err
              /\ Return("SUCCESS")
    /\ UNCHANGED <<db, notes, interrupts>>

UndoUninstalls ==
    /\ Running("UndoUninstalls")
    /\ LET f == Last(todo)
       IN  IF ToUndo(f)
           THEN LET x == f.list[f.n + 1]
                IN  Enter(<<[f EXCEPT !.n = @ + 1], DoInstall(f.h, x[1], x[2])>>)
           ELSE Return(f.to)
    /\ UNCHANGED <<db, notes, interrupts>>

-----------------------------------------------------------------------------
(* Reinstalling *)

\* The interface is replaced and goes to the tail of its protocol's list, the
\* drivers are connected, and only then are the registrants told.
MoveInterface(f) ==
    LET k == FindProtocolInterface(f.h, f.p, f.i)
    IN  IF k = None
        THEN /\ prot' = Dropped(Target(f))
             /\ Return("NOT_FOUND")
             /\ UNCHANGED <<handles, onHandle, byProtocol, notes>>
        ELSE /\ BackUp(k) /\ Forget(k)
             /\ byProtocol' = [byProtocol EXCEPT ![f.p] = Append(RemoveEntryList(@, k), k)]
             /\ prot' = [Dropped(Target(f)) EXCEPT ![k].i = f.to]
             /\ Enter(<<[f EXCEPT !.op = "Reinstalled"], DoConnect(f.h)>>)
             /\ UNCHANGED <<handles, onHandle, signalled>>

Reinstall ==
    /\ Running("Reinstall")
    /\ LET f == Last(todo)
       IN  \/ NoTarget(f)
           \/ /\ HasTarget(f)
              /\ \/ /\ Refused(f)
                    /\ Enter(<<Denied, DoConnect(f.h)>>)
                    /\ UNCHANGED <<db, notes>>
                 \/ StopUsers(f, Target(f))
                 \/ Reconnect(f, Target(f), <<Denied, DoConnect(f.h)>>)
                 \/ Idle(f, Target(f)) /\ MoveInterface(f)
    /\ UNCHANGED interrupts

Reinstalled ==
    /\ Running("Reinstalled")
    /\ NotifyProtocolEntry(Last(todo).p)
    /\ Return("SUCCESS")
    /\ UNCHANGED <<db, reg, got, interrupts>>

-----------------------------------------------------------------------------
(* Opening and closing *)

Valid(h) == h \in handles

\* The agent's image handle is valid; GET needs no controller.
Invalid(f) ==
    \/ ~Valid(f.h)
    \/ f.attr \in {BY_DRIVER, DRIVER_EXCLUSIVE, BY_CHILD} /\ ~Valid(f.ctrl)
    \/ f.attr = BY_CHILD /\ f.h = f.ctrl

OpenData(f) == [agent |-> f.agent, ctrl |-> f.ctrl, attr |-> f.attr]

\* What others have open that refuses an open.
InTheWay(f, opens) ==
    \/ f.attr \in {BY_DRIVER, EXCLUSIVE, DRIVER_EXCLUSIVE} /\ ExclusiveOpens(opens) # {}
    \/ f.attr = BY_DRIVER /\ DriverOpens(opens) # {}

\* Mutant: a driver that wants exclusive access does not have the other stopped.
WantsExclusive_NoDriver(f) == f.attr = EXCLUSIVE

WantsExclusive(f) == f.attr \in {EXCLUSIVE, DRIVER_EXCLUSIVE}

AddOpen(f, k) ==
    /\ prot' = [prot EXCEPT ![k].open = @ \cup {OpenData(f)}]
    /\ Return("SUCCESS")
    /\ UNCHANGED <<handles, onHandle, byProtocol, notes>>

\* OpenProtocol.  An exclusive open has the drivers stopped first, without the
\* lock, and does not look for other exclusive opens again.
OpenEntry(f) ==
    LET k == GetProtocolEntry(f.h, f.p)
        opens == prot[k].open
        again == OpenData(f) \in opens
    IN  IF Invalid(f) THEN Return("INVALID_PARAMETER") /\ UNCHANGED <<db, notes>>
        ELSE IF k = None THEN Return("UNSUPPORTED") /\ UNCHANGED <<db, notes>>
        ELSE \/ /\ again /\ f.attr \in {BY_DRIVER, DRIVER_EXCLUSIVE}
                /\ Return("ALREADY_STARTED") /\ UNCHANGED <<db, notes>>
             \/ /\ again /\ f.attr \in {BY_CHILD, GET}
                /\ Return("SUCCESS") /\ UNCHANGED <<db, notes>>
             \/ /\ ~again \/ f.attr = EXCLUSIVE
                /\ \/ InTheWay(f, opens) /\ Return("ACCESS_DENIED") /\ UNCHANGED <<db, notes>>
                   \/ ~InTheWay(f, opens) /\ WantsExclusive(f) /\ StopUsers(f, k)
                   \/ /\ ~InTheWay(f, opens) /\ ~(WantsExclusive(f) /\ DriverOpens(opens) # {})
                      /\ AddOpen(f, k)

OpenProtocol ==
    /\ Running("Open")
    /\ LET f == Last(todo)
       IN  \/ f.prot = None /\ OpenEntry(f)
           \/ Refused(f) /\ Return("ACCESS_DENIED") /\ UNCHANGED <<db, notes>>
           \/ f.prot # None /\ StopUsers(f, f.prot)
           \/ f.prot # None /\ ~Refused(f) /\ DriverOpens(prot[f.prot].open) = {} /\ AddOpen(f, f.prot)
    /\ UNCHANGED interrupts

CloseProtocol ==
    /\ Running("Close")
    /\ LET f == Last(todo)
           k == GetProtocolEntry(f.h, f.p)
           Mine(o) == o.agent = f.agent /\ o.ctrl = f.ctrl
       IN  IF ~Valid(f.h) \/ (f.ctrl # None /\ ~Valid(f.ctrl))
           THEN Return("INVALID_PARAMETER") /\ UNCHANGED prot
           ELSE IF k = None \/ ~\E o \in prot[k].open : Mine(o)
           THEN Return("NOT_FOUND") /\ UNCHANGED prot
           ELSE /\ prot' = [prot EXCEPT ![k].open = {o \in @ : ~Mine(o)}]
                /\ Return("SUCCESS")
    /\ UNCHANGED <<handles, onHandle, byProtocol, notes, interrupts>>

-----------------------------------------------------------------------------
(* Connecting and disconnecting drivers.  The drivers are external: Supported *)
(* and Start ask for the protocol a driver binds to, and a bus driver makes   *)
(* one child; Stop does it all backwards, and may refuse.                     *)

Supported(d, h) ==
    /\ h \in handles /\ GetProtocolEntry(h, Binds[d]) # None
    /\ ~InTheWay(DoOpen(h, Binds[d], d, h, BY_DRIVER), prot[GetProtocolEntry(h, Binds[d])].open)

ChildrenOf(opens) == {o.ctrl : o \in ChildOpens(opens)}

\* The drivers the caller names come first, then the others by version.
Sorted(first) ==
    LET With[j \in 0 .. Len(Driver)] ==
            IF j = 0 THEN first
            ELSE IF Driver[j] \in Range(first) THEN With[j - 1]
            ELSE Append(With[j - 1], Driver[j])
    IN  With[Len(Driver)]

ConnectController ==
    /\ Running("Connect")
    /\ LET f == Last(todo)
       IN  IF Valid(f.h)
           THEN Enter(<<[f EXCEPT !.op = "StartDrivers", !.list = Sorted(f.list)]>>)
           ELSE Return("INVALID_PARAMETER")
    /\ UNCHANGED <<db, notes, interrupts>>

\* ConnectSingleController.  f.list are the drivers not yet tried, f.agent is
\* the one started last; f.n counts the ones that started.
ConnectSingleController ==
    /\ Running("StartDrivers")
    /\ LET f == Last(todo)
           able == {j \in DOMAIN f.list : Supported(f.list[j], f.h)}
           n == IF f.agent # None /\ ~Err THEN 1 ELSE f.n
       IN  IF able = {}
           THEN Enter(<<[f EXCEPT !.op = "ConnectChildren", !.n = n, !.list = <<>>, !.agent = None,
                                  !.set = ChildrenOf(Opens(f.h))]>>)
           ELSE LET j == Min(able)
                IN  Enter(<<[f EXCEPT !.n = n, !.agent = f.list[j], !.list = RemoveAt(@, j)],
                            DoStart(f.list[j], f.h)>>)
    /\ UNCHANGED <<db, notes, interrupts>>

ConnectChildren ==
    /\ Running("ConnectChildren")
    /\ LET f == Last(todo)
       IN  \/ /\ f.set = {}
              /\ Return(IF f.n > 0 THEN "SUCCESS" ELSE "NOT_FOUND")
           \/ \E c \in f.set : Enter(<<[f EXCEPT !.set = @ \ {c}], DoConnect(c)>>)
    /\ UNCHANGED <<db, notes, interrupts>>

\* DisconnectController: from one driver, or from all that manage the handle.
DisconnectController ==
    /\ Running("Disconnect")
    /\ LET f == Last(todo)
           managing == {o.agent : o \in DriverOpens(Opens(f.h))}
       IN  IF ~Valid(f.h) \/ (f.ctrl # None /\ ~Valid(f.ctrl))
           THEN Return("INVALID_PARAMETER")
           ELSE IF f.agent = None /\ managing = {}
           THEN Return("SUCCESS")
           ELSE Enter(<<[f EXCEPT !.op = "StopDrivers", !.agent = None,
                                  !.set = IF f.agent = None THEN managing ELSE {f.agent}]>>)
    /\ UNCHANGED <<db, notes, interrupts>>

\* f.agent is the driver stopped last; f.n counts the ones that stopped.  An
\* agent without a Driver Binding Protocol ends it all.
StopDrivers ==
    /\ Running("StopDrivers")
    /\ LET f == Last(todo)
           n == IF f.agent # None /\ ~Err THEN 1 ELSE f.n
       IN  \/ /\ f.set = {}
              /\ Return(IF n > 0 THEN "SUCCESS" ELSE "NOT_FOUND")
           \/ \E d \in f.set \ Drivers : Return("UNSUPPORTED")
           \/ \E d \in f.set \cap Drivers :
                LET mine == {o \in Opens(f.h) : o.agent = d}
                    children == ChildrenOf(mine)
                    next == [f EXCEPT !.n = n, !.set = @ \ {d}, !.agent = d]
                    last == [Call("StopLast") EXCEPT !.agent = d, !.h = f.h]
                IN  IF DriverOpens(mine) = {} \/ (f.ctrl # None /\ f.ctrl \notin children)
                    THEN Enter(<<[next EXCEPT !.agent = None]>>)
                    ELSE IF f.ctrl # None THEN Enter(<<next, DoStop(d, f.h, {f.ctrl})>>)
                    ELSE IF children # {} THEN Enter(<<next, last, DoStop(d, f.h, children)>>)
                    ELSE Enter(<<next, DoStop(d, f.h, {})>>)
    /\ UNCHANGED <<db, notes, interrupts>>

StopLast ==
    /\ Running("StopLast")
    /\ Enter(IF Err THEN <<>> ELSE <<DoStop(Last(todo).agent, Last(todo).h, {})>>)
    /\ UNCHANGED <<db, notes, interrupts>>

\* The drivers' own functions, as the rules for drivers have them.
Tag == CHOOSE i \in Interface : TRUE
At(f, op) == [f EXCEPT !.op = op]
Driving(op) == Running(op) /\ UNCHANGED <<db, notes, interrupts>>

Start ==
    LET f == Last(todo)
    IN  \/ /\ Driving("Start")
           /\ Enter(<<At(f, "StartOpened"), DoOpen(f.h, Binds[f.agent], f.agent, f.h, BY_DRIVER)>>)
        \/ /\ Driving("StartOpened")
           /\ Enter(IF Err \/ Makes[f.agent] = None THEN <<>>
                    ELSE <<At(f, "StartChild"), DoInstall(New, Makes[f.agent], Tag)>>)
        \/ /\ Driving("StartChild")
           /\ IF Err
              THEN Enter(<<At(f, "Fail"), DoClose(f.h, Binds[f.agent], f.agent, f.h)>>)
              ELSE Enter(<<DoOpen(f.h, Binds[f.agent], f.agent, ret.h, BY_CHILD)>>)
        \/ Driving("Fail") /\ Return("DEVICE_ERROR")
        \/ Driving("Succeed") /\ Return("SUCCESS")

Stop ==
    LET f == Last(todo)
    IN  \/ Driving("Stop") /\ f.agent \in Reluctant /\ Return("DEVICE_ERROR")
        \/ /\ Driving("Stop") /\ f.set = {}
           /\ Enter(<<At(f, "Succeed"), DoClose(f.h, Binds[f.agent], f.agent, f.h)>>)
        \/ /\ Driving("Stop") /\ f.set # {}
           /\ Enter(<<At(f, "StopChildren")>>)
        \/ /\ Driving("StopChildren")
           /\ IF f.set = {}
              THEN Return(IF f.n = 0 THEN "SUCCESS" ELSE "DEVICE_ERROR")
              ELSE \E c \in f.set :
                     Enter(<<[f EXCEPT !.set = @ \ {c}, !.ctrl = c, !.op = "ChildClosed"],
                             DoClose(f.h, Binds[f.agent], f.agent, c)>>)
        \/ /\ Driving("ChildClosed")
           /\ Enter(<<At(f, "ChildGone"), DoUninstall(f.ctrl, Makes[f.agent], Tag)>>)
        \/ /\ Driving("ChildGone")
           /\ IF Err /\ f.ctrl \in handles
              THEN Enter(<<[At(f, "StopChildren") EXCEPT !.n = 1],
                           DoOpen(f.h, Binds[f.agent], f.agent, f.ctrl, BY_CHILD)>>)
              ELSE Enter(<<At(f, "StopChildren")>>)

-----------------------------------------------------------------------------
(* Registrations *)

NotRegistered == [p |-> None, pos |-> None]

\* Called by the application or by a callback.
Registering ==
    \/ todo = <<>> /\ UNCHANGED <<todo, ret, interrupts>>
    \/ /\ todo # <<>> /\ CanInterrupt /\ interrupts < MaxCallbacks
       /\ interrupts' = interrupts + 1
       /\ UNCHANGED <<todo, ret>>

\* The caller signals the event itself once, for the interfaces that exist.
RegisterProtocolNotify(e, p) ==
    /\ Registering /\ reg[e] = NotRegistered
    /\ reg' = [reg EXCEPT ![e] = [p |-> p, pos |-> None]]
    /\ signalled' = signalled \cup {e}
    /\ UNCHANGED <<db, got>>

\* Closing the event also takes it off the queues.
UnregisterProtocolNotify(e) ==
    /\ Registering /\ reg[e] # NotRegistered
    /\ reg' = [reg EXCEPT ![e] = NotRegistered]
    /\ signalled' = signalled \ {e}
    /\ got' = [got EXCEPT ![e] = {}]
    /\ UNCHANGED db

\* LocateHandle by registration, as often as it finds a handle.
NextPosition(e) ==
    LET s == byProtocol[reg[e].p]
    IN  IF reg[e].pos = None THEN 1 ELSE 1 + Place(s, reg[e].pos)

LocateHandle ==
    /\ Running("Locate")
    /\ LET e == Last(todo).to
           s == byProtocol[reg[e].p]
           j == NextPosition(e)
       IN  IF j \in DOMAIN s
           THEN /\ reg' = [reg EXCEPT ![e].pos = s[j]]
                /\ got' = [got EXCEPT ![e] = @ \cup {s[j]}]
                /\ UNCHANGED <<todo, ret>>
           ELSE Return("NOT_FOUND") /\ UNCHANGED <<reg, got>>
    /\ UNCHANGED <<db, signalled, interrupts>>

-----------------------------------------------------------------------------
(* The application and the callbacks *)

Interrupt(call) ==
    /\ CanInterrupt
    /\ todo' = todo \o <<[Call("Callback") EXCEPT !.to = ret.status, !.ctrl = ret.h], call>>
    /\ UNCHANGED <<db, ret>>

\* A function on the stack works on the handle.
InUse(h) == \E j \in DOMAIN todo : todo[j].h = h \/ todo[j].ctrl = h \/ h \in todo[j].set
Family(h) == {h} \cup ChildrenOf(Opens(h))
TakesAway(c) == c.op \in {"Uninstall", "UninstallMultiple", "Disconnect"}

Callback ==
    \E c \in CallbackCalls :
        /\ interrupts < MaxCallbacks
        /\ c.h \in handles \cup {New}
        /\ OwnersWait /\ TakesAway(c) => \A h \in Family(c.h) : ~InUse(h)
        /\ Interrupt(c)
        /\ interrupts' = interrupts + 1
        /\ UNCHANGED notes

\* The notification function of a signalled event.
Notified(e) ==
    /\ e \in signalled
    /\ signalled' = signalled \ {e}
    /\ Interrupt([Call("Locate") EXCEPT !.to = e])
    /\ UNCHANGED <<reg, got, interrupts>>

\* The interrupted function goes on with what it had.
CallbackReturns ==
    /\ Running("Callback")
    /\ Goto(<<>>)
    /\ ret' = Status(Last(todo).to, Last(todo).ctrl)
    /\ UNCHANGED <<db, notes, interrupts>>

Register == \E e \in Event, p \in Watch : RegisterProtocolNotify(e, p)
Unregister == \E e \in Event : UnregisterProtocolNotify(e)

Application ==
    /\ todo = <<>>
    /\ \E c \in AppCalls : c.h \in handles \cup {New} /\ todo' = <<c>>
    /\ interrupts' = 0
    /\ UNCHANGED <<db, notes, ret>>

Init ==
    /\ handles = {}
    /\ prot = [k \in Prot |-> Freed]
    /\ onHandle = [h \in Handle |-> <<>>]
    /\ byProtocol = [p \in Protocol |-> <<>>]
    /\ reg = [e \in Event |-> NotRegistered]
    /\ signalled = {}
    /\ got = [e \in Event |-> {}]
    /\ todo = <<>>
    /\ ret = Status("SUCCESS", None)
    /\ interrupts = 0

Step ==
    \/ Install \/ InstallLocked \/ InstallMultiple \/ UndoInstalls
    \/ Uninstall \/ Deny \/ UninstallMultiple \/ UndoUninstalls
    \/ Reinstall \/ Reinstalled
    \/ OpenProtocol \/ CloseProtocol
    \/ ConnectController \/ ConnectSingleController \/ ConnectChildren
    \/ DisconnectController \/ StopDrivers \/ StopLast
    \/ Start \/ Stop \/ LocateHandle \/ CallbackReturns

Next ==
    \/ Step
    \/ Register \/ Unregister
    \/ \E e \in Event : Notified(e)
    \/ Callback \/ Application

Spec == Init /\ [][Next]_vars

\* What is called goes on, and RestoreTPL lets a signalled event's notification
\* run at last.
FairSpec == Spec /\ WF_vars(Step) /\ \A e \in Event : SF_vars(Notified(e))

-----------------------------------------------------------------------------
(* Properties *)

Live == {k \in Prot : prot[k] # Freed}

\* State shapes.
TypeOK ==
    /\ handles \subseteq Handle
    /\ \A k \in Live :
          /\ prot[k].h \in handles /\ prot[k].p \in Protocol /\ prot[k].i \in Interface
          /\ \A o \in prot[k].open : o.agent \in Agent /\ o.attr \in Attribute
    /\ \A e \in Event : reg[e] = NotRegistered \/ reg[e].p \in Protocol
    /\ signalled \subseteq Event
    /\ interrupts \in 0 .. MaxCallbacks

\* The lists of the handles and of the protocols hold the same interfaces, each
\* once, and a handle is valid as long as it has one.
ListsAgree ==
    /\ TypeOK
    /\ \A h \in Handle : /\ Range(onHandle[h]) = {k \in Live : prot[k].h = h}
                         /\ IsInjective(onHandle[h])
                         /\ (h \in handles) = (onHandle[h] # <<>>)
    /\ \A p \in Protocol : /\ Range(byProtocol[p]) = {k \in Live : prot[k].p = p}
                           /\ IsInjective(byProtocol[p])

\* An interface is managed by one driver at most.
OneDriver == \A k \in Live : Cardinality(DriverOpens(prot[k].open)) <= 1

\* The database is well formed whatever services, drivers and callbacks interleave:
\* its lists agree, and no interface gets a second driver.
DatabaseSound == ListsAgree /\ OneDriver

\* Functions that have looked up an interface and let go of the lock to have its
\* drivers stopped.
Working(f) == f.op \in {"Uninstall", "Reinstall", "Open"} /\ f.prot # None

SameInterface(r, s) == r.h = s.h /\ r.p = s.p /\ r.i = s.i

TargetsStay ==
    \A j \in 1 .. Len(todo) - 1 : Working(todo[j]) =>
        SameInterface(prot'[todo[j].prot], prot[todo[j].prot])

\* What the callers owe to the database, which the code does not check: while a call
\* has let go of the lock to have the drivers of an interface stopped (handle.c:656),
\* nobody else removes the interface or replaces it.  The theorems assume it.
TargetsKept == [][TargetsStay]_vars

\* An interface somebody has open is not freed, however the drivers' Stop functions that
\* UninstallProtocolInterface calls without the lock call the services themselves.  Other
\* code that takes the interface away meanwhile is excluded by OwnersWait.
FreedWhenClosed == [][\A k \in Live : prot'[k] = Freed => Kept(k) = {}]_vars

\* A registrant has been told of the interfaces up to its position, and of no
\* others: none is skipped and none is told twice.
SeenExactly ==
    \A e \in Event : reg[e] # NotRegistered =>
        /\ reg[e].pos \in {None} \cup Range(byProtocol[reg[e].p])
        /\ got[e] = UpTo(byProtocol[reg[e].p], reg[e].pos)

OnStack(op) == \E j \in DOMAIN todo : todo[j].op = op

\* Interfaces a registrant has not been told of are never forgotten.
NotMissed ==
    \A e \in Event : reg[e] # NotRegistered /\ got[e] # Range(byProtocol[reg[e].p]) =>
        \/ e \in signalled
        \/ \E j \in DOMAIN todo : todo[j].op = "Locate" /\ todo[j].to = e
        \/ \E j \in DOMAIN todo : todo[j].op = "Reinstalled" /\ todo[j].p = reg[e].p

\* RegisterProtocolNotify with LocateHandle by registration: every interface
\* is told once, however the list changes under the position.
Registrations == SeenExactly /\ NotMissed

\* InstallMultiple and UninstallMultiple are all or nothing: a call that failed
\* part way has removed what it installed, or installed what it removed, if the
\* handle is still there.
Holds(f, j) == FindProtocolInterface(f.h, f.list[j][1], f.list[j][2]) # None

MultipleUndone ==
    [][Len(todo') < Len(todo) /\ Last(todo).h \in handles =>
          /\ Running("UndoInstalls") => \A j \in DOMAIN Last(todo).list : ~ Holds(Last(todo), j)
          /\ Running("UndoUninstalls") => \A j \in DOMAIN Last(todo).list : Holds(Last(todo), j)]_vars



\* Between calls the tree of devices is whole: a child a driver made exists, is
\* recorded as its child once, and is not left over without its parent.
TreeAtRest ==
    todo = <<>> =>
        /\ \A h \in handles : \A o \in ChildOpens(Opens(h)) : o.ctrl \in handles
        /\ \A k \in Live, d \in Drivers : prot[k].p = Makes[d] =>
              \E h \in handles : \E o \in ChildOpens(Opens(h)) : o.ctrl = prot[k].h

\* At most one agent has exclusive access.
OneExclusive == \A k \in Live : Cardinality(ExclusiveOpens(prot[k].open)) <= 1

\* Every call returns.
CallsReturn == todo # <<>> ~> todo = <<>>

\* Every registrant is told in the end.
Told == \A e \in Event, k \in Prot :
    reg[e] # NotRegistered /\ k \in Range(byProtocol[reg[e].p]) \ got[e]
    ~> reg[e] = NotRegistered \/ k \notin Range(byProtocol[reg[e].p]) \ got[e]

\* No call waits for another for ever, whatever drivers refuse to stop or are
\* connected again, and every registrant hears of every interface.
Served == CallsReturn /\ Told
====
