------------------------------- MODULE Images -------------------------------
(***************************************************************************)
(* The image loader: COREFW/fw/efi/loader/load.c, with the debug image     *)
(* table (DebugImageInfo/DebugImageInfo.c), the end of boot services and   *)
(* the relocation of runtime images (loader/pe.c, mem/virt.c).             *)
(*                                                                         *)
(* There is one processor.  stack is its call stack, a frame for each      *)
(* loader service under way; images, callbacks of drivers and notification *)
(* functions run on top of it and call the services again.  What a service *)
(* does between two points where other code can run is one action.         *)
(*                                                                         *)
(* A LOADED_IMAGE structure is used once, so that a reference to a freed   *)
(* one can be told.                                                        *)
(***************************************************************************)
EXTENDS Virtual, FiniteSets

CONSTANTS
    Image,          \* LOADED_IMAGE structures
    Core,           \* the one of the firmware itself
    Kind,           \* Kind[i]: "app", "boot" or "rt", the subsystem in its header
    Unloads,        \* images that install an Unload function when they start
    Opens,          \* images that open protocols
    Base,           \* Base[i]: where a runtime image is loaded
    Heap,           \* an address in runtime data that it may keep a pointer to
    Failing,        \* what may fail: "open", "pe", "copy", "install", "table"
    MaxDepth,       \* bound: user code calls services up to this depth
    Reckless,       \* TRUE: callers start and unload images that are being worked on
    CallbacksExit   \* TRUE: callbacks call Exit for the image that was interrupted

Runtime == {i \in Image : Kind[i] = "rt"}
NULL == "NULL"

ASSUME ImagesAssumption ==
    /\ Core \in Image /\ NULL \notin Image
    /\ Kind \in [Image -> {"app", "boot", "rt"}]
    /\ MaxDepth \in Nat
    /\ Reckless \in BOOLEAN /\ CallbacksExit \in BOOLEAN

\* An image is one allocation, and neighbouring pages of a type are one descriptor.
ASSUME RuntimeAssumption ==
    /\ Base \in [Runtime -> Nat] /\ Heap \in Nat
    /\ \A i \in Runtime : \E k \in DOMAIN MemoryMap : {Base[i], Base[i] + 1} \subseteq Addresses(k)
    /\ \E k \in DOMAIN MemoryMap : Heap \in Addresses(k)

VARIABLES
    image,              \* the structures
    installed,          \* images whose protocols are in the handle database
    agents,             \* images that have protocols open
    BootImageList, RuntimeImageList, ImageListLock,
    Table,              \* the debug image table
    stack,
    CurrentStartImage,  \* the depth of the frame it points at, 0 for NULL
    EfiAtRuntime,
    stage,              \* how far SetVirtualAddressMap has come
    VirtualStart,       \* of each descriptor of the memory map
    pointer             \* pointer[i]: ImageBase of runtime image i, a word of
                        \* its data that has a relocation, the FixupData kept
                        \* for it, and the physical address the word stands for

known == <<installed, agents, Table>>
lists == <<BootImageList, RuntimeImageList, ImageListLock>>
virtual == <<stage, VirtualStart, pointer>>
rest == <<EfiAtRuntime, virtual>>
boot == <<image, known, lists, stack, CurrentStartImage, EfiAtRuntime>>
vars == <<boot, virtual>>

-----------------------------------------------------------------------------
(* Frames *)

\* A service at work on image i: LastSi is the frame that StartImage will make
\* current again, parent the image that LoadImage was called for, ok the status.
Frame(op, i, pc) == [op |-> op, img |-> i, pc |-> pc, LastSi |-> 0, parent |-> NULL, ok |-> TRUE]

Depth == Len(stack)
At(op, pc) == Depth > 0 /\ Last(stack).op = op /\ Last(stack).pc = pc
Img == Last(stack).img
Goto(pc) == [stack EXCEPT ![Depth].pc = pc]
Become(op, pc) == Append(Front(stack), Frame(op, Img, pc))
Return == stack' = Front(stack)

\* Code that is not the loader's runs: the boot manager, an entry point, a
\* driver that StartImage connects, an Unload or a notification function.
User ==
    /\ ~EfiAtRuntime
    /\ \/ Depth = 0
       \/ At("start", "entry") \/ At("start", "connect") \/ At("ask", "Unload") \/ At("notify", "body")
Caller == User /\ Depth < MaxDepth

\* The TPL is above TPL_APPLICATION.
Notifying == \E d \in DOMAIN stack : stack[d].op = "notify"

\* A service below works with image i.
Busy(i) == \E d \in DOMAIN stack : i \in {stack[d].img, stack[d].parent}
MayTouch(i) == Reckless \/ ~Busy(i)

Fails(what) == what \in Failing

NoImage == [state |-> "none", Handle |-> FALSE, Started |-> FALSE, StartImageContext |-> 0,
            linked |-> FALSE, Unload |-> FALSE]

\* LoadedImageInfo succeeds.
LoadedImageInfo(i) == i \in installed

-----------------------------------------------------------------------------
(* The debug image table.  It grows when it is full and keeps its entries. *)

\* NewDebugImageInfoEntry, which may not get the memory.
NewDebugImageInfoEntry(i) ==
    \/ Table' = Table \cup {i}
    \/ Fails("table") /\ UNCHANGED Table

DeleteDebugImageInfoEntry(i) == Table' = Table \ {i}

-----------------------------------------------------------------------------
(* LoadImage *)

\* Callers pass the handle of the image that runs as the parent.
Parent == IF CurrentStartImage = 0 THEN Core ELSE stack[CurrentStartImage].img

\* i is the structure that will be allocated.
LoadImage(i) ==
    /\ Caller /\ LoadedImageInfo(Parent)
    /\ image[i].state = "none" /\ ~Busy(i)
    /\ stack' = Append(stack, [Frame("load", i, "open") EXCEPT !.parent = Parent])
    /\ UNCHANGED <<image, known, lists, CurrentStartImage, rest>>

\* OpenSimpleReadFile; the structure is filled from the parent's.
LoadOpen ==
    /\ At("load", "open")
    /\ \/ /\ stack' = Goto("pe")
          /\ image' = [image EXCEPT ![Img].state = "live"]
       \/ Fails("open") /\ Return /\ UNCHANGED image
    /\ UNCHANGED <<known, lists, CurrentStartImage, rest>>

\* A relocation whose word points into the image is applied and kept.
Placed(i) == [base |-> Base[i], word |-> Base[i] + 1, FixupData |-> Base[i] + 1, means |-> Base[i] + 1]

\* The list for images of this kind, with image i if it is one.
Listed(list, kind, i) == IF Kind[i] = kind THEN Append(list, i) ELSE list

\* LoadPeImage, and the lists.  The lock stays taken, which raises the TPL and
\* stops nobody in a free build, when there is no memory for the runtime copy of
\* the structure.
LoadPe ==
    /\ At("load", "pe")
    /\ \/ /\ stack' = Goto("install")
          /\ BootImageList' = Listed(BootImageList, "boot", Img)
          /\ RuntimeImageList' = Listed(RuntimeImageList, "rt", Img)
          /\ image' = [image EXCEPT ![Img].linked = Kind[Img] # "app"]
          /\ pointer' = IF Kind[Img] = "rt" THEN [pointer EXCEPT ![Img] = Placed(Img)] ELSE pointer
          /\ UNCHANGED ImageListLock
       \/ /\ \/ Fails("pe") /\ UNCHANGED ImageListLock
             \/ Fails("copy") /\ Kind[Img] = "rt" /\ ImageListLock' = TRUE
          /\ stack' = Become("unload", "unlink")
          /\ UNCHANGED <<image, BootImageList, RuntimeImageList, pointer>>
    /\ UNCHANGED <<known, CurrentStartImage, EfiAtRuntime, stage, VirtualStart>>

\* LibInstallProtocolInterfaces
LoadInstall ==
    /\ At("load", "install")
    /\ \/ /\ stack' = Goto("debug")
          /\ installed' = installed \cup {Img}
          /\ image' = [image EXCEPT ![Img].Handle = TRUE]
       \/ Fails("install") /\ stack' = Become("unload", "unlink") /\ UNCHANGED <<image, installed>>
    /\ UNCHANGED <<agents, Table, lists, CurrentStartImage, rest>>

\* The handle is returned and the debug table told, if it gets the memory.
LoadDebug ==
    /\ At("load", "debug")
    /\ Return
    /\ NewDebugImageInfoEntry(Img)
    /\ UNCHANGED <<image, installed, agents, lists, CurrentStartImage, rest>>

-----------------------------------------------------------------------------
(* FwLoadInternal: an image that is part of the firmware is on no list and *)
(* not in the debug table, and started at once.                            *)

FwLoadInternal(i) ==
    /\ User /\ Depth = 0
    /\ image[i].state = "none" /\ Kind[i] = "boot"
    /\ \/ /\ image' = [image EXCEPT ![i].state = "live"]
          /\ stack' = Append(stack, Frame("internal", i, "install"))
       \/ Fails("pe") /\ image' = [image EXCEPT ![i].state = "freed"] /\ UNCHANGED stack
    /\ UNCHANGED <<known, lists, CurrentStartImage, rest>>

InternalInstall ==
    /\ At("internal", "install")
    /\ installed' = installed \cup {Img}
    /\ image' = [image EXCEPT ![Img].Handle = TRUE]
    /\ stack' = Goto("start")
    /\ UNCHANGED <<agents, Table, lists, CurrentStartImage, rest>>

-----------------------------------------------------------------------------
(* StartImage *)

\* The frame is pushed as the current one, SetJump, Started is set.
Startable(i) == LoadedImageInfo(i) /\ ~image[i].Started

Enter(i, below) ==
    /\ stack' = Append(below, [Frame("start", i, "entry") EXCEPT !.LastSi = CurrentStartImage])
    /\ CurrentStartImage' = Len(below) + 1
    /\ image' = [image EXCEPT ![i].Started = TRUE, ![i].StartImageContext = Len(below) + 1,
                              ![i].Unload = i \in Unloads]
    /\ UNCHANGED <<known, lists, rest>>

StartImage(i) == Caller /\ MayTouch(i) /\ Startable(i) /\ Enter(i, stack)

InternalStart == At("internal", "start") /\ Startable(Img) /\ Enter(Img, Front(stack))

\* LongJump to the SetJump of the frame at depth d with a status.
Jump(d, ok) ==
    /\ stack' = [SubSeq(stack, 1, d) EXCEPT ![d].pc = "done", ![d].ok = ok]
    /\ UNCHANGED <<image, known, lists, CurrentStartImage, rest>>

\* Mutant: any image that has not returned.
Exitable_Any(i) == image[i].StartImageContext # 0

\* Exit lets an image go that is the current one.
Exitable(i) == image[i].StartImageContext # 0 /\ image[i].StartImageContext = CurrentStartImage

\* The entry point returns; StartImage calls Exit for it, and goes on all the
\* same when Exit does not accept it.
EntryReturns ==
    /\ User /\ At("start", "entry")
    /\ \E ok \in BOOLEAN : Jump(Depth, ok)

\* Other code calls Exit for a started image.  The TPL must be the one of the
\* StartImage (an assertion), which rules notification functions out.
Exit(i) ==
    /\ User /\ LoadedImageInfo(i) /\ image[i].Started /\ Exitable(i)
    /\ \A d \in image[i].StartImageContext..Depth : stack[d].op # "notify"
    /\ CallbacksExit \/ At("start", "entry")
    /\ \E ok \in BOOLEAN : Jump(image[i].StartImageContext, ok)

\* The context is popped.
StartDone ==
    /\ At("start", "done")
    /\ image' = [image EXCEPT ![Img].StartImageContext = 0]
    /\ CurrentStartImage' = Last(stack).LastSi
    /\ stack' = Goto("connect")
    /\ UNCHANGED <<known, lists, rest>>

\* Mutant: applications stay.
Leaves_OnError(f) == ~f.ok

\* Images that failed and applications are unloaded.
Leaves(f) == ~f.ok \/ Kind[f.img] = "app"

\* The drivers of new handles have been connected (CoreConnectHandlesByKey).
StartConnected ==
    /\ User /\ At("start", "connect")
    /\ IF Leaves(Last(stack)) THEN stack' = Become("unload", "unlink") ELSE Return
    /\ UNCHANGED <<image, known, lists, CurrentStartImage, rest>>

-----------------------------------------------------------------------------
(* UnloadImage, inside the loader *)

\* Mutant: runtime images stay on their list.
Unlinked_BootOnly(list) == IF image[Img].linked /\ Kind[Img] = "boot" THEN RemoveFirst(list, Img) ELSE list

\* RemoveEntryList, if the image is on a list.
Unlinked(list) == IF image[Img].linked THEN RemoveFirst(list, Img) ELSE list

UnloadUnlink ==
    /\ At("unload", "unlink")
    /\ BootImageList' = Unlinked(BootImageList)
    /\ RuntimeImageList' = Unlinked(RuntimeImageList)
    /\ stack' = Goto(IF image[Img].Handle THEN "close" ELSE "free")
    /\ UNCHANGED <<image, known, ImageListLock, CurrentStartImage, rest>>

\* CloseProtocol for every protocol the image has open, on whatever handle.
UnloadClose ==
    /\ At("unload", "close")
    /\ agents' = agents \ {Img}
    /\ stack' = Goto("debug")
    /\ UNCHANGED <<image, installed, Table, lists, CurrentStartImage, rest>>

UnloadDebug ==
    /\ At("unload", "debug")
    /\ DeleteDebugImageInfoEntry(Img)
    /\ stack' = Goto("uninstall")
    /\ UNCHANGED <<image, installed, agents, lists, CurrentStartImage, rest>>

\* LibUninstallProtocolInterfaces
UnloadUninstall ==
    /\ At("unload", "uninstall")
    /\ installed' = installed \ {Img}
    /\ stack' = Goto("free")
    /\ UNCHANGED <<image, agents, Table, lists, CurrentStartImage, rest>>

UnloadFree ==
    /\ At("unload", "free")
    /\ image' = [image EXCEPT ![Img] = [NoImage EXCEPT !.state = "freed"]]
    /\ pointer' = [i \in Runtime |-> IF i = Img THEN Placed(i) ELSE pointer[i]]
    /\ Return
    /\ UNCHANGED <<known, lists, CurrentStartImage, EfiAtRuntime, stage, VirtualStart>>

-----------------------------------------------------------------------------
(* The boot service UnloadImage (BSUnloadImage).  Exit of an image that    *)
(* was not started is the same as its first branch.                        *)

BSUnloadImage(i) ==
    /\ Caller /\ LoadedImageInfo(i)
    /\ \/ ~image[i].Started /\ MayTouch(i) /\ stack' = Append(stack, Frame("unload", i, "unlink"))
       \/ image[i].Started /\ image[i].Unload /\ stack' = Append(stack, Frame("ask", i, "Unload"))
    /\ UNCHANGED <<image, known, lists, CurrentStartImage, rest>>

\* The image's Unload function, which may refuse and does so as long as a
\* call below is at work on the image.  An EBC image also stays when its thunks
\* cannot be freed.
Unloadable(i) == Reckless \/ \A d \in 1..Depth - 1 : i \notin {stack[d].img, stack[d].parent}

Asked ==
    /\ User /\ At("ask", "Unload")
    /\ \/ Unloadable(Img) /\ stack' = Become("unload", "unlink")
       \/ Return
    /\ UNCHANGED <<image, known, lists, CurrentStartImage, rest>>

-----------------------------------------------------------------------------
(* What images do besides *)

\* An image opens a protocol.
OpenProtocol(i) ==
    /\ User /\ At("start", "entry") /\ Img = i /\ i \in Opens
    /\ agents' = agents \cup {i}
    /\ UNCHANGED <<image, stack, installed, Table, lists, CurrentStartImage, rest>>

\* A runtime image points its word at memory it allocated.
Assign(i) ==
    /\ User /\ At("start", "entry") /\ Img = i
    /\ pointer' = [pointer EXCEPT ![i].word = Heap, ![i].means = Heap]
    /\ UNCHANGED <<boot, stage, VirtualStart>>

\* A notification function is dispatched between two steps, and returns.
Notify ==
    /\ ~EfiAtRuntime
    /\ Depth \in 1..MaxDepth - 1 /\ ~Notifying
    /\ stack' = Append(stack, Frame("notify", NULL, "body"))
    /\ UNCHANGED <<image, known, lists, CurrentStartImage, rest>>

NotifyReturns ==
    /\ User /\ At("notify", "body") /\ Return
    /\ UNCHANGED <<image, known, lists, CurrentStartImage, rest>>

-----------------------------------------------------------------------------
(* The operating system *)

\* RtLoaderExitBootServices: boot service images are cleared, the runtime ones
\* lose their handles.  The boot services are gone, and nothing reads their
\* tables and stack again.
RtLoaderExitBootServices ==
    [i \in Image |->
        IF i \in Range(BootImageList) THEN [NoImage EXCEPT !.state = "zeroed"]
        ELSE [image[i] EXCEPT !.Handle = @ /\ i \notin Range(RuntimeImageList)]]

\* The caller has the key of the current memory map, or nothing happens.
ExitBootServices ==
    /\ User /\ At("start", "entry") /\ Kind[Img] = "app" /\ ~Notifying
    /\ EfiAtRuntime' = TRUE
    /\ image' = RtLoaderExitBootServices
    /\ stack' = <<>> /\ CurrentStartImage' = 0
    /\ installed' = {} /\ agents' = {} /\ Table' = {}
    /\ UNCHANGED <<lists, virtual>>

\* An accepted call signals the events of the drivers.  One that is refused
\* leaves only values of VirtualStart behind that the next call clears.
SetVirtualAddressMap(map) ==
    /\ EfiAtRuntime /\ stage = "physical"
    /\ Accepted(map)
    /\ VirtualStart' = Applied(map)
    /\ stage' = "notified"
    /\ UNCHANGED <<boot, pointer>>

\* The drivers convert the pointers they have assigned, and possibly those
\* that the relocation would convert.
Converts(p) == [p EXCEPT !.word = RtConvertPointer(VirtualStart, @)]
DriversConvert ==
    /\ stage = "notified"
    /\ stage' = "converted"
    /\ \E all \in SUBSET Range(RuntimeImageList) :
         pointer' = [i \in Runtime |->
            IF i \in Range(RuntimeImageList) /\ (i \in all \/ pointer[i].word # pointer[i].FixupData)
            THEN Converts(pointer[i]) ELSE pointer[i]]
    /\ UNCHANGED <<boot, VirtualStart>>

\* Mutant: every relocation is applied again.
ConvertPeImage_Always(p) == [p EXCEPT !.word = @ + RtConvertPointer(VirtualStart, p.base) - p.base]

\* ConvertPeImage: a word that still is what the loader wrote moves with the image.
ConvertPeImage(p) ==
    IF p.word = p.FixupData
    THEN [p EXCEPT !.word = @ + RtConvertPointer(VirtualStart, p.base) - p.base]
    ELSE p

\* RtLoaderVirtualAddressFixup, for all images on the runtime list.
RtLoaderVirtualAddressFixup ==
    /\ stage = "converted"
    /\ stage' = "virtual"
    /\ pointer' = [i \in Runtime |->
            IF i \in Range(RuntimeImageList)
            THEN [ConvertPeImage(pointer[i]) EXCEPT !.base = RtConvertPointer(VirtualStart, @)]
            ELSE pointer[i]]
    /\ UNCHANGED <<boot, VirtualStart>>

\* The operating system gives the data that a driver keeps a pointer to no address
\* that ConvertPeImage would take for a word that nobody has converted.
MapsApart ==
    \A map \in VirtualMaps, i \in Runtime :
        Accepted(map) /\ RtConvertPointer(Applied(map), Heap) = Placed(i).FixupData
            => RtConvertPointer(Applied(map), Base[i]) = Base[i]

-----------------------------------------------------------------------------

Init ==
    /\ image = [i \in Image |-> IF i = Core THEN [NoImage EXCEPT !.state = "live", !.Handle = TRUE, !.Started = TRUE]
                                ELSE NoImage]
    /\ installed = {Core} /\ agents = {}
    /\ BootImageList = <<>> /\ RuntimeImageList = <<>> /\ ImageListLock = FALSE
    /\ Table = {Core}
    /\ stack = <<>> /\ CurrentStartImage = 0 /\ EfiAtRuntime = FALSE
    /\ stage = "physical"
    /\ VirtualStart = [k \in DOMAIN MemoryMap |-> 0]
    /\ pointer = [i \in Runtime |-> Placed(i)]

Service ==
    \/ LoadOpen \/ LoadPe \/ LoadInstall \/ LoadDebug \/ InternalInstall \/ InternalStart \/ StartDone
    \/ UnloadUnlink \/ UnloadClose \/ UnloadDebug \/ UnloadUninstall \/ UnloadFree

UserReturns == EntryReturns \/ StartConnected \/ Asked \/ NotifyReturns

UserCalls ==
    \/ \E i \in Image : \/ LoadImage(i) \/ FwLoadInternal(i) \/ StartImage(i) \/ Exit(i) \/ BSUnloadImage(i)
                        \/ OpenProtocol(i)
    \/ \E i \in Runtime : Assign(i)
    \/ ExitBootServices

OperatingSystem ==
    \/ \E map \in VirtualMaps : SetVirtualAddressMap(map)
    \/ DriversConvert \/ RtLoaderVirtualAddressFixup

Next == Service \/ UserReturns \/ UserCalls \/ Notify \/ OperatingSystem

Spec == Init /\ [][Next]_vars

\* Notifications end and do not come endlessly between two steps of a call, and
\* user code returns.
Work(d) == Depth = d /\ (Service \/ UserReturns)
FairSpec == Spec /\ \A d \in 1..MaxDepth : SF_vars(Work(d))

-----------------------------------------------------------------------------
(* Properties *)

\* The types.
TypeOK ==
    /\ \A i \in Image :
         /\ image[i].state \in {"none", "live", "freed", "zeroed"}
         /\ image[i].StartImageContext \in 0..MaxDepth
         /\ {image[i].Handle, image[i].Started, image[i].linked, image[i].Unload} \subseteq BOOLEAN
    /\ installed \subseteq Image /\ agents \subseteq Image
    /\ Range(BootImageList) \cup Range(RuntimeImageList) \subseteq Image
    /\ Table \subseteq Image
    /\ Depth \in 0..MaxDepth /\ CurrentStartImage \in 0..MaxDepth
    /\ EfiAtRuntime \in BOOLEAN /\ ImageListLock \in BOOLEAN
    /\ stage \in {"physical", "notified", "converted", "virtual"}

\* The calls of StartImage whose image has not returned.
Started == {d \in DOMAIN stack : stack[d].op = "start" /\ stack[d].pc \in {"entry", "done"}}
Innermost(S) == IF S = {} THEN 0 ELSE Max(S)

\* Images exit in the order opposite to their start: CurrentStartImage and the
\* LastSi of the calls link exactly the images that have not returned, innermost
\* first, and these are the ones with a StartImageContext, whichever Exit was
\* called, for whom and from where (load.c:542-560, 817-824).
StartsNest == ~EfiAtRuntime =>
    /\ CurrentStartImage = Innermost(Started)
    /\ \A d \in Started : /\ stack[d].LastSi = Innermost({e \in Started : e < d})
                           /\ image[stack[d].img].StartImageContext = d
    /\ \A i \in Image : image[i].StartImageContext # 0 => image[i].StartImageContext \in Started

\* A freed structure is on no list, its handle in no table and no protocol is
\* open for it, and no call goes on with it, however the image came to its end:
\* a failed load, an error or the end of an application, Exit or UnloadImage
\* (load.c:668-795).
NothingStale ==
    \A i \in Image : image[i].state = "freed" =>
        /\ i \notin installed \cup agents \cup Table
        /\ i \notin Range(BootImageList) \cup Range(RuntimeImageList)
        /\ ~Busy(i)

\* Drivers that are loaded and not being loaded or unloaded are on the list that
\* ExitBootServices or SetVirtualAddressMap will walk, exactly once, and their
\* protocols are in the handle database (load.c:433-483).
InTransit(i) == \E d \in DOMAIN stack : stack[d].op \in {"load", "unload"} /\ stack[d].img = i
Registered == ~EfiAtRuntime =>
    \A i \in Image : image[i].state = "live" /\ ~InTransit(i) =>
        /\ Cardinality({n \in DOMAIN BootImageList : BootImageList[n] = i})
             = IF image[i].linked /\ Kind[i] = "boot" THEN 1 ELSE 0
        /\ Cardinality({n \in DOMAIN RuntimeImageList : RuntimeImageList[n] = i})
             = IF image[i].linked /\ Kind[i] = "rt" THEN 1 ELSE 0
        /\ i \in Table => image[i].Handle
        /\ image[i].Handle => i \in installed

\* Loader, handle database and debug table agree on which images there are.
Registry == NothingStale /\ Registered

\* After SetVirtualAddressMap every pointer of a runtime image was converted once:
\* its ImageBase, and the word that its driver, the relocation or both could have
\* converted (pe.c:705-735, load.c:908-928).
PointersConverted ==
    stage = "virtual" => \A i \in Range(RuntimeImageList) :
        /\ pointer[i].base = RtConvertPointer(VirtualStart, Base[i])
        /\ pointer[i].word = RtConvertPointer(VirtualStart, pointer[i].means)

\* An application that was started is unloaded in the end, unless it hands the
\* machine to an operating system (load.c:646-651).
ApplicationsLeave ==
    \A i \in Image : Kind[i] = "app" =>
        (image[i].Started ~> (image[i].state = "freed" \/ EfiAtRuntime))

\* Between two calls of the boot manager the lock is free, as AcquireLock asserts.
\* That is so only without "copy" in Failing (load.c:433-444).
LockReleased == Depth = 0 => ~ImageListLock
====
