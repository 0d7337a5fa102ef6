------------------------------- MODULE Pages -------------------------------
(***************************************************************************)
(* Page and pool allocation: COREFW/fw/efi/mem/page.c and pool.c.          *)
(*                                                                         *)
(* The memory map is a set of descriptors, each of which lives either in   *)
(* the array MapStack or in a block of the pool, and the pool gets its     *)
(* pages from the memory map.  So a conversion that needs a new descriptor *)
(* allocates pool, which may convert pages, and one that drops a           *)
(* descriptor frees pool, which may convert pages, in the middle of the    *)
(* conversion.  todo is the call stack of the running service: what is     *)
(* left to do, the next thing last.                                        *)
(*                                                                         *)
(* A service runs under MemoryLock and cannot be interrupted by another    *)
(* one; between services anybody may call.  Addresses are page numbers,    *)
(* and the size of a pool block is its list number plus one.               *)
(***************************************************************************)
EXTENDS Integers, Sequences, SequencesExt, FiniteSetsExt

CONSTANTS
    NPages,             \* pages are 0 .. NPages - 1; 0 means "not found"
    Align,              \* pages in DEFAULT_PAGE_ALLOCATION and in
                        \* EFI_ACPI_RUNTIME_PAGE_ALLOCATION_ALIGNMENT
    MAX_POOL_LIST,      \* smallest blocks in DEFAULT_PAGE_ALLOCATION
    MAX_MAP_DEPTH,
    OtherType,          \* the types callers use besides the ones below
    OsType,             \* the negative ones of them: types of the OS loader
    RtAligned,          \* types with the ACPI and runtime alignment
    AcpiType,           \* the ACPI types of them
    Watermark,          \* Watermark[t]: the last page of t's preferred range
    PoolList,           \* the list number of a POOL structure
    Region,             \* what the platform reports: a sequence of ranges
    PageRequest,        \* what callers ask AllocatePages for: types and sizes
    Limit,              \* the last pages it may use (AllocateMaxAddress)
    Fixed,              \* types, sizes and first pages for AllocateAddress
    PoolRequest,        \* and AllocatePool: types and list numbers
    MaxPages, MaxPool   \* bounds: allocations outstanding at a time

Conv == "EfiConventionalMemory"
RtData == "EfiRuntimeServicesData"
BsData == "EfiBootServicesData"
Absent == "none"

AllocType == {RtData, BsData} \cup OtherType
MemType == {Conv} \cup AllocType

Page == 0 .. NPages - 1
Attr == {Region[i].attr : i \in DOMAIN Region}

\* Where a descriptor can be: in a block of the pool or in MapStack.
PoolSlot == Page \X (0 .. MAX_POOL_LIST - 1)
StackSlot == {NPages} \X (0 .. MAX_MAP_DEPTH - 1)
Slot == PoolSlot \cup StackSlot
MapStack(i) == <<NPages, i>>
Null == <<NPages + 1, 0>>

ASSUME PagesAssumption ==
    /\ NPages \in Nat \ {0} /\ Align \in {1, 2}
    /\ MAX_POOL_LIST \in Nat \ {0} /\ MAX_MAP_DEPTH \in Nat \ {0}
    /\ OsType \subseteq OtherType /\ RtAligned \subseteq AllocType
    /\ AcpiType \subseteq RtAligned
    /\ Absent \notin MemType /\ Conv \notin AllocType
    /\ RtData \notin OsType /\ BsData \notin OsType
    /\ Watermark \in [AllocType -> Page]
    /\ PoolList \in 0 .. MAX_POOL_LIST - 1
    /\ Region \in Seq([start : Page, end : Page, type : MemType, attr : {0, 1}])
    /\ \A i \in DOMAIN Region : Region[i].start <= Region[i].end
    /\ \A i, j \in DOMAIN Region : i # j =>
          Region[i].end < Region[j].start \/ Region[j].end < Region[i].start
    /\ Limit \subseteq Page /\ Fixed \subseteq AllocType \X (Nat \ {0}) \X Page
    /\ PageRequest \subseteq AllocType \X (Nat \ {0})
    /\ PoolRequest \subseteq AllocType \X (0 .. MAX_POOL_LIST)
    /\ MaxPages \in Nat /\ MaxPool \in Nat

VARIABLES
    desc,           \* desc[s]: the MEMORY_MAP in slot s, NoEntry if not linked
    links,          \* the list MemoryMap: the linked slots in their order
    MapDepth,
    FreeMapStack,
    carved,         \* carved[p]: how the pool uses the pages at p
    used,           \* the blocks with a POOL_HEAD: the allocated ones
    FreeList,       \* FreeList[t][l]: the free blocks of POOL t, last freed first
    PoolHeadList,   \* PoolHeadList[t]: the POOL of OS type t, or Null
    EfiAtRuntime,
    todo,           \* the call stack, the running function last
    ret,            \* what AllocatePoolI returned
    failed,         \* ConvertPages returned an error
    reported,       \* how many regions the platform has reported
    allocs,         \* the ranges callers got from AllocatePages
    held,           \* the blocks callers got from AllocatePool
    lost,           \* pages a failed AllocatePages converted and left so
    wipe,           \* the pages FreePages has yet to destroy the contents of
    snap            \* what the OS loader got from GetMemoryMap, as long as
                    \* the key it got is still MemoryMapKey

map == <<desc, links, MapDepth, FreeMapStack>>
pool == <<carved, used, FreeList, PoolHeadList>>
callers == <<reported, allocs, held, lost, wipe>>
vars == <<map, pool, EfiAtRuntime, todo, ret, failed, callers, snap>>

-----------------------------------------------------------------------------
(* Descriptors *)

NoEntry == [type |-> Absent, start |-> 0, end |-> 0, attr |-> 0]
Entry == [type : MemType, start : Page, end : Page, attr : {0, 1}]

Linked == {s \in Slot : desc[s].type # Absent}

\* The first of some slots in the order of the list.
First(S) == LET In(s) == s \in S IN Head(SelectSeq(links, In))

Covers(e, p) == e.start <= p /\ p <= e.end

\* Mutants: descriptors with other attributes are merged, or only the one
\* before a range is looked for.
Adjoins_AnyAttr(d, e) ==
    d.type = e.type /\ (d.end + 1 = e.start \/ e.end + 1 = d.start)

Adjoins(d, e) ==
    /\ d.type = e.type /\ d.attr = e.attr
    /\ d.end + 1 = e.start \/ e.end + 1 = d.start

Joined(d, e) == [d EXCEPT !.start = IF e.start < @ THEN e.start ELSE @,
                          !.end = IF e.end > @ THEN e.end ELSE @]

-----------------------------------------------------------------------------
(* FindFreePages *)

AlignDown(n, a) == (n \div a) * a
AlignUp(n, a) == AlignDown(n + a - 1, a)

AlignmentOf(t) == IF t \in RtAligned THEN Align ELSE 1

\* The highest range of n free pages whose last page is at most max; 0 if none.
FindFreePagesI(max, n, align) ==
    LET EndIn(s) == AlignDown((IF desc[s].end >= max THEN max ELSE desc[s].end) + 1, align) - 1
        fits == {EndIn(s) : s \in {s \in Linked : /\ desc[s].type = Conv /\ desc[s].start <= max
                                                  /\ EndIn(s) - desc[s].start + 1 >= n}}
    IN  IF fits = {} THEN 0 ELSE Max(fits) - n + 1

FindFreePages(max, n, t, align) ==
    LET low == IF max > Watermark[t] THEN Watermark[t] ELSE max
        start == FindFreePagesI(low, n, align)
    IN  IF start # 0 THEN start ELSE FindFreePagesI(max, n, align)

MAX_ADDRESS == NPages - 1

-----------------------------------------------------------------------------
(* The call stack *)

Call(op) == [op |-> op, start |-> 0, end |-> 0, type |-> Conv, attr |-> 0, list |-> 0, slot |-> Null]

DoConvert(a, b, t) == [Call("ConvertPages") EXCEPT !.start = a, !.end = b, !.type = t]
DoAdd(a, b, t, at) == [Call("AddRange") EXCEPT !.start = a, !.end = b, !.type = t, !.attr = at]
DoAlloc(t, l) == [Call("AllocatePoolI") EXCEPT !.type = t, !.list = l]
DoFree(s) == [Call("FreePoolI") EXCEPT !.slot = s]

Running(op) == todo # <<>> /\ Last(todo).op = op

\* The running function returns, or goes on to calls (the first one last).
Goto(calls) == todo' = Front(todo) \o calls

-----------------------------------------------------------------------------
(* The memory map *)

\* Mutant: the block of the entry is never freed.
Release_Never(s) == <<>>

\* RemoveMemoryMapEntry, once the entry is unlinked.
Release(s) == IF s \in PoolSlot THEN <<DoFree(s)>> ELSE <<>>

\* The map is altered: MemoryMapKey += 1, and a key given out is no longer it.
NoMap == <<>>

\* Mutant: it is not.
BumpKey_Never == UNCHANGED snap

BumpKey == snap' = NoMap

\* The first descriptor that adjoins takes the range; if another one adjoins
\* the result, the first of those takes it all.
AddRange ==
    /\ Running("AddRange")
    /\ LET r == Last(todo)
           new == [type |-> r.type, start |-> r.start, end |-> r.end, attr |-> r.attr]
           near == {s \in Linked : Adjoins(desc[s], new)}
       IN  IF near = {}
           THEN /\ desc' = [desc EXCEPT ![MapStack(MapDepth)] = new]
                /\ links' = Append(links, MapStack(MapDepth))
                /\ MapDepth' = MapDepth + 1
                /\ Goto(<<>>)
           ELSE \E s \in near :
                  LET grown == Joined(desc[s], new)
                      more == {t \in Linked \ {s} : Adjoins(desc[t], grown)}
                  IN  /\ s = First(near)
                      /\ IF more = {}
                         THEN /\ desc' = [desc EXCEPT ![s] = grown]
                              /\ UNCHANGED links
                              /\ Goto(<<>>)
                         ELSE \E t \in more :
                                /\ t = First(more)
                                /\ desc' = [desc EXCEPT ![t] = Joined(@, grown), ![s] = NoEntry]
                                /\ links' = Remove(links, s)
                                /\ Goto(Release(s))
                      /\ UNCHANGED MapDepth
    /\ BumpKey
    /\ UNCHANGED <<FreeMapStack, pool, EfiAtRuntime, ret, failed, callers>>

\* FreeMemoryMapStack: nothing to do if it is running already.
FreeMemoryMapStack ==
    /\ Running("FreeMemoryMapStack")
    /\ IF FreeMapStack
       THEN Goto(<<>>) /\ UNCHANGED FreeMapStack
       ELSE Goto(<<Call("NextEntry")>>) /\ FreeMapStack' = TRUE
    /\ UNCHANGED <<desc, links, MapDepth, pool, EfiAtRuntime, ret, failed, callers, snap>>

StopFreeing == FreeMapStack' = FALSE

\* The list number of a MEMORY_MAP is 0.
NextEntry ==
    /\ Running("NextEntry")
    /\ IF MapDepth > 0
       THEN Goto(<<Call("MoveEntry"), DoAlloc(RtData, 0)>>) /\ UNCHANGED FreeMapStack
       ELSE Goto(<<>>) /\ StopFreeing
    /\ UNCHANGED <<desc, links, MapDepth, pool, EfiAtRuntime, ret, failed, callers, snap>>

\* The pointer AllocatePoolI returned is not tested: with NULL the behaviour is
\* undefined and the model stops.
InOrder(rest, s, start) ==
    LET after == {t \in Linked \cap PoolSlot : desc[t].start > start}
    IN  IF after = {} THEN Append(rest, s)
        ELSE InsertAt(rest, CHOOSE i \in DOMAIN rest : rest[i] = First(after), s)

MoveEntry ==
    /\ Running("MoveEntry") /\ ret # Null
    /\ LET from == MapStack(MapDepth - 1)
       IN  IF from \in Linked
           THEN /\ desc' = [desc EXCEPT ![ret] = desc[from], ![from] = NoEntry]
                /\ links' = InOrder(Remove(links, from), ret, desc[from].start)
                /\ Goto(<<Call("NextEntry")>>)
           ELSE Goto(<<Call("NextEntry"), DoFree(ret)>>) /\ UNCHANGED <<desc, links>>
    /\ MapDepth' = MapDepth - 1
    /\ ret' = Null
    /\ UNCHANGED <<FreeMapStack, pool, EfiAtRuntime, failed, callers, snap>>

Undefined == Running("MoveEntry") /\ ret = Null

\* ConvertPages, one round of its loop: the part of the range that one
\* descriptor covers is cut out of it and added again with its new type.
Convertible(e, t) == (t = Conv) # (e.type = Conv)

\* What is left of a descriptor behind the range that ends with b.  Mutant: the
\* last page of the range stays.
Rest_Overlaps(e, b) == [e EXCEPT !.start = b]

Rest(e, b) == [e EXCEPT !.start = b + 1]

\* What is left of descriptor s, and what of it goes to MapStack.
Cut(s, a, b) ==
    LET e == desc[s]
    IN  \/ /\ e.start = a /\ e.end = b
           /\ desc' = [desc EXCEPT ![s] = NoEntry]
           /\ links' = Remove(links, s)
           /\ UNCHANGED MapDepth
        \/ /\ e.start = a /\ e.end # b
           /\ desc' = [desc EXCEPT ![s] = Rest(e, b)]
           /\ UNCHANGED <<links, MapDepth>>
        \/ /\ e.start # a /\ e.end = b
           /\ desc' = [desc EXCEPT ![s].end = a - 1]
           /\ UNCHANGED <<links, MapDepth>>
        \/ /\ e.start # a /\ e.end # b
           /\ desc' = [desc EXCEPT ![s].end = a - 1, ![MapStack(MapDepth)] = Rest(e, b)]
           /\ links' = Append(links, MapStack(MapDepth))
           /\ MapDepth' = MapDepth + 1

ConvertPages ==
    /\ Running("ConvertPages")
    /\ LET r == Last(todo)
           covering == {s \in Linked : Covers(desc[s], r.start)}
       IN  IF r.start > r.end
           THEN /\ Goto(<<>>) /\ failed' = FALSE
                /\ UNCHANGED <<map, snap>>
           ELSE IF \E s \in covering : Convertible(desc[s], r.type)
           THEN \E s \in covering :
                  LET e == desc[s]
                      b == IF e.end < r.end THEN e.end ELSE r.end
                  IN  /\ s = First(covering)
                      /\ Cut(s, r.start, b)
                      /\ Goto(<<[r EXCEPT !.start = b + 1], Call("FreeMemoryMapStack"),
                                DoAdd(r.start, b, r.type, e.attr)>>
                              \o (IF e.start = r.start /\ e.end = b THEN Release(s) ELSE <<>>))
                      /\ BumpKey
                      /\ UNCHANGED <<FreeMapStack, failed>>
           ELSE /\ Goto(<<>>) /\ failed' = TRUE
                /\ UNCHANGED <<map, snap>>
    /\ UNCHANGED <<pool, EfiAtRuntime, ret, callers>>

-----------------------------------------------------------------------------
(* The pool *)

\* New pool pages are carved into as many blocks of the list asked for as fit;
\* what is left of the page is less than one of them, so that the loop over the
\* smaller lists makes it one block.  A request past the lists gets pages of its
\* own.
Fitting(l) == IF l = MAX_POOL_LIST THEN 1 ELSE MAX_POOL_LIST \div (l + 1)

Left(l) == IF l = MAX_POOL_LIST THEN 0 ELSE MAX_POOL_LIST % (l + 1)

\* The offsets of the blocks and their lists.
Carve(l) ==
    {<<i * (l + 1), l>> : i \in 0 .. Fitting(l) - 1}
    \cup {<<MAX_POOL_LIST - k, k - 1>> : k \in {Left(l)} \ {0}}

NotCarved == [type |-> Absent, list |-> 0]

\* The blocks of the pages at p.
BlocksAt(p) == IF carved[p] = NotCarved THEN {} ELSE {<<p, b[1]>> : b \in Carve(carved[p].list)}

ListOf(p, o) == CHOOSE l \in 0 .. MAX_POOL_LIST : <<o, l>> \in Carve(carved[p].list)

\* The blocks of list l in pages at p carved for list k, as they come off the list.
NewBlocks(p, k, l) ==
    IF l = k THEN [i \in 1 .. Fitting(k) |-> <<p, (Fitting(k) - i) * (k + 1)>>]
    ELSE IF l + 1 = Left(k) THEN <<<<p, MAX_POOL_LIST - Left(k)>>>>
    ELSE <<>>

\* The free blocks of a list that are not in the pages at p.
Elsewhere(free, p) ==
    LET Kept[i \in 0 .. Len(free)] ==
            IF i = 0 THEN <<>>
            ELSE IF free[i][1] = p THEN Kept[i - 1]
            ELSE Append(Kept[i - 1], free[i])
    IN  Kept[Len(free)]

\* LookupPoolHead: the POOL of an OS type is itself allocated from the pool.
AllocatePoolI ==
    /\ Running("AllocatePoolI")
    /\ LET r == Last(todo)
       IN  IF r.type \in OsType /\ PoolHeadList[r.type] = Null
           THEN Goto(<<[r EXCEPT !.op = "NewPool"], DoAlloc(BsData, PoolList)>>)
           ELSE Goto(<<[r EXCEPT !.op = "TakeBlock"]>>)
    /\ UNCHANGED <<map, pool, EfiAtRuntime, ret, failed, callers, snap>>

LinkPool(t, s) == [PoolHeadList EXCEPT ![t] = s]

NewPool ==
    /\ Running("NewPool")
    /\ IF ret = Null
       THEN Goto(<<>>) /\ UNCHANGED <<PoolHeadList, ret>>
       ELSE /\ PoolHeadList' = LinkPool(Last(todo).type, ret)
            /\ ret' = Null
            /\ Goto(<<[Last(todo) EXCEPT !.op = "TakeBlock"]>>)
    /\ UNCHANGED <<map, carved, used, FreeList, EfiAtRuntime, failed, callers, snap>>

\* A free block, or else new pages; AllocatePoolPages finds them and has them
\* converted.
TakeBlock ==
    /\ Running("TakeBlock")
    /\ LET r == Last(todo)
           start == FindFreePages(MAX_ADDRESS, Align, r.type, Align)
           free == IF r.list = MAX_POOL_LIST THEN <<>> ELSE FreeList[r.type][r.list]
       IN  \/ /\ free # <<>>
              /\ ret' = Head(free)
              /\ used' = used \cup {ret'}
              /\ FreeList' = [FreeList EXCEPT ![r.type][r.list] = Tail(@)]
              /\ Goto(<<>>)
           \/ /\ free = <<>> /\ start # 0
              /\ Goto(<<[r EXCEPT !.op = "CarvePages", !.slot = <<start, 0>>],
                        DoConvert(start, start + Align - 1, r.type)>>)
              /\ UNCHANGED <<ret, used, FreeList>>
           \/ /\ free = <<>> /\ start = 0
              /\ ret' = Null /\ Goto(<<>>)
              /\ UNCHANGED <<used, FreeList>>
    /\ UNCHANGED <<map, carved, PoolHeadList, EfiAtRuntime, failed, callers, snap>>

\* The new blocks go onto the free lists, and the first one asked for is taken.
CarvePages ==
    /\ Running("CarvePages")
    /\ LET r == Last(todo)
           p == r.slot[1]
           New(l) == NewBlocks(p, r.list, l)
       IN  IF failed
           THEN ret' = Null /\ UNCHANGED <<carved, used, FreeList>>
           ELSE /\ carved' = [carved EXCEPT ![p] = [type |-> r.type, list |-> r.list]]
                /\ ret' = Head(New(r.list))
                /\ used' = used \cup {ret'}
                /\ FreeList' = [FreeList EXCEPT ![r.type] = [l \in DOMAIN @ |->
                                  IF l = r.list THEN Tail(New(l)) \o @[l] ELSE New(l) \o @[l]]]
    /\ Goto(<<>>)
    /\ UNCHANGED <<map, PoolHeadList, EfiAtRuntime, failed, callers, snap>>

\* The block is free; when all blocks of its pages are, the pages are freed.
FreePoolI ==
    /\ Running("FreePoolI")
    /\ LET s == Last(todo).slot
           p == s[1]
           t == carved[p].type
           l == ListOf(p, s[2])
           after == <<[Call("FreePool") EXCEPT !.type = t]>>
       IN  /\ used' = used \ {s}
           /\ IF BlocksAt(p) \cap used' = {}
              THEN /\ carved' = [carved EXCEPT ![p] = NotCarved]
                   /\ FreeList' = [FreeList EXCEPT ![t] = [k \in DOMAIN @ |-> Elsewhere(@[k], p)]]
                   /\ Goto(after \o <<DoConvert(p, p + Align - 1, Conv)>>)
              ELSE /\ FreeList' = [FreeList EXCEPT ![t][l] = <<s>> \o @]
                   /\ Goto(after)
                   /\ UNCHANGED carved
    /\ UNCHANGED <<map, PoolHeadList, EfiAtRuntime, ret, failed, callers, snap>>

\* Pool->Used is 0: the POOL of an OS type is freed too.
UsedBy(t) == {s \in used : carved[s[1]].type = t}

FreePool ==
    /\ Running("FreePool")
    /\ LET t == Last(todo).type
       IN  IF t \in OsType /\ UsedBy(t) = {}
           THEN /\ Goto(<<DoFree(PoolHeadList[t])>>)
                /\ PoolHeadList' = [PoolHeadList EXCEPT ![t] = Null]
           ELSE Goto(<<>>) /\ UNCHANGED PoolHeadList
    /\ UNCHANGED <<map, carved, used, FreeList, EfiAtRuntime, ret, failed, callers, snap>>

-----------------------------------------------------------------------------
(* The services *)

\* The pages and what the map says of them.  A range that is cut out of its
\* descriptor and not yet added again belongs to a pending AddRange.
Adding == {i \in DOMAIN todo : todo[i].op = "AddRange"}

PageAt(p) ==
    IF \E s \in Linked : Covers(desc[s], p)
    THEN LET s == CHOOSE s \in Linked : Covers(desc[s], p)
         IN  [type |-> desc[s].type, attr |-> desc[s].attr]
    ELSE IF \E i \in Adding : Covers(todo[i], p)
    THEN LET i == CHOOSE i \in Adding : Covers(todo[i], p)
         IN  [type |-> todo[i].type, attr |-> todo[i].attr]
    ELSE [type |-> Absent, attr |-> 0]

MemoryMap == [p \in Page |-> PageAt(p)]

\* A caller of a service: MemoryLock is free and the boot services are there.
CanCall == todo = <<>> /\ ~ EfiAtRuntime /\ reported = Len(Region)

FwAddMemoryDescriptor ==
    /\ todo = <<>> /\ reported < Len(Region)
    /\ reported' = reported + 1
    /\ LET r == Region[reported + 1]
       IN  todo' = <<Call("FreeMemoryMapStack"), DoAdd(r.start, r.end, r.type, r.attr)>>
    /\ UNCHANGED <<map, pool, EfiAtRuntime, ret, failed, allocs, held, lost, wipe, snap>>

\* The request goes on to ConvertPages; what is found by FindFreePages is not
\* tested again, what the caller chose is not tested at all.
AskPages(start, n, t) ==
    /\ todo' = <<[Call("AllocatePages") EXCEPT !.start = start, !.end = start + n - 1, !.type = t],
                 DoConvert(start, start + n - 1, t)>>
    /\ UNCHANGED <<map, pool, EfiAtRuntime, ret, failed, callers, snap>>

\* AllocateAnyPages (max is MAX_ADDRESS) and AllocateMaxAddress.
AllocateMaxAddress(t, n, max) ==
    /\ CanCall /\ Cardinality(allocs) < MaxPages
    /\ LET start == FindFreePages(max, AlignUp(n, AlignmentOf(t)), t, AlignmentOf(t))
       IN  start # 0 /\ AskPages(start, AlignUp(n, AlignmentOf(t)), t)

AllocateAddress(t, n, start) ==
    /\ CanCall /\ Cardinality(allocs) < MaxPages
    /\ start % AlignmentOf(t) = 0
    /\ start + AlignUp(n, AlignmentOf(t)) <= NPages
    /\ AskPages(start, AlignUp(n, AlignmentOf(t)), t)

Owned == {p \in Page :
            \/ \E a \in allocs : Covers(a, p)
            \/ \E q \in Page : carved[q] # NotCarved /\ q <= p /\ p < q + Align
            \/ \E i \in DOMAIN Region : Region[i].type # Conv /\ Covers(Region[i], p)}

\* Mutant: the status of ConvertPages is not looked at.
Converted_Always == TRUE

Converted == ~ failed

\* AllocatePages returns.  After an error the pages converted so far stay as
\* they are, and nobody knows of them.
AllocatePages ==
    /\ Running("AllocatePages")
    /\ LET r == Last(todo)
       IN  IF Converted
           THEN /\ allocs' = allocs \cup {[start |-> r.start, end |-> r.end, type |-> r.type]}
                /\ UNCHANGED lost
           ELSE /\ lost' = lost \cup {p \in (r.start .. r.end) \ Owned : PageAt(p).type = r.type}
                /\ UNCHANGED allocs
    /\ failed' = FALSE
    /\ Goto(<<>>)
    /\ UNCHANGED <<map, pool, EfiAtRuntime, ret, reported, held, wipe, snap>>

\* Mutant: the entry has to be longer than the range.
Freeable_Longer(a) ==
    \E s \in Linked : Covers(desc[s], a.start) /\ a.end - a.start < desc[s].end - desc[s].start

\* What FreePages asks of a range before it converts it: the entry that covers
\* its first page is at least as long as the range.
Freeable(a) ==
    \E s \in Linked :
       /\ Covers(desc[s], a.start)
       /\ a.start % AlignmentOf(desc[s].type) = 0
       /\ AlignUp(a.end - a.start + 1, AlignmentOf(desc[s].type)) <= desc[s].end - desc[s].start + 1

FreePages(a) ==
    /\ CanCall /\ wipe = {} /\ Freeable(a)
    /\ allocs' = allocs \ {a}
    /\ todo' = <<[Call("FreePages") EXCEPT !.start = a.start, !.end = a.end],
                 DoConvert(a.start, a.end, Conv)>>
    /\ UNCHANGED <<map, pool, EfiAtRuntime, ret, failed, reported, held, lost, wipe, snap>>

\* FreePages has released MemoryLock and goes on to destroy the contents.
FreePagesReturns ==
    /\ Running("FreePages")
    /\ wipe' = IF failed THEN {} ELSE Last(todo).start .. Last(todo).end
    /\ failed' = FALSE
    /\ Goto(<<>>)
    /\ UNCHANGED <<map, pool, EfiAtRuntime, ret, reported, allocs, held, lost, snap>>

\* Destroying a block that is in use again is undefined behaviour: the model
\* stops short of it.
Wipe ==
    /\ todo = <<>> /\ wipe # {}
    /\ \A p \in wipe : BlocksAt(AlignDown(p, Align)) = {}
    /\ wipe' = {}
    /\ UNCHANGED <<map, pool, EfiAtRuntime, todo, ret, failed, reported, allocs, held, lost, snap>>

BSAllocatePool(t, l) ==
    /\ CanCall /\ Cardinality(held) < MaxPool
    /\ todo' = <<Call("BSAllocatePool"), DoAlloc(t, l)>>
    /\ UNCHANGED <<map, pool, EfiAtRuntime, ret, failed, callers, snap>>

BSAllocatePoolReturns ==
    /\ Running("BSAllocatePool")
    /\ held' = held \cup ({ret} \ {Null})
    /\ ret' = Null
    /\ Goto(<<>>)
    /\ UNCHANGED <<map, pool, EfiAtRuntime, failed, reported, allocs, lost, wipe, snap>>

BSFreePool(s) ==
    /\ CanCall
    /\ held' = held \ {s}
    /\ todo' = <<DoFree(s)>>
    /\ UNCHANGED <<map, pool, EfiAtRuntime, ret, failed, reported, allocs, lost, wipe, snap>>

GetMemoryMap ==
    /\ CanCall
    /\ snap' = MemoryMap
    /\ UNCHANGED <<map, pool, EfiAtRuntime, todo, ret, failed, callers>>

\* ExitBootServices with the key of the last GetMemoryMap; the attribute 1 is
\* EFI_MEMORY_RUNTIME.
TerminateMemoryMap ==
    /\ CanCall /\ snap # NoMap
    /\ \A s \in Linked : desc[s].attr = 1 =>
          /\ desc[s].type \notin AcpiType
          /\ desc[s].start % Align = 0 /\ (desc[s].end + 1) % Align = 0
    /\ EfiAtRuntime' = TRUE
    /\ UNCHANGED <<map, pool, todo, ret, failed, callers, snap>>

-----------------------------------------------------------------------------
(* The specification *)

Init ==
    /\ desc = [s \in Slot |-> NoEntry]
    /\ links = <<>> /\ MapDepth = 0 /\ FreeMapStack = FALSE
    /\ carved = [p \in Page |-> NotCarved]
    /\ FreeList = [t \in AllocType |-> [l \in 0 .. MAX_POOL_LIST - 1 |-> <<>>]]
    /\ used = {} /\ PoolHeadList = [t \in OsType |-> Null]
    /\ EfiAtRuntime = FALSE
    /\ todo = <<>> /\ ret = Null /\ failed = FALSE
    /\ reported = 0 /\ allocs = {} /\ held = {} /\ lost = {} /\ wipe = {}
    /\ snap = NoMap

\* The service that holds MemoryLock goes on.
Work ==
    \/ AddRange \/ FreeMemoryMapStack \/ NextEntry \/ MoveEntry \/ ConvertPages
    \/ AllocatePoolI \/ NewPool \/ TakeBlock \/ CarvePages \/ FreePoolI \/ FreePool
    \/ AllocatePages \/ FreePagesReturns \/ BSAllocatePoolReturns

Services ==
    \/ FwAddMemoryDescriptor
    \/ \E r \in PageRequest, max \in Limit : AllocateMaxAddress(r[1], r[2], max)
    \/ \E r \in Fixed : AllocateAddress(r[1], r[2], r[3])
    \/ \E a \in allocs : FreePages(a)
    \/ \E r \in PoolRequest : BSAllocatePool(r[1], r[2])
    \/ \E s \in held : BSFreePool(s)
    \/ GetMemoryMap
    \/ TerminateMemoryMap

Next == Work \/ Services \/ Wipe

Spec == Init /\ [][Next]_vars

\* A service runs on once it is called; nobody has to call one.
FairSpec == Spec /\ WF_vars(Work)

-----------------------------------------------------------------------------
(* Properties *)

\* MapStack never overflows (the assertions on MapDepth), however deep the pool
\* and the map call each other.
DepthBounded == MapDepth < MAX_MAP_DEPTH

\* Type invariant, with the bound of the descriptor stack.
TypeOK ==
    /\ desc \in [Slot -> Entry \cup {NoEntry}]
    /\ MapDepth \in Nat /\ DepthBounded /\ FreeMapStack \in BOOLEAN
    /\ carved \in [Page -> [type : AllocType \cup {Absent}, list : 0 .. MAX_POOL_LIST]]
    /\ used \subseteq PoolSlot
    /\ PoolHeadList \in [OsType -> PoolSlot \cup {Null}]
    /\ EfiAtRuntime \in BOOLEAN /\ failed \in BOOLEAN
    /\ ret \in PoolSlot \cup {Null}
    /\ reported \in 0 .. Len(Region)
    /\ held \subseteq PoolSlot

\* The descriptors, with the ranges still to be added, partition what the
\* platform reported, at every moment of every service.
Disjoint(d, e) == d.end < e.start \/ e.end < d.start

Partition ==
    /\ \A s, t \in Linked : s # t => Disjoint(desc[s], desc[t])
    /\ \A s \in Linked, i \in Adding : Disjoint(desc[s], todo[i])
    /\ \A i, j \in Adding : i # j => Disjoint(todo[i], todo[j])
    /\ \A p \in Page : (\E i \in 1 .. reported : Covers(Region[i], p)) <=> PageAt(p).type # Absent

\* Between services no two descriptors that could be one adjoin: AddRange has
\* merged every range that conversions of either side have left.
Coalesced == todo = <<>> => \A s, t \in Linked : s # t => ~ Adjoins(desc[s], desc[t])

\* The memory map is well formed: its stack of descriptors does not overflow, the
\* descriptors partition memory at every step, and what adjoins is merged
\* (page.c:330-380, 560-700).
MapSound == TypeOK /\ Partition /\ Coalesced

\* A block in use has one owner: a descriptor, a caller, a POOL, the service
\* that has just got it or the one about to free it.  A descriptor in the pool
\* is in a block in use, of runtime data.
Freeing == {todo[i].slot : i \in {i \in DOMAIN todo : todo[i].op = "FreePoolI"}}
Pools == {PoolHeadList[t] : t \in OsType} \ {Null}

OneOwner ==
    /\ \A s \in Linked \cap PoolSlot : carved[s[1]].type = RtData
    /\ LET owners == <<Linked \cap PoolSlot, held, Pools, {ret} \ {Null}, Freeing>>
       IN  /\ used = UNION {owners[i] : i \in DOMAIN owners}
           /\ \A i, j \in DOMAIN owners : i # j => owners[i] \cap owners[j] = {}

\* Between services the types of the pages are what their owners asked for,
\* and a page without an owner is conventional memory.
Accounted ==
    todo = <<>> =>
      /\ \A a, b \in allocs : a # b => Disjoint(a, b)
      /\ \A a \in allocs : \A p \in a.start .. a.end : PageAt(p).type = a.type /\ carved[p] = NotCarved
      /\ \A p \in Page : carved[p] # NotCarved =>
            \A q \in p .. p + Align - 1 : PageAt(q).type = carved[p].type
      /\ \A p \in Page : PageAt(p).type \notin {Conv, Absent} => p \in Owned \cup lost

\* The POOL of an OS type is there as long as pages are carved for it, so that
\* FreePoolI never makes a second one and no free list is lost with it.
PoolKept == \A p \in Page : carved[p].type \in OsType => PoolHeadList[carved[p].type] # Null

\* AllocatePoolI and FreePoolI keep track of every block they carve.
PoolSound == OneOwner /\ PoolKept

\* Only an AllocatePages can find that its pages cannot be converted: the pages
\* of the pool, and those of FreePages once it has tested them, always can.
OnlyAllocateFails == failed => Running("AllocatePages")

\* FreePages frees what AllocatePages gave out, unless the pages had different
\* attributes when they were reported: it compares the length of the range with
\* one descriptor only.
FreeableAgain ==
    CanCall => \A a \in allocs :
        Freeable(a) \/ \E p \in a.start .. a.end : PageAt(p).attr # PageAt(a.start).attr

\* Memory can be given back: FreePages accepts it, and neither FreePages nor the
\* pool then fails to convert it.
FreesSucceed == FreeableAgain /\ OnlyAllocateFails

\* A key is good only for the map it was given out with, and at runtime the OS
\* has the map as it is.
KeyIsCurrent ==
    /\ snap # NoMap => snap = MemoryMap
    /\ EfiAtRuntime => snap # NoMap

\* The memory map implements one type per page, changed by allocation and free
\* only.
Abstract == INSTANCE PageMap WITH pages <- MemoryMap
Refines == Abstract!Spec

\* FreeMemoryMapStack "Moves any memory descriptors that are on the temporary
\* descriptor stack to heap" (page.c:391): it gets to the end of the stack,
\* unless no page is left for a descriptor.
StackIsEmptied == (MapDepth > 0) ~> (MapDepth = 0 \/ Undefined)

\* FreePages destroys the contents of what it has freed (page.c:1113), and of
\* nothing that is in use.
WipesFreePagesOnly == \A p \in wipe : PageAt(p).type = Conv
====
