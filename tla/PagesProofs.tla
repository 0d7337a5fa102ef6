---------------------------- MODULE PagesProofs ----------------------------
(***************************************************************************)
(* Proofs about Pages, continued from PoolProofs: the steps of             *)
(* ConvertPages and AddRange (page.c) and the services preserve the        *)
(* invariant IInv, and what follows from it.                               *)
(***************************************************************************)
EXTENDS PoolProofs

-----------------------------------------------------------------------------
(* ConvertPages *)

\* The calls below the one that has called the running one keep their pages.
Deep(n) ==
    \A i \in 1 .. n - 1 : /\ i \in DOMAIN todo /\ i \in DOMAIN todo' /\ todo'[i] = todo[i]
                          /\ i # n - 1 => \A p \in Page : Claims(i, p)' <=> Claims(i, p)

LEMMA ClaimsDeep ==
    ASSUME NEW c, Replaced(c), NEW n, n = Len(todo)
    PROVE  Deep(n)
  <1>0. /\ n \in Nat \ {0} /\ DOMAIN todo = 1 .. n
        /\ Len(c) \in Nat /\ Len(todo') = n - 1 + Len(c) /\ DOMAIN todo' = 1 .. Len(todo')
        /\ \A i \in 1 .. n - 1 : todo'[i] = todo[i]
    BY DEF Replaced, After
  <1> SUFFICES ASSUME NEW i \in 1 .. n - 1
               PROVE  /\ i \in DOMAIN todo /\ i \in DOMAIN todo' /\ todo'[i] = todo[i]
                      /\ i # n - 1 => \A p \in Page : Claims(i, p)' <=> Claims(i, p)
    BY DEF Deep
  <1>1. todo'[i] = todo[i] /\ i \in DOMAIN todo /\ i \in DOMAIN todo'
    BY <1>0
  <1>3. CASE i # n - 1
    <2>0. n \in Nat \ {0} /\ Len(c) \in Nat /\ Len(todo') = n - 1 + Len(c)
      BY <1>0
    <2>1. i + 1 \in 1 .. n - 1 /\ i # n /\ i # Len(todo')
      BY <1>3, <2>0
    <2>2. todo'[i + 1] = todo[i + 1]
      BY <2>1, <1>0
    <2> QED BY <1>1, <2>1, <2>2 DEF Claims, Covers
  <1> QED BY <1>1, <1>3

\* What ConvertPages knows of its caller.
Caller(n) ==
    /\ n \in Nat \ {0} /\ n > 1 /\ n - 1 \in 1 .. n - 1 /\ n = Len(todo) /\ DOMAIN todo = 1 .. n
    /\ todo[n] \in Frame /\ todo[n].op = "ConvertPages" /\ Last(todo) = todo[n]
    /\ todo[n].start <= todo[n].end + 1 /\ todo[n].end < NPages
    /\ todo[n].start \in Nat /\ todo[n].end \in Nat /\ todo[n].type \in MemType
    /\ \/ /\ todo[n - 1].op = "AllocatePages" /\ todo[n].type = todo[n - 1].type /\ todo[n].type \in AllocType
          /\ todo[n - 1].start \in Nat /\ todo[n - 1].start <= todo[n].start /\ todo[n].end = todo[n - 1].end
       \/ /\ todo[n - 1].op = "CarvePages" /\ todo[n].type = todo[n - 1].type /\ todo[n].type \in AllocType
          /\ todo[n - 1].slot[1] \in Nat
          /\ todo[n - 1].slot[1] <= todo[n].start /\ todo[n].end = todo[n - 1].slot[1] + Align - 1
       \/ todo[n - 1].op \in {"FreePool", "FreePages"} /\ todo[n].type = Conv

LEMMA CallerFacts ==
    ASSUME IInv, NEW n, Runs("ConvertPages", n)
    PROVE  Caller(n)
  <1>1. n > 1 /\ n \in Nat \ {0} /\ n = Len(todo) /\ DOMAIN todo = 1 .. n /\ Under(todo[n - 1], todo[n]) /\ Last(todo) = todo[n]
    BY DEF Runs, Bottom
  <1>2. /\ todo[n].op = "ConvertPages" /\ todo[n].start <= todo[n].end + 1 /\ todo[n].end < NPages
        /\ todo[n].start \in Nat /\ todo[n].end \in Nat /\ todo[n].type \in MemType /\ todo[n] \in Frame
    BY FrameFacts DEF Runs, FrameOK
  <1>3. n - 1 \in DOMAIN todo /\ n - 1 \in 1 .. n - 1
    BY <1>1
  <1>4. todo[n - 1] \in Frame /\ FrameOK(todo[n - 1])
    BY <1>3, Parts DEF IInvParts, Types
  <1>5. PICK f, g : f = todo[n - 1] /\ g = todo[n]
    OBVIOUS
  <1>6. f \in Frame /\ FrameOK(f) /\ Under(f, g) /\ g.op = "ConvertPages"
    BY <1>1, <1>2, <1>4, <1>5
  <1>7. \/ /\ f.op = "AllocatePages" /\ g.type = f.type /\ g.type \in AllocType
           /\ f.start \in Nat /\ f.start <= g.start /\ g.end = f.end
        \/ /\ f.op = "CarvePages" /\ g.type = f.type /\ g.type \in AllocType
           /\ f.slot[1] <= g.start /\ g.end = f.slot[1] + Align - 1
        \/ f.op \in {"FreePool", "FreePages"} /\ g.type = Conv
    BY <1>6, FrameFacts DEF Under, FrameOK, PoolOp
  <1>8. f.op = "CarvePages" => f.slot[1] \in Nat
    BY <1>6, PagesAssumption DEF FrameOK, PoolSlot, Page
  <1> QED BY <1>1, <1>2, <1>3, <1>5, <1>7, <1>8, Zenon DEF Caller

\* The range is done: its caller has all of it.
LEMMA ConvertEndStep ==
    ASSUME IInv, ConvertPages, Last(todo).start > Last(todo).end
    PROVE  IInv' /\ MemoryMap' = MemoryMap
  <1>n. PICK n : n = Len(todo)
    OBVIOUS
  <1>0. Running("ConvertPages")
    BY DEF ConvertPages
  <1>1. Runs("ConvertPages", n) /\ Caller(n)
    BY <1>0, <1>n, BelowFacts, CallerFacts
  <1>2. IInvParts
    BY Parts
  <1>3. Types /\ Moving /\ Typing /\ Shape /\ ret = Null /\ ~ failed
    BY <1>1, <1>2, TypesGiveTyping DEF IInvParts, Returned, Runs
  <1>4. todo # <<>> /\ Last(todo).op # "AddRange" /\ Last(todo).op # "FreePoolI"
    BY <1>1 DEF Runs
  <1>b. PICK c : c = <<>>
    OBVIOUS
  <1>c. /\ c \in Seq(Frame) /\ Len(c) = 0 /\ Fits(c) /\ Pageless(c) /\ HeadsOK(c)
        /\ \A k \in 1 .. Len(c) : c[k].op # "FreePoolI" /\ c[k].op \notin MoveOp
    BY <1>b, Ends
  <1>6. /\ desc' = desc /\ MapDepth' = MapDepth /\ FreeMapStack' = FreeMapStack /\ PoolHeadList' = PoolHeadList
        /\ carved' = carved /\ used' = used /\ FreeList' = FreeList /\ ret' = ret
        /\ EfiAtRuntime' = EfiAtRuntime /\ failed' = FALSE /\ reported' = reported /\ allocs' = allocs
        /\ held' = held /\ lost' = lost /\ snap' = snap /\ Goto(c)
    BY <1>b DEF ConvertPages, map, pool, callers
  <1>7. Replaced(c)
    BY <1>3, <1>4, <1>6, <1>c, ReplacedFacts
  <1>8. /\ n \in Nat \ {0} /\ n > 1 /\ Len(todo') = n - 1 /\ DOMAIN todo' = 1 .. n - 1 /\ DOMAIN todo = 1 .. n
        /\ \A i \in 1 .. n - 1 : todo'[i] = todo[i]
    BY <1>1, <1>n, <1>c, <1>7 DEF Replaced, After, Caller
  <1>9. todo' \in Seq(Frame) /\ \A i \in DOMAIN todo' : FrameOK(todo'[i])
    BY <1>3, <1>7, <1>c, StackTypes DEF Fits
  <1>10. Shape'
    BY <1>3, <1>6, <1>7, <1>c, ShapeKept DEF Fits
  <1>11. Chosen'
    <2> SUFFICES ASSUME NEW i \in 1 .. Len(todo') - 1, todo'[i].op = "CarvePages"
                 PROVE  todo'[i + 1].start = todo'[i + 1].end + 1
      BY DEF Chosen
    <2>1. i \in 1 .. n - 1 /\ i + 1 \in 1 .. n - 1 /\ i + 1 # Len(todo) /\ i \in 1 .. Len(todo) - 1
      BY <1>8, <1>n
    <2>2. todo'[i] = todo[i] /\ todo'[i + 1] = todo[i + 1]
      BY <2>1, <1>8
    <2> QED BY <2>1, <2>2, <1>2 DEF IInvParts, Chosen
  <1>12. Moving' /\ Heads'
    <2>3. MapDepth \in Nat /\ MapDepth' \in Nat /\ MapDepth <= MapDepth'
      BY <1>3, <1>6 DEF Types
    <2>4. Moving'
      BY <2>3, <1>3, <1>6, <1>c, <1>7, MovingKept
    <2>5. Heads'
      BY <1>2, <1>6, <1>c, <1>7, HeadsKept DEF IInvParts, HeadsOK
    <2> QED BY <2>4, <2>5
  <1>13. Adding' = Adding /\ \A i \in Adding : todo'[i] = todo[i]
    BY <1>4, <1>c, <1>7, AddingKept
  <1>14. Typing'
    BY <1>3, <1>6, <1>9 DEF Typing
  <1>15. /\ Map' /\ Reported' /\ Linked' = Linked
         /\ \A p \in Page : PageAt(p)' = PageAt(p)
         /\ MemoryMap' = MemoryMap
    <2>1. \A y \in Linked : y \in StackSlot => y[2] < MapDepth'
      BY <1>2, <1>6 DEF IInvParts, Map
    <2> QED BY <2>1, <1>2, <1>3, <1>6, <1>13, <1>14, MapKept DEF IInvParts
  <1>16. Types'
    BY <1>3, <1>6, <1>9, <1>15 DEF Types
  <1>17. SameClaims
    <2>0. Deep(n)
      BY <1>7, <1>n, ClaimsDeep
    <2>p. \A p \in Page : p \in Nat
      BY PagesAssumption DEF Page
    <2>e. todo[n].start = todo[n].end + 1 /\ todo[n].start \in Nat /\ todo[n].end \in Nat
      BY <1>1 DEF Caller, Runs
    <2>1. \A p \in Page : ~ Claims(n, p)
      <3> SUFFICES ASSUME NEW p \in Page, Claims(n, p) PROVE FALSE
        OBVIOUS
      <3>1. Covers(todo[n], p)
        BY <1>1 DEF Claims, Caller
      <3> QED BY <3>1, <2>e, <2>p DEF Covers
    <2>2. ASSUME NEW p \in Page
          PROVE  Claims(n - 1, p)' <=> Claims(n - 1, p)
      <3>i. PICK m : m = n - 1
        OBVIOUS
      <3>1. todo'[m] = todo[m] /\ m = Len(todo') /\ m # Len(todo) /\ m + 1 = n
        BY <3>i, <1>8, <1>n
      <3>2. p \in Nat /\ Align \in {1, 2}
        BY <2>p, PagesAssumption
      <3>3. CASE todo[m].op = "AllocatePages"
        <4>1. todo[n].end = todo[m].end
          BY <3>3, <3>i, <1>1 DEF Caller
        <4>2. Claims(m, p) <=> todo[m].start <= p /\ p < todo[n].start
          BY <3>1, <3>3 DEF Claims
        <4>3. Claims(m, p)' <=> todo[m].start <= p /\ p <= todo[m].end
          BY <3>1, <3>3, <1>6 DEF Claims
        <4>4. p < todo[n].start <=> p <= todo[n].end
          BY <2>e, <3>2
        <4> QED BY <4>1, <4>2, <4>3, <4>4, <3>i
      <3>4. CASE todo[m].op = "CarvePages"
        <4>1. todo[n].end = todo[m].slot[1] + Align - 1 /\ todo[m].slot[1] \in Nat
          BY <3>4, <3>i, <1>1 DEF Caller
        <4>2. Claims(m, p) <=> todo[m].slot[1] <= p /\ p < todo[n].start
          BY <3>1, <3>4 DEF Claims
        <4>3. Claims(m, p)' <=> todo[m].slot[1] <= p /\ p < todo[m].slot[1] + Align
          BY <3>1, <3>4 DEF Claims
        <4>4. p < todo[n].start <=> p < todo[m].slot[1] + Align
          BY <2>e, <3>2, <4>1
        <4> QED BY <4>2, <4>3, <4>4, <3>i
      <3>5. CASE todo[m].op \in {"FreePool", "FreePages"}
        BY <3>1, <3>5, <3>i DEF Claims
      <3> QED BY <3>3, <3>4, <3>5, <3>i, <1>1 DEF Caller
    <2>3. \A i \in 1 .. n - 1, p \in Page : Claims(i, p)' <=> Claims(i, p)
      BY <2>0, <2>2 DEF Deep
    <2>4. \A i \in DOMAIN todo : i \in 1 .. n - 1 \/ i = n
      BY <1>8
    <2> QED BY <2>0, <2>1, <2>3, <2>4, <1>8 DEF SameClaims, Deep
  <1>18. Pages4' /\ Keys'
    BY <1>2, <1>3, <1>6, <1>13, <1>15, <1>17, PagesKept, KeysKept DEF IInvParts
  <1>19. Returned'
    BY <1>3, <1>6 DEF Returned
  <1>20. Freeing = {} /\ Freeing' = {}
    BY <1>3, <1>4, <1>c, <1>7, FreeingFacts, NothingFreed DEF FreeingOf
  <1>21. Owners' /\ Blocks' /\ Lists'
    BY <1>2, <1>6, <1>15, <1>20, OwnersKept, ListsKept, BlocksKept DEF IInvParts
  <1> QED BY <1>10, <1>11, <1>12, <1>15, <1>16, <1>18, <1>19, <1>21, PartsPrime DEF IInvParts

\* Only pages that a caller of AllocatePages has chosen can be wrong.
LEMMA OnlyAllocatePages ==
    ASSUME IInv, NEW n, Caller(n), todo[n].start <= todo[n].end,
           ~ \E s \in {s \in Linked : Covers(desc[s], todo[n].start)} : Convertible(desc[s], todo[n].type)
    PROVE  n = 2 /\ todo[1].op = "AllocatePages"
  <1>1. IInvParts
    BY Parts
  <1>2. PICK a, t : a = todo[n].start /\ t = todo[n].type
    OBVIOUS
  <1>3. /\ n \in Nat \ {0} /\ n > 1 /\ n - 1 \in 1 .. n - 1 /\ n = Len(todo) /\ DOMAIN todo = 1 .. n
        /\ todo[n].op = "ConvertPages"
        /\ a \in Nat /\ todo[n].end \in Nat /\ a <= todo[n].end /\ todo[n].end < NPages /\ t \in MemType
    BY <1>2 DEF Caller
  <1>4. \A s \in Linked : Covers(desc[s], a) => ~ Convertible(desc[s], t)
    BY <1>2
  <1>5. a \in Page
    BY <1>3, PagesAssumption DEF Page
  <1>6. Known(a)
    BY <1>1, <1>5, TypesGiveTyping, PageAtFacts DEF IInvParts, AllKnown
  <1>7. todo[n - 1].op # "CarvePages"
    <2> SUFFICES ASSUME todo[n - 1].op = "CarvePages" PROVE FALSE
      OBVIOUS
    <2>1. t \in AllocType /\ t # Conv
      BY <1>2, PagesAssumption DEF Caller
    <2>2. PICK s \in Linked : desc[s].type = Conv /\ desc[s].start <= a /\ todo[n].end <= desc[s].end
      <3>1. n - 1 \in 1 .. Len(todo) - 1 /\ n - 1 + 1 = n
        BY <1>3
      <3>2. todo[n].start # todo[n].end + 1
        BY <1>2, <1>3
      <3> QED BY <3>1, <3>2, <1>1, <1>2 DEF IInvParts, Chosen
    <2>3. desc[s].end \in Nat
      BY <1>1, EntryFacts DEF IInvParts, Types
    <2>4. Covers(desc[s], a)
      BY <2>2, <2>3, <1>3 DEF Covers
    <2> QED BY <2>1, <2>2, <2>4, <1>4, Zenon DEF Convertible
  <1>8. t # Conv
    <2> SUFFICES ASSUME t = Conv PROVE FALSE
      OBVIOUS
    <2>0. n \in DOMAIN todo
      BY <1>3
    <2>1. Claims(n, a)
      BY <1>2, <1>3 DEF Claims, Covers
    <2>2. PageAt(a).type # Conv /\ PageAt(a).type # Absent
      BY <2>0, <2>1, <1>1, <1>5 DEF IInvParts, Pages4, PageTypes
    <2>3. CASE \E s \in Linked : Covers(desc[s], a)
      <3>1. PICK s \in Linked : Covers(desc[s], a)
        BY <2>3
      <3>2. desc[s].type # Conv
        BY <3>1, <2>2, <1>6 DEF Known
      <3> QED BY <3>1, <3>2, <1>4, Zenon DEF Convertible
    <2>4. CASE \E i \in Adding : Covers(todo[i], a)
      <3>1. PICK i \in Adding : Covers(todo[i], a)
        BY <2>4
      <3>2. todo[i].type # Conv
        BY <3>1, <2>2, <1>6 DEF Known
      <3>3. ~ InRegion(a)
        BY <2>0, <2>1, <1>1, <1>5 DEF IInvParts, Pages4, OnePageOwner
      <3>4. PICK j \in DOMAIN todo : todo[j].op # "ConvertPages" /\ Claims(j, a)
        BY <3>1, <3>2, <3>3, <1>1, <1>5 DEF IInvParts, Pages4, AddedFor
      <3>5. j = n
        BY <3>4, <2>0, <2>1, <1>1, <1>5 DEF IInvParts, Pages4, OnePageOwner
      <3> QED BY <3>4, <3>5, <1>3
    <2>5. CASE (\A s \in Linked : ~ Covers(desc[s], a)) /\ (\A i \in Adding : ~ Covers(todo[i], a))
      BY <2>5, <2>2, <1>6 DEF Known
    <2> QED BY <2>3, <2>4, <2>5
  <1>9. todo[n - 1].op = "AllocatePages"
    BY <1>2, <1>7, <1>8 DEF Caller
  <1>10. n - 1 = 1
    <2> SUFFICES ASSUME n - 1 # 1 PROVE FALSE
      OBVIOUS
    <2>1. n - 2 \in 1 .. Len(todo) - 1 /\ n - 2 + 1 = n - 1
      BY <1>3
    <2>2. Under(todo[n - 2], todo[n - 1])
      BY <2>1, <1>1 DEF IInvParts, Shape
    <2>3. PICK f, g : f = todo[n - 2] /\ g = todo[n - 1]
      OBVIOUS
    <2>4. g.op = "AllocatePages" /\ Under(f, g)
      BY <2>2, <2>3, <1>9
    <2> QED BY <2>4 DEF Under, PoolOp
  <1>11. n = 2
    <2>1. n \in Nat
      BY <1>3
    <2> QED BY <2>1, <1>10
  <1>12. n - 1 = 1
    BY <1>11
  <1> QED BY <1>9, <1>11, <1>12

LEMMA ConvertFailStep ==
    ASSUME IInv, ConvertPages, ~ (Last(todo).start > Last(todo).end),
           ~ \E s \in {s \in Linked : Covers(desc[s], Last(todo).start)} : Convertible(desc[s], Last(todo).type)
    PROVE  IInv' /\ MemoryMap' = MemoryMap
  <1>n. PICK n : n = Len(todo)
    OBVIOUS
  <1>0. Running("ConvertPages")
    BY DEF ConvertPages
  <1>1. Runs("ConvertPages", n) /\ Caller(n)
    BY <1>0, <1>n, BelowFacts, CallerFacts
  <1>2. IInvParts
    BY Parts
  <1>3. Types /\ Moving /\ Typing /\ Shape /\ ret = Null /\ ~ failed
    BY <1>1, <1>2, TypesGiveTyping DEF IInvParts, Returned, Runs
  <1>4. todo # <<>> /\ Last(todo).op # "AddRange" /\ Last(todo).op # "FreePoolI"
    BY <1>1 DEF Runs
  <1>5. n = 2 /\ todo[1].op = "AllocatePages"
    <2>1. Last(todo) = todo[n] /\ todo[n].start \in Nat /\ todo[n].end \in Nat
      BY <1>1 DEF Caller
    <2>2. todo[n].start <= todo[n].end
      BY <2>1
    <2> QED BY <2>1, <2>2, <1>1, OnlyAllocatePages
  <1>b. PICK c : c = <<>>
    OBVIOUS
  <1>c. /\ c \in Seq(Frame) /\ Len(c) = 0 /\ Fits(c) /\ Pageless(c) /\ HeadsOK(c)
        /\ \A k \in 1 .. Len(c) : c[k].op # "FreePoolI" /\ c[k].op \notin MoveOp
    BY <1>b, Ends
  <1>6. /\ desc' = desc /\ MapDepth' = MapDepth /\ FreeMapStack' = FreeMapStack /\ PoolHeadList' = PoolHeadList
        /\ carved' = carved /\ used' = used /\ FreeList' = FreeList /\ ret' = ret
        /\ EfiAtRuntime' = EfiAtRuntime /\ failed' = TRUE /\ reported' = reported /\ allocs' = allocs
        /\ held' = held /\ lost' = lost /\ snap' = snap /\ Goto(c)
    BY <1>b DEF ConvertPages, map, pool, callers
  <1>7. Replaced(c)
    BY <1>3, <1>4, <1>6, <1>c, ReplacedFacts
  <1>8. /\ Len(todo') = 1 /\ DOMAIN todo' = {1} /\ DOMAIN todo = {1, 2}
        /\ todo'[1] = todo[1] /\ Last(todo') = todo[1] /\ todo' # <<>>
    <2>1. /\ Len(todo') = n - 1 /\ DOMAIN todo' = 1 .. n - 1 /\ DOMAIN todo = 1 .. n
          /\ \A i \in 1 .. n - 1 : todo'[i] = todo[i]
      BY <1>1, <1>n, <1>c, <1>7 DEF Replaced, After, Caller
    <2>2. 1 \in 1 .. n - 1 /\ n - 1 = 1 /\ 1 .. n - 1 = {1} /\ 1 .. n = {1, 2}
      BY <1>5
    <2>3. Len(todo') = 1 /\ DOMAIN todo' = {1} /\ DOMAIN todo = {1, 2} /\ todo'[1] = todo[1]
      BY <2>1, <2>2
    <2> QED BY <2>3 DEF Last
  <1>9. todo' \in Seq(Frame) /\ \A i \in DOMAIN todo' : FrameOK(todo'[i])
    BY <1>3, <1>7, <1>c, StackTypes DEF Fits
  <1>10. Shape'
    BY <1>3, <1>6, <1>7, <1>c, ShapeKept DEF Fits
  <1>11. Chosen'
    <2>1. ~ \E i : i \in 1 .. Len(todo') - 1
      BY <1>8
    <2> QED BY <2>1 DEF Chosen
  <1>12. Moving' /\ Heads'
    <2>3. MapDepth \in Nat /\ MapDepth' \in Nat /\ MapDepth <= MapDepth'
      BY <1>3, <1>6 DEF Types
    <2>4. Moving'
      BY <2>3, <1>3, <1>6, <1>c, <1>7, MovingKept
    <2>5. Heads'
      BY <1>2, <1>6, <1>c, <1>7, HeadsKept DEF IInvParts, HeadsOK
    <2> QED BY <2>4, <2>5
  <1>13. Adding' = Adding /\ Adding' = {} /\ \A i \in Adding : todo'[i] = todo[i]
    <2>1. Adding' = {}
      BY <1>5, <1>8 DEF Adding
    <2> QED BY <2>1, <1>4, <1>c, <1>7, AddingKept
  <1>14. Typing'
    BY <1>3, <1>6, <1>9 DEF Typing
  <1>15. /\ Map' /\ Reported' /\ Linked' = Linked
         /\ \A p \in Page : PageAt(p)' = PageAt(p)
         /\ MemoryMap' = MemoryMap
    <2>1. \A y \in Linked : y \in StackSlot => y[2] < MapDepth'
      BY <1>2, <1>6 DEF IInvParts, Map
    <2> QED BY <2>1, <1>2, <1>3, <1>6, <1>13, <1>14, MapKept DEF IInvParts
  <1>16. Types'
    BY <1>3, <1>6, <1>9, <1>15 DEF Types
  <1>17. Pages4'
    <2>1. \A i \in DOMAIN todo', p \in Page : ~ Claims(i, p)'
      BY <1>5, <1>6, <1>8 DEF Claims
    <2>2. /\ \A a, p : InAlloc(a, p)' <=> InAlloc(a, p)
          /\ \A q, p : InPool(q, p)' <=> InPool(q, p)
          /\ \A p : InRegion(p)' <=> InRegion(p)
      BY <1>6 DEF InAlloc, InPool, InRegion
    <2>3. Pages4
      BY <1>2 DEF IInvParts
    <2>4. OnePageOwner'
      BY <2>1, <2>2, <2>3, <1>6 DEF Pages4, OnePageOwner
    <2>5. PageTypes'
      BY <2>1, <2>2, <2>3, <1>6, <1>15 DEF Pages4, PageTypes
    <2>6. AddedFor'
      BY <1>13 DEF AddedFor
    <2>7. NoLeak'
      <3> SUFFICES ASSUME NEW p \in Page, PageAt(p).type \notin {Conv, Absent}, p \notin Owned \cup lost
                   PROVE  Spoiled(p)'
        <4>1. Owned' = Owned /\ lost' = lost
          BY <1>6 DEF Owned
        <4> QED BY <4>1, <1>15 DEF NoLeak
      <3>1. PICK i \in DOMAIN todo : Claims(i, p)
        BY <2>3, <1>3 DEF Pages4, NoLeak, Spoiled
      <3>2. todo[2].type # Conv /\ todo[2].op = "ConvertPages"
        <4>1. n - 1 = 1
          BY <1>5
        <4> QED BY <4>1, <1>1, <1>5, PagesAssumption DEF Caller
      <3>3. i = 1
        BY <3>1, <3>2, <1>8 DEF Claims
      <3>4. todo[1].start <= p /\ p < todo[2].start
        BY <3>1, <3>3, <1>5, <1>n DEF Claims
      <3>5. p <= todo[1].end
        <4>1. n - 1 = 1
          BY <1>5
        <4>2. todo[2].start <= todo[2].end + 1 /\ todo[2].start \in Nat /\ todo[2].end \in Nat /\ todo[2].end = todo[1].end
          BY <4>1, <1>1, <1>5 DEF Caller
        <4>3. p \in Nat
          BY PagesAssumption DEF Page
        <4> QED BY <3>4, <4>2, <4>3
      <3>6. PageAt(p).type = todo[1].type
        BY <3>1, <3>3, <2>3, <1>5 DEF Pages4, PageTypes
      <3> QED BY <3>4, <3>5, <3>6, <1>6, <1>8, <1>15 DEF Spoiled
    <2> QED BY <2>4, <2>5, <2>6, <2>7 DEF Pages4
  <1>18. Keys'
    BY <1>2, <1>6, <1>15, KeysKept DEF IInvParts
  <1>19. Returned'
    BY <1>3, <1>5, <1>6, <1>8 DEF Returned
  <1>20. Freeing = {} /\ Freeing' = {}
    BY <1>3, <1>4, <1>c, <1>7, FreeingFacts, NothingFreed DEF FreeingOf
  <1>21. Owners' /\ Blocks' /\ Lists'
    BY <1>2, <1>6, <1>15, <1>20, OwnersKept, ListsKept, BlocksKept DEF IInvParts
  <1> QED BY <1>10, <1>11, <1>12, <1>15, <1>16, <1>17, <1>18, <1>19, <1>21, PartsPrime DEF IInvParts

\* What is left of descriptor e in front of the range from a to b, or behind it.
Piece(d, e, a, b) ==
    /\ d.type = e.type /\ d.attr = e.attr /\ d.start <= d.end
    /\ \/ d.start = e.start /\ d.end = a - 1
       \/ d.start = b + 1 /\ d.end = e.end

\* The range from a to b is cut out of descriptor s.
CutOut(s, a, b) ==
    /\ desc' \in [Slot -> Entry \cup {NoEntry}]
    /\ \A u \in Linked : u # s => u \in Linked' /\ desc'[u] = desc[u]
    /\ \A u \in Linked' : (u \in Linked /\ u # s) \/ Piece(desc'[u], desc[s], a, b)
    /\ \A u, v \in Linked' :
          u # v /\ Piece(desc'[u], desc[s], a, b) /\ Piece(desc'[v], desc[s], a, b) =>
             desc'[u].start # desc'[v].start
    /\ \A p \in Page : Covers(desc[s], p) /\ ~ (a <= p /\ p <= b) =>
          \E u \in Linked' : Piece(desc'[u], desc[s], a, b) /\ Covers(desc'[u], p)
    /\ MapDepth' \in Nat /\ MapDepth <= MapDepth'
    /\ \A u \in Linked' : u \in StackSlot => u[2] < MapDepth'
    /\ IF desc[s].start = a /\ desc[s].end = b THEN Linked' = Linked \ {s}
       ELSE Linked \subseteq Linked' /\ Linked' \ Linked \subseteq StackSlot

LEMMA SlotFacts ==
    ASSUME NEW i
    PROVE  /\ MapStack(i)[2] = i /\ (i \in Nat /\ i < MAX_MAP_DEPTH => MapStack(i) \in StackSlot /\ MapStack(i) \in Slot)
           /\ MapStack(i) \notin PoolSlot
  BY PagesAssumption DEF MapStack, StackSlot, Slot, PoolSlot, Page

\* A descriptor that begins or ends elsewhere.
LEMMA PieceFacts ==
    ASSUME NEW e \in Entry, NEW x \in Page
    PROVE  /\ [e EXCEPT !.start = x] \in Entry /\ [e EXCEPT !.start = x].start = x
           /\ [e EXCEPT !.start = x].end = e.end /\ [e EXCEPT !.start = x].type = e.type
           /\ [e EXCEPT !.start = x].attr = e.attr
           /\ [e EXCEPT !.end = x] \in Entry /\ [e EXCEPT !.end = x].end = x
           /\ [e EXCEPT !.end = x].start = e.start /\ [e EXCEPT !.end = x].type = e.type
           /\ [e EXCEPT !.end = x].attr = e.attr
  BY DEF Entry

LEMMA NoEntryFacts == NoEntry.type = Absent /\ \A e \in Entry : e.type # Absent
  BY PagesAssumption DEF NoEntry, Entry

\* One slot is given a new value.
LEMMA OneSlot ==
    ASSUME desc \in [Slot -> Entry \cup {NoEntry}], NEW s \in Slot, NEW d \in Entry \cup {NoEntry},
           desc' = [desc EXCEPT ![s] = d]
    PROVE  /\ desc' \in [Slot -> Entry \cup {NoEntry}]
           /\ desc'[s] = d /\ \A u \in Slot : u # s => desc'[u] = desc[u]
           /\ Linked' = IF d = NoEntry THEN Linked \ {s} ELSE Linked \cup {s}
  BY NoEntryFacts DEF Linked

LEMMA TwoSlots ==
    ASSUME desc \in [Slot -> Entry \cup {NoEntry}], NEW s \in Slot, NEW m \in Slot, s # m,
           NEW d \in Entry, NEW f \in Entry, desc' = [desc EXCEPT ![s] = d, ![m] = f]
    PROVE  /\ desc' \in [Slot -> Entry \cup {NoEntry}]
           /\ desc'[s] = d /\ desc'[m] = f /\ \A u \in Slot : u # s /\ u # m => desc'[u] = desc[u]
           /\ Linked' = Linked \cup {s, m}
  BY NoEntryFacts DEF Linked

LEMMA CutFacts ==
    ASSUME Types, Map, DepthBounded, NEW s \in Linked, NEW a \in Nat, NEW b \in Nat,
           desc[s].start <= a, a <= b, b <= desc[s].end, Cut(s, a, b)
    PROVE  CutOut(s, a, b)
  <1> DEFINE e == desc[s]
             m == MapStack(MapDepth)
  <1>0. /\ desc \in [Slot -> Entry \cup {NoEntry}] /\ s \in Slot /\ e \in Entry
        /\ e.start \in Nat /\ e.end \in Nat /\ e.start < NPages /\ e.end < NPages /\ NPages \in Nat
        /\ MapDepth \in Nat /\ Linked \subseteq Slot
    BY EntryFacts, PagesAssumption DEF Types, Linked
  <1>1. m \in Slot /\ m \in StackSlot /\ m[2] = MapDepth /\ m \notin PoolSlot
    BY <1>0, SlotFacts DEF DepthBounded
  <1>2. m \notin Linked
    <2> SUFFICES ASSUME m \in Linked PROVE FALSE
      OBVIOUS
    <2>1. m[2] < MapDepth
      BY <1>1 DEF Map
    <2> QED BY <2>1, <1>0, <1>1
  <1>3. s # m
    BY <1>2
  <1>4. \A u \in Linked : u \in StackSlot => u[2] < MapDepth
    BY DEF Map
  <1>5. \A p \in Page : p \in Nat
    BY PagesAssumption DEF Page
  <1>6. e # NoEntry /\ e.type # Absent
    BY <1>0, NoEntryFacts
  <1>7. CASE e.start = a /\ e.end = b
    <2>1. desc' = [desc EXCEPT ![s] = NoEntry] /\ MapDepth' = MapDepth
      BY <1>7 DEF Cut
    <2>2. /\ desc' \in [Slot -> Entry \cup {NoEntry}]
          /\ \A u \in Slot : u # s => desc'[u] = desc[u]
          /\ Linked' = Linked \ {s}
      BY <2>1, <1>0, OneSlot
    <2>3. \A p \in Page : ~ (Covers(e, p) /\ ~ (a <= p /\ p <= b))
      BY <1>7 DEF Covers
    <2>4. \A u \in Linked' : u \in Linked /\ u # s
      BY <2>2
    <2>5. \A u \in Linked : u # s => u \in Linked' /\ desc'[u] = desc[u]
      BY <2>2, <1>0
    <2>6. \A u, v \in Linked' :
             u # v /\ Piece(desc'[u], desc[s], a, b) /\ Piece(desc'[v], desc[s], a, b) =>
                desc'[u].start # desc'[v].start
      <3> SUFFICES ASSUME NEW u \in Linked, u # s, Piece(desc[u], e, a, b) PROVE FALSE
        BY <2>4, <2>5
      <3>1. Disjoint(e, desc[u]) /\ desc[u].start \in Nat /\ desc[u].end \in Nat
        BY <1>0, EntryFacts DEF Map
      <3> QED BY <3>1, <1>0 DEF Piece, Disjoint
    <2>7. MapDepth' \in Nat /\ MapDepth <= MapDepth'
      BY <2>1, <1>0
    <2>8. \A u \in Linked' : u \in StackSlot => u[2] < MapDepth'
      BY <2>1, <2>4, <1>4
    <2> QED BY <2>2, <2>3, <2>4, <2>5, <2>6, <2>7, <2>8, <1>7 DEF CutOut
  <1>8. CASE e.start = a /\ e.end # b
    <2>0. b + 1 \in Page /\ b < e.end
      BY <1>0, <1>8 DEF Page
    <2>d. PICK d : d = [e EXCEPT !.start = b + 1]
      OBVIOUS
    <2>1. desc' = [desc EXCEPT ![s] = d] /\ MapDepth' = MapDepth
      BY <1>8, <2>d DEF Cut, Rest
    <2>2. d \in Entry /\ d.start = b + 1 /\ d.end = e.end /\ d.type = e.type /\ d.attr = e.attr /\ d # NoEntry
      BY <2>0, <2>d, <1>0, PieceFacts, NoEntryFacts
    <2>3. /\ desc' \in [Slot -> Entry \cup {NoEntry}] /\ desc'[s] = d
          /\ \A u \in Slot : u # s => desc'[u] = desc[u]
          /\ Linked' = Linked
      <3>1. d \in Entry \cup {NoEntry}
        BY <2>2
      <3>2. Linked' = IF d = NoEntry THEN Linked \ {s} ELSE Linked \cup {s}
        BY <3>1, <2>1, <1>0, OneSlot
      <3>3. Linked' = Linked
        BY <3>2, <2>2
      <3> QED BY <3>1, <3>3, <2>1, <1>0, OneSlot
    <2>4. Piece(d, e, a, b)
      BY <2>0, <2>2, <1>0 DEF Piece
    <2>5. \A p \in Page : Covers(e, p) /\ ~ (a <= p /\ p <= b) => Covers(d, p)
      BY <2>2, <1>0, <1>5, <1>8 DEF Covers
    <2>6. \A u, v \in Linked' : u # v /\ Piece(desc'[u], e, a, b) /\ Piece(desc'[v], e, a, b) =>
             desc'[u].start # desc'[v].start
      <3> SUFFICES ASSUME NEW u \in Linked, u # s, Piece(desc[u], e, a, b) PROVE FALSE
        BY <2>3, <1>0
      <3>1. Disjoint(e, desc[u]) /\ desc[u].start \in Nat /\ desc[u].end \in Nat
        BY <1>0, EntryFacts DEF Map
      <3> QED BY <3>1, <1>0 DEF Piece, Disjoint
    <2> QED BY <2>1, <2>3, <2>4, <2>5, <2>6, <1>0, <1>4, <1>8 DEF CutOut
  <1>9. CASE e.start # a /\ e.end = b
    <2>0. a - 1 \in Page /\ e.start <= a - 1
      BY <1>0, <1>9 DEF Page
    <2>d. PICK d : d = [e EXCEPT !.end = a - 1]
      OBVIOUS
    <2>1. desc' = [desc EXCEPT ![s] = d] /\ MapDepth' = MapDepth
      BY <1>9, <2>d DEF Cut
    <2>2. d \in Entry /\ d.start = e.start /\ d.end = a - 1 /\ d.type = e.type /\ d.attr = e.attr /\ d # NoEntry
      BY <2>0, <2>d, <1>0, PieceFacts, NoEntryFacts
    <2>3. /\ desc' \in [Slot -> Entry \cup {NoEntry}] /\ desc'[s] = d
          /\ \A u \in Slot : u # s => desc'[u] = desc[u]
          /\ Linked' = Linked
      <3>1. d \in Entry \cup {NoEntry}
        BY <2>2
      <3>2. Linked' = IF d = NoEntry THEN Linked \ {s} ELSE Linked \cup {s}
        BY <3>1, <2>1, <1>0, OneSlot
      <3>3. Linked' = Linked
        BY <3>2, <2>2
      <3> QED BY <3>1, <3>3, <2>1, <1>0, OneSlot
    <2>4. Piece(d, e, a, b)
      BY <2>0, <2>2, <1>0 DEF Piece
    <2>5. \A p \in Page : Covers(e, p) /\ ~ (a <= p /\ p <= b) => Covers(d, p)
      BY <2>2, <1>0, <1>5, <1>9 DEF Covers
    <2>6. \A u, v \in Linked' : u # v /\ Piece(desc'[u], e, a, b) /\ Piece(desc'[v], e, a, b) =>
             desc'[u].start # desc'[v].start
      <3> SUFFICES ASSUME NEW u \in Linked, u # s, Piece(desc[u], e, a, b) PROVE FALSE
        BY <2>3, <1>0
      <3>1. Disjoint(e, desc[u]) /\ desc[u].start \in Nat /\ desc[u].end \in Nat
        BY <1>0, EntryFacts DEF Map
      <3> QED BY <3>1, <1>0 DEF Piece, Disjoint
    <2> QED BY <2>1, <2>3, <2>4, <2>5, <2>6, <1>0, <1>4, <1>9 DEF CutOut
  <1>10. CASE e.start # a /\ e.end # b
    <2>0. a - 1 \in Page /\ e.start <= a - 1 /\ b + 1 \in Page /\ b < e.end
      BY <1>0, <1>10 DEF Page
    <2>d. PICK d, f : d = [e EXCEPT !.end = a - 1] /\ f = [e EXCEPT !.start = b + 1]
      OBVIOUS
    <2>1. desc' = [desc EXCEPT ![s] = d, ![m] = f] /\ MapDepth' = MapDepth + 1
      BY <1>10, <2>d DEF Cut, Rest
    <2>2. /\ d \in Entry /\ d.start = e.start /\ d.end = a - 1 /\ d.type = e.type /\ d.attr = e.attr
          /\ f \in Entry /\ f.start = b + 1 /\ f.end = e.end /\ f.type = e.type /\ f.attr = e.attr
      BY <2>0, <2>d, <1>0, PieceFacts
    <2>3. /\ desc' \in [Slot -> Entry \cup {NoEntry}] /\ desc'[s] = d /\ desc'[m] = f
          /\ \A u \in Slot : u # s /\ u # m => desc'[u] = desc[u]
          /\ Linked' = Linked \cup {s, m}
      <3>1. desc \in [Slot -> Entry \cup {NoEntry}] /\ s \in Slot /\ m \in Slot
        BY <1>0, <1>1
      <3>2. d \in Entry /\ f \in Entry
        BY <2>2
      <3>3. desc' = [desc EXCEPT ![s] = d, ![m] = f]
        BY <2>1
      <3> HIDE DEF e, m
      <3> QED BY <3>1, <3>2, <3>3, <1>3, TwoSlots
    <2>4. Piece(d, e, a, b) /\ Piece(f, e, a, b) /\ d.start # f.start
      BY <2>0, <2>2, <1>0 DEF Piece
    <2>5. \A p \in Page : Covers(e, p) /\ ~ (a <= p /\ p <= b) => Covers(d, p) \/ Covers(f, p)
      BY <2>2, <1>0, <1>5, <1>10 DEF Covers
    <2>6. \A u \in Linked : u # s => ~ Piece(desc[u], e, a, b)
      <3> SUFFICES ASSUME NEW u \in Linked, u # s, Piece(desc[u], e, a, b) PROVE FALSE
        OBVIOUS
      <3>1. Disjoint(e, desc[u]) /\ desc[u].start \in Nat /\ desc[u].end \in Nat
        BY <1>0, EntryFacts DEF Map
      <3> QED BY <3>1, <1>0 DEF Piece, Disjoint
    <2>7. \A u \in Linked' : u = s \/ u = m \/ (u \in Linked /\ u # s /\ u # m /\ desc'[u] = desc[u])
      BY <2>3, <1>0, <1>2
    <2>8. \A u, v \in Linked' : u # v /\ Piece(desc'[u], e, a, b) /\ Piece(desc'[v], e, a, b) =>
             desc'[u].start # desc'[v].start
      <3> HIDE DEF e, m
      <3> QED BY <2>3, <2>4, <2>6, <2>7
    <2>9. \A u \in Linked' : u \in StackSlot => u[2] < MapDepth'
      <3> SUFFICES ASSUME NEW u \in Linked', u \in StackSlot PROVE u[2] < MapDepth'
        OBVIOUS
      <3>1. \A v \in StackSlot : v[2] \in Nat
        BY PagesAssumption DEF StackSlot
      <3>2. u[2] <= MapDepth
        <4>1. CASE u = m
          BY <4>1, <1>0, <1>1
        <4>2. CASE u # m
          <5>1. u \in Linked
            BY <4>2, <2>7
          <5> QED BY <5>1, <3>1, <1>0, <1>4
        <4> QED BY <4>1, <4>2
      <3> QED BY <3>1, <3>2, <2>1, <1>0
    <2>10. \A u \in Linked : u # s => u \in Linked' /\ desc'[u] = desc[u]
      BY <2>3, <1>0, <1>2
    <2>11. \A u \in Linked' : (u \in Linked /\ u # s) \/ Piece(desc'[u], e, a, b)
      BY <2>3, <2>4, <2>7
    <2>12. \A p \in Page : Covers(e, p) /\ ~ (a <= p /\ p <= b) =>
              \E u \in Linked' : Piece(desc'[u], e, a, b) /\ Covers(desc'[u], p)
      <3>1. s \in Linked' /\ m \in Linked'
        BY <2>3
      <3> HIDE DEF e, m
      <3> QED BY <3>1, <2>3, <2>4, <2>5
    <2>13. MapDepth' \in Nat /\ MapDepth <= MapDepth'
      BY <2>1, <1>0
    <2>14. Linked \subseteq Linked' /\ Linked' \ Linked \subseteq StackSlot
      BY <2>3, <1>1
    <2> QED BY <2>3, <2>8, <2>9, <2>10, <2>11, <2>12, <2>13, <2>14, <1>10 DEF CutOut
  <1> QED BY <1>7, <1>8, <1>9, <1>10

\* The call at m of the stack adds a range.
AddsAt(m, a, b, t, at) ==
    /\ Adding' = Adding \cup {m} /\ m \notin Adding /\ \A i \in Adding : todo'[i] = todo[i]
    /\ todo'[m].start = a /\ todo'[m].end = b /\ todo'[m].type = t /\ todo'[m].attr = at

\* The pages from a to b have got another type.
Retyped(a, b, t, at) ==
    \A p \in Page : PageAt(p)' = IF a <= p /\ p <= b THEN [type |-> t, attr |-> at] ELSE PageAt(p)

LEMMA MapCut ==
    ASSUME Types, Typing', Map, Reported, reported' = reported, NEW s \in Linked, NEW a \in Nat, NEW b \in Nat,
           desc[s].start <= a, a <= b, b <= desc[s].end, CutOut(s, a, b),
           NEW t \in MemType, NEW m, AddsAt(m, a, b, t, desc[s].attr)
    PROVE  Map' /\ Reported' /\ Retyped(a, b, t, desc[s].attr) /\ \A u \in Linked' : desc'[u].start <= desc'[u].end
  <1>e. PICK e, g : e = desc[s] /\ g = todo'[m]
    OBVIOUS
  <1>0. /\ Typing /\ e.start \in Nat /\ e.end \in Nat /\ e.start <= a /\ a <= b /\ b <= e.end
        /\ e.start <= e.end /\ e.end < NPages
        /\ \A u \in Linked : desc[u].start \in Nat /\ desc[u].end \in Nat /\ desc[u].start <= desc[u].end
        /\ \A u \in Linked' : desc'[u].start \in Nat /\ desc'[u].end \in Nat
        /\ \A i \in Adding : todo[i].start \in Nat /\ todo[i].end \in Nat
        /\ \A p \in Page : p \in Nat
    <2>1. Typing
      BY TypesGiveTyping
    <2>2. \A u \in Linked : desc[u].start \in Nat /\ desc[u].end \in Nat /\ desc[u].start <= desc[u].end
      BY EntryFacts DEF Types
    <2>3. \A u \in Linked' : desc'[u].start \in Nat /\ desc'[u].end \in Nat
      BY PagesAssumption DEF Typing, Linked, Entry, Page, NoEntry
    <2>4. \A i \in Adding : todo[i].start \in Nat /\ todo[i].end \in Nat
      BY <2>1, FrameFacts DEF Typing, Adding
    <2>5. \A p \in Page : p \in Nat
      BY PagesAssumption DEF Page
    <2>6. e.end < NPages
      BY <1>e, EntryFacts DEF Types
    <2> QED BY <1>e, <2>1, <2>2, <2>3, <2>4, <2>5, <2>6
  <1>1. /\ Adding' = Adding \cup {m} /\ m \notin Adding /\ \A i \in Adding : todo'[i] = todo[i]
        /\ g.start = a /\ g.end = b /\ g.type = t /\ g.attr = e.attr
    BY <1>e DEF AddsAt
  <1>2. \A u \in Linked : u # s => /\ u \in Linked' /\ desc'[u] = desc[u]
                                   /\ Disjoint(desc[u], e) /\ Disjoint(e, desc[u])
                                   /\ ~ Adjoins(desc[u], e) /\ ~ Adjoins(e, desc[u])
    BY <1>e DEF CutOut, Map
  <1>3. \A u \in Linked' : (u \in Linked /\ u # s /\ desc'[u] = desc[u]) \/ Piece(desc'[u], e, a, b)
    BY <1>e, <1>2 DEF CutOut
  <1>4. \A u, v \in Linked' : u # v /\ Piece(desc'[u], e, a, b) /\ Piece(desc'[v], e, a, b) =>
           desc'[u].start # desc'[v].start
    BY <1>e DEF CutOut
  <1>5. \A p \in Page : Covers(e, p) /\ ~ (a <= p /\ p <= b) =>
           \E u \in Linked' : Piece(desc'[u], e, a, b) /\ Covers(desc'[u], p)
    BY <1>e DEF CutOut
  <1>6. ASSUME NEW d, d.start \in Nat, d.end \in Nat, Piece(d, e, a, b)
        PROVE  e.start <= d.start /\ d.end <= e.end /\ d.start <= d.end /\ (d.end < a \/ b < d.start)
               /\ d.type = e.type /\ d.attr = e.attr
    BY <1>6, <1>0 DEF Piece
  <1>7. ASSUME NEW d, d.start \in Nat, d.end \in Nat, Piece(d, e, a, b),
               NEW f, f.start \in Nat, f.end \in Nat, f.start <= f.end,
               Disjoint(e, f)
        PROVE  Disjoint(d, f) /\ Disjoint(f, d)
    BY <1>7, <1>6, <1>0 DEF Disjoint
  <1>8. ASSUME NEW d, d.start \in Nat, d.end \in Nat, Piece(d, e, a, b),
               NEW f, f.start \in Nat, f.end \in Nat, f.start <= f.end,
               Disjoint(e, f), ~ Adjoins(e, f)
        PROVE  ~ Adjoins(d, f) /\ ~ Adjoins(f, d)
    <2>1. d.type = e.type /\ d.attr = e.attr
      BY <1>8 DEF Piece
    <2>2. ~ (f.type = e.type /\ f.attr = e.attr /\ (e.end + 1 = f.start \/ f.end + 1 = e.start))
      BY <1>8, Zenon DEF Adjoins
    <2>3. ~ (f.end + 1 = e.start \/ e.end + 1 = f.start) =>
             d.end + 1 # f.start /\ f.end + 1 # d.start
      BY <1>8, <1>0 DEF Piece, Disjoint
    <2> QED BY <2>1, <2>2, <2>3, Zenon DEF Adjoins
  <1>9. ASSUME NEW d, d.start \in Nat, d.end \in Nat, Piece(d, e, a, b),
               NEW f, f.start \in Nat, f.end \in Nat, Piece(f, e, a, b), d.start # f.start
        PROVE  Disjoint(d, f) /\ ~ Adjoins(d, f)
    <2>1. d.start <= d.end /\ f.start <= f.end /\ ((d.end < a /\ b < f.start) \/ (f.end < a /\ b < d.start))
      BY <1>9, <1>0 DEF Piece
    <2>2. Disjoint(d, f)
      BY <2>1, <1>9, <1>0 DEF Disjoint
    <2>3. d.end + 1 # f.start /\ f.end + 1 # d.start
      BY <2>1, <1>9, <1>0
    <2> QED BY <2>2, <2>3 DEF Adjoins
  <1>10. \A u, v \in Linked' : u # v => Disjoint(desc'[u], desc'[v]) /\ ~ Adjoins(desc'[u], desc'[v])
    <2> SUFFICES ASSUME NEW u \in Linked', NEW v \in Linked', u # v
                 PROVE  Disjoint(desc'[u], desc'[v]) /\ ~ Adjoins(desc'[u], desc'[v])
      OBVIOUS
    <2>1. CASE (u \in Linked /\ u # s /\ desc'[u] = desc[u]) /\ (v \in Linked /\ v # s /\ desc'[v] = desc[v])
      BY <2>1 DEF Map
    <2>2. CASE (u \in Linked /\ u # s /\ desc'[u] = desc[u]) /\ Piece(desc'[v], e, a, b)
      BY <2>2, <1>0, <1>2, <1>7, <1>8
    <2>3. CASE Piece(desc'[u], e, a, b) /\ (v \in Linked /\ v # s /\ desc'[v] = desc[v])
      BY <2>3, <1>0, <1>2, <1>7, <1>8
    <2>4. CASE Piece(desc'[u], e, a, b) /\ Piece(desc'[v], e, a, b)
      BY <2>4, <1>0, <1>4, <1>9
    <2> QED BY <2>1, <2>2, <2>3, <2>4, <1>3
  <1>11. \A u \in Linked', i \in Adding' : Disjoint(desc'[u], todo'[i])
    <2> SUFFICES ASSUME NEW u \in Linked', NEW i \in Adding' PROVE Disjoint(desc'[u], todo'[i])
      OBVIOUS
    <2>1. CASE i = m
      <3>1. CASE u \in Linked /\ u # s /\ desc'[u] = desc[u]
        BY <3>1, <2>1, <1>e, <1>0, <1>1, <1>2 DEF Disjoint
      <3>2. CASE Piece(desc'[u], e, a, b)
        BY <3>2, <2>1, <1>e, <1>0, <1>1, <1>6 DEF Disjoint
      <3> QED BY <3>1, <3>2, <1>3
    <2>2. CASE i \in Adding
      <3>0. todo'[i] = todo[i] /\ Disjoint(e, todo[i]) /\ todo[i].start \in Nat /\ todo[i].end \in Nat
        BY <2>2, <1>e, <1>0, <1>1 DEF Map
      <3>1. CASE u \in Linked /\ u # s /\ desc'[u] = desc[u]
        BY <3>0, <3>1, <2>2 DEF Map
      <3>2. CASE Piece(desc'[u], e, a, b)
        BY <3>0, <3>2, <1>0, <1>6 DEF Disjoint
      <3> QED BY <3>1, <3>2, <1>3
    <2> QED BY <2>1, <2>2, <1>1
  <1>12. \A i, j \in Adding' : i # j => Disjoint(todo'[i], todo'[j])
    <2>1. \A i \in Adding : Disjoint(todo[i], g) /\ Disjoint(g, todo[i])
      <3> TAKE i \in Adding
      <3>1. Disjoint(e, todo[i]) /\ todo[i].start \in Nat /\ todo[i].end \in Nat
        BY <1>e, <1>0 DEF Map
      <3> QED BY <3>1, <1>0, <1>1 DEF Disjoint
    <2>2. \A i, j \in Adding : i # j => Disjoint(todo[i], todo[j])
      BY DEF Map
    <2> QED BY <2>1, <2>2, <1>e, <1>1
  <1>13. Map'
    <2>1. \A u \in Linked' : u \in StackSlot => u[2] < MapDepth'
      BY DEF CutOut
    <2> QED BY <2>1, <1>10, <1>11, <1>12 DEF Map, Disjoint, Adjoins
  <1>14. AllKnown /\ AllKnown'
    BY <1>0, <1>13, PageAtFacts, PageAtFactsPrime
  <1>15. ASSUME NEW p \in Page
         PROVE  /\ a <= p /\ p <= b => PageAt(p)' = [type |-> t, attr |-> e.attr] /\ PageAt(p).type # Absent
                /\ ~ (a <= p /\ p <= b) => PageAt(p)' = PageAt(p)
    <2>1. Known(p) /\ Known(p)'
      BY <1>14 DEF AllKnown
    <2>2. CASE a <= p /\ p <= b
      <3>1. m \in Adding' /\ Covers(todo'[m], p)
        BY <2>2, <1>e, <1>1 DEF Covers
      <3>2. PageAt(p)' = [type |-> t, attr |-> e.attr]
        BY <3>1, <2>1, <1>e, <1>1 DEF Known, Covers
      <3>3. Covers(desc[s], p)
        BY <2>2, <1>e, <1>0 DEF Covers
      <3>4. PageAt(p).type = e.type
        BY <3>3, <2>1, <1>e DEF Known
      <3>5. e.type # Absent
        BY <1>e DEF Linked
      <3> QED BY <3>2, <3>4, <3>5, <2>2
    <2>3. CASE ~ (a <= p /\ p <= b)
      <3>1. CASE Covers(e, p)
        <4>1. PICK u \in Linked' : Piece(desc'[u], e, a, b) /\ Covers(desc'[u], p)
          BY <3>1, <2>3, <1>5
        <4>2. PageAt(p)' = [type |-> desc'[u].type, attr |-> desc'[u].attr]
          BY <4>1, <2>1 DEF Known, Covers
        <4>3. PageAt(p) = [type |-> e.type, attr |-> e.attr]
          BY <3>1, <2>1, <1>e DEF Known
        <4> QED BY <4>1, <4>2, <4>3, <2>3 DEF Piece
      <3>2. CASE \E u \in Linked : u # s /\ Covers(desc[u], p)
        <4>1. PICK u \in Linked : u # s /\ Covers(desc[u], p)
          BY <3>2
        <4>2. u \in Linked' /\ desc'[u] = desc[u]
          BY <4>1, <1>2
        <4> QED BY <4>1, <4>2, <2>1, <2>3 DEF Known, Covers
      <3>3. CASE \E i \in Adding : Covers(todo[i], p)
        <4>1. PICK i \in Adding : Covers(todo[i], p)
          BY <3>3
        <4>2. i \in Adding' /\ todo'[i] = todo[i]
          BY <1>1
        <4> QED BY <4>1, <4>2, <2>1, <2>3 DEF Known, Covers
      <3>4. CASE ~ Covers(e, p) /\ (\A u \in Linked : u # s => ~ Covers(desc[u], p)) /\ (\A i \in Adding : ~ Covers(todo[i], p))
        <4>1. \A u \in Linked : ~ Covers(desc[u], p)
          BY <3>4, <1>e
        <4>2. \A u \in Linked' : ~ Covers(desc'[u], p)
          <5> SUFFICES ASSUME NEW u \in Linked', Piece(desc'[u], e, a, b), Covers(desc'[u], p) PROVE FALSE
            BY <4>1, <1>3
          <5>1. Covers(e, p)
            BY <1>0, <1>6 DEF Covers
          <5> QED BY <5>1, <3>4
        <4>3. \A i \in Adding' : ~ Covers(todo'[i], p)
          <5>1. ~ Covers(g, p)
            BY <2>3, <1>1 DEF Covers
          <5> QED BY <5>1, <3>4, <1>e, <1>1
        <4> QED BY <4>1, <4>2, <4>3, <3>4, <2>1, <2>3 DEF Known, Covers
      <3> QED BY <3>1, <3>2, <3>3, <3>4
    <2> QED BY <2>2, <2>3
  <1>16. Retyped(a, b, t, e.attr)
    BY <1>15 DEF Retyped
  <1>17. Reported'
    <2>1. t # Absent
      BY PagesAssumption
    <2> QED BY <2>1, <1>15 DEF Reported
  <1>18. \A u \in Linked' : desc'[u].start <= desc'[u].end
    BY <1>0, <1>3 DEF Piece
  <1> QED BY <1>e, <1>13, <1>16, <1>17, <1>18

\* The pages from a to b go from ConvertPages to its caller.
Shifted(n, a, b, t) ==
    /\ \A i \in 1 .. n - 1, p \in Page :
          Claims(i, p)' <=> Claims(i, p) \/ (i = n - 1 /\ t # Conv /\ a <= p /\ p <= b)
    /\ \A p \in Page : Claims(n, p)' <=> Claims(n, p) /\ ~ (a <= p /\ p <= b)
    /\ \A k \in DOMAIN todo', p \in Page : k > n => ~ Claims(k, p)'
    /\ t = Conv => \A p \in Page : a <= p /\ p <= b => Claims(n, p)
    /\ t # Conv => todo[n - 1].op # "ConvertPages" /\ todo[n - 1].type = t

LEMMA ClaimsShifted ==
    ASSUME NEW n, Caller(n), NEW c, Replaced(c), NEW a, a = todo[n].start, NEW b \in Nat, a <= b, b <= todo[n].end,
           NEW t, t = todo[n].type, Len(c) > 0,
           c[1].op = "ConvertPages", c[1].start = b + 1, c[1].end = todo[n].end, c[1].type = t,
           \A k \in 2 .. Len(c) : c[k].op \notin ClaimOp
    PROVE  Shifted(n, a, b, t)
  <1>0. /\ n \in Nat \ {0} /\ n > 1 /\ n = Len(todo) /\ DOMAIN todo = 1 .. n /\ n - 1 \in 1 .. n - 1
        /\ todo[n].op = "ConvertPages" /\ a \in Nat /\ todo[n].end \in Nat
    BY DEF Caller
  <1>1. /\ Len(c) \in Nat \ {0} /\ Len(todo') = n - 1 + Len(c) /\ DOMAIN todo' = 1 .. n - 1 + Len(c)
        /\ \A k \in 1 .. Len(c) : todo'[n - 1 + k] = c[k]
        /\ \A i \in 1 .. n - 1 : todo'[i] = todo[i]
    BY <1>0 DEF Replaced, After
  <1>2. Deep(n)
    BY <1>0, ClaimsDeep
  <1>3. \A p \in Page : p \in Nat
    BY PagesAssumption DEF Page
  <1>4. PICK g, h : g = c[1] /\ h = todo[n]
    OBVIOUS
  <1>5. todo'[n] = g
    <2>1. 1 \in 1 .. Len(c) /\ n - 1 + 1 = n
      BY <1>0, <1>1
    <2> QED BY <2>1, <1>1, <1>4
  <1>6. /\ g.op = "ConvertPages" /\ g.start = b + 1 /\ g.end = h.end /\ g.type = t
        /\ h.op = "ConvertPages" /\ h.start = a /\ h.type = t /\ h.end \in Nat /\ b <= h.end
    BY <1>0, <1>4
  <1>7. ASSUME NEW p \in Page
        PROVE  /\ Claims(n, p)' <=> Claims(n, p) /\ ~ (a <= p /\ p <= b)
               /\ t = Conv /\ a <= p /\ p <= b => Claims(n, p)
    <2>1. Claims(n, p) <=> t = Conv /\ a <= p /\ p <= h.end
      BY <1>4, <1>6 DEF Claims, Covers
    <2>2. Claims(n, p)' <=> t = Conv /\ b + 1 <= p /\ p <= h.end
      BY <1>5, <1>6 DEF Claims, Covers
    <2>3. p \in Nat
      BY <1>3
    <2>4. (b + 1 <= p /\ p <= h.end) <=> ((a <= p /\ p <= h.end) /\ ~ (a <= p /\ p <= b))
      BY <2>3, <1>0, <1>6
    <2>5. a <= p /\ p <= b => p <= h.end
      BY <2>3, <1>6
    <2> QED BY <2>1, <2>2, <2>4, <2>5
  <1>8. ASSUME NEW k \in DOMAIN todo', NEW p \in Page, k > n
        PROVE  ~ Claims(k, p)'
    <2>0. PICK l : l = Len(c)
      OBVIOUS
    <2>a. n \in Nat /\ l \in Nat /\ k \in 1 .. n - 1 + l /\ k > n
      BY <2>0, <1>0, <1>1, <1>8
    <2>b. k - n + 1 \in 2 .. l /\ n - 1 + (k - n + 1) = k
      <3> HIDE <1>8, <2>0
      <3>1. k \in Nat /\ k <= n - 1 + l
        BY <2>a
      <3>2. k - n + 1 \in Nat /\ 2 <= k - n + 1 /\ k - n + 1 <= l
        BY <3>1, <2>a
      <3> QED BY <3>1, <3>2, <2>a
    <2>1. k - n + 1 \in 2 .. Len(c) /\ n - 1 + (k - n + 1) = k
      BY <2>0, <2>b
    <2>2. k - n + 1 \in 1 .. Len(c)
      BY <2>1, <1>1
    <2>3. todo'[k] = c[k - n + 1]
      BY <2>1, <2>2, <1>1
    <2>4. todo'[k].op \notin ClaimOp
      BY <2>1, <2>3
    <2> QED BY <2>4 DEF Claims, ClaimOp
  <1>9. ASSUME NEW p \in Page
        PROVE  Claims(n - 1, p)' <=> Claims(n - 1, p) \/ (t # Conv /\ a <= p /\ p <= b)
    <2>i. PICK m : m = n - 1
      OBVIOUS
    <2>1. todo'[m] = todo[m] /\ m # Len(todo') /\ m # Len(todo) /\ m + 1 = n /\ todo'[m + 1] = g /\ todo[m + 1] = h
      BY <2>i, <1>0, <1>1, <1>4, <1>5
    <2>2. p \in Nat
      BY <1>3
    <2>3. CASE todo[m].op = "AllocatePages"
      <3>1. todo[m].start \in Nat /\ todo[m].start <= a /\ t # Conv
        BY <2>3, <2>i, PagesAssumption DEF Caller
      <3>2. Claims(m, p) <=> todo[m].start <= p /\ p < a
        BY <2>1, <2>3, <1>6 DEF Claims
      <3>3. Claims(m, p)' <=> todo[m].start <= p /\ p < b + 1
        BY <2>1, <2>3, <1>6 DEF Claims
      <3>4. (todo[m].start <= p /\ p < b + 1) <=> ((todo[m].start <= p /\ p < a) \/ (a <= p /\ p <= b))
        BY <2>2, <3>1, <1>0
      <3> QED BY <3>1, <3>2, <3>3, <3>4, <2>i
    <2>4. CASE todo[m].op = "CarvePages"
      <3>1. todo[m].slot[1] \in Nat /\ todo[m].slot[1] <= a /\ t # Conv
        BY <2>4, <2>i, PagesAssumption DEF Caller
      <3>2. Claims(m, p) <=> todo[m].slot[1] <= p /\ p < a
        BY <2>1, <2>4, <1>6 DEF Claims
      <3>3. Claims(m, p)' <=> todo[m].slot[1] <= p /\ p < b + 1
        BY <2>1, <2>4, <1>6 DEF Claims
      <3>x. PICK x : x = todo[m].slot[1]
        OBVIOUS
      <3>4. (x <= p /\ p < b + 1) <=> ((x <= p /\ p < a) \/ (a <= p /\ p <= b))
        BY <2>2, <3>1, <3>x, <1>0
      <3> QED BY <3>1, <3>2, <3>3, <3>4, <3>x, <2>i
    <2>5. CASE todo[m].op \in {"FreePool", "FreePages"}
      <3>1. t = Conv
        BY <2>5, <2>i DEF Caller
      <3> QED BY <3>1, <2>1, <2>5, <2>i DEF Claims
    <2> QED BY <2>3, <2>4, <2>5, <2>i DEF Caller
  <1>10. t # Conv => todo[n - 1].op # "ConvertPages" /\ todo[n - 1].type = t
    BY DEF Caller
  <1>11. \A i \in 1 .. n - 1, p \in Page :
          Claims(i, p)' <=> Claims(i, p) \/ (i = n - 1 /\ t # Conv /\ a <= p /\ p <= b)
    BY <1>2, <1>9 DEF Deep
  <1> QED BY <1>7, <1>8, <1>10, <1>11 DEF Shifted

LEMMA PagesRetyped ==
    ASSUME Types, Pages4, NEW n, NEW a, NEW b, NEW t \in MemType, NEW at, NEW m, Shifted(n, a, b, t), Retyped(a, b, t, at),
           AddsAt(m, a, b, t, at), m = n + 2, n \in Nat \ {0}, n > 1, DOMAIN todo = 1 .. n, todo[n].op = "ConvertPages",
           DOMAIN todo' = 1 .. n + 2 \/ DOMAIN todo' = 1 .. n + 3,
           todo'[n].op = "ConvertPages", \A i \in 1 .. n - 1 : todo'[i] = todo[i],
           t # Conv => \A p \in Page : a <= p /\ p <= b => PageAt(p).type = Conv,
           allocs' = allocs, carved' = carved, lost' = lost, ~ failed, ~ failed'
    PROVE  Pages4'
  <1>0. OnePageOwner /\ PageTypes /\ AddedFor /\ NoLeak
    BY DEF Pages4
  <1>1. /\ \A x, p : InAlloc(x, p)' <=> InAlloc(x, p)
        /\ \A q, p : InPool(q, p)' <=> InPool(q, p)
        /\ \A p : InRegion(p)' <=> InRegion(p)
    BY DEF InAlloc, InPool, InRegion
  <1>2. n - 1 \in 1 .. n - 1 /\ n - 1 \in DOMAIN todo /\ n \in DOMAIN todo /\ n \notin 1 .. n - 1
    OBVIOUS
  <1>3. \A i \in DOMAIN todo' : i \in 1 .. n - 1 \/ i = n \/ i > n
    OBVIOUS
  <1>4. \A i \in DOMAIN todo : i \in 1 .. n - 1 \/ i = n
    OBVIOUS
  <1>5. \A i \in 1 .. n - 1 : i \in DOMAIN todo /\ i \in DOMAIN todo' /\ todo'[i] = todo[i]
    OBVIOUS
  \* Nobody has the pages that are converted, but ConvertPages if they are given back.
  <1>6. ASSUME NEW p \in Page, a <= p, p <= b
        PROVE  /\ ~ InRegion(p) /\ (\A x \in allocs : ~ InAlloc(x, p)) /\ (\A q \in Page : ~ InPool(q, p))
               /\ \A i \in DOMAIN todo : Claims(i, p) => i = n /\ t = Conv
    <2>1. CASE t = Conv
      <3>1. Claims(n, p)
        BY <2>1, <1>6 DEF Shifted
      <3>2. ~ InRegion(p) /\ (\A x \in allocs : ~ InAlloc(x, p)) /\ (\A q \in Page : ~ InPool(q, p))
        BY <3>1, <1>0, <1>2 DEF OnePageOwner
      <3>3. \A i \in DOMAIN todo : Claims(i, p) => i = n
        BY <3>1, <1>0, <1>2 DEF OnePageOwner
      <3> QED BY <3>2, <3>3, <2>1
    <2>2. CASE t # Conv
      <3>1. PageAt(p).type = Conv
        BY <2>2, <1>6
      <3>2. ~ InRegion(p)
        BY <3>1, <1>0 DEF PageTypes
      <3>3. \A x \in allocs : ~ InAlloc(x, p)
        <4> SUFFICES ASSUME NEW x \in allocs, InAlloc(x, p) PROVE FALSE
          OBVIOUS
        <4>1. x.type = Conv
          BY <3>1, <1>0 DEF PageTypes
        <4>2. x.type \in AllocType
          BY DEF Types
        <4> QED BY <4>1, <4>2, PagesAssumption
      <3>4. \A q \in Page : ~ InPool(q, p)
        <4> SUFFICES ASSUME NEW q \in Page, InPool(q, p) PROVE FALSE
          OBVIOUS
        <4>1. carved[q].type = Conv
          BY <3>1, <1>0 DEF PageTypes
        <4>2. carved[q].type \in AllocType \cup {Absent}
          BY DEF Types
        <4>3. Conv # Absent
          BY DEF Conv, Absent
        <4> QED BY <4>1, <4>2, <4>3, PagesAssumption
      <3>5. \A i \in DOMAIN todo : ~ Claims(i, p)
        BY <3>1, <1>0 DEF PageTypes
      <3> QED BY <3>2, <3>3, <3>4, <3>5
    <2> QED BY <2>1, <2>2
  <1>7. ASSUME NEW i \in DOMAIN todo', NEW p \in Page, Claims(i, p)'
        PROVE  \/ i \in DOMAIN todo /\ Claims(i, p) /\ ~ (a <= p /\ p <= b)
               \/ i = n - 1 /\ t # Conv /\ a <= p /\ p <= b
    <2>1. CASE i \in 1 .. n - 1
      <3>1. Claims(i, p) \/ (i = n - 1 /\ t # Conv /\ a <= p /\ p <= b)
        BY <2>1, <1>7 DEF Shifted
      <3>2. Claims(i, p) => ~ (a <= p /\ p <= b)
        BY <2>1, <1>2, <1>5, <1>6
      <3> QED BY <3>1, <3>2, <2>1, <1>5
    <2>2. CASE i = n
      BY <2>2, <1>2, <1>7 DEF Shifted
    <2>3. CASE i > n
      BY <2>3, <1>7 DEF Shifted
    <2> QED BY <2>1, <2>2, <2>3, <1>3
  <1>8. OnePageOwner'
    <2>1. ASSUME NEW i \in DOMAIN todo', NEW p \in Page, Claims(i, p)'
          PROVE  /\ ~ InRegion(p)
                 /\ \A x \in allocs : ~ InAlloc(x, p)
                 /\ \A q \in Page : ~ InPool(q, p)
      BY <2>1, <1>0, <1>6, <1>7 DEF OnePageOwner
    <2>2. ASSUME NEW i \in DOMAIN todo', NEW j \in DOMAIN todo', NEW p \in Page, Claims(i, p)', Claims(j, p)'
          PROVE  i = j
      BY <2>2, <1>0, <1>7 DEF OnePageOwner
    <2>3. /\ \A p \in Page : carved'[p] # NotCarved => p + Align <= NPages
          /\ \A x, y \in allocs, p \in Page : InAlloc(x, p) /\ InAlloc(y, p) => x = y
          /\ \A q, r, p \in Page : InPool(q, p) /\ InPool(r, p) => q = r
          /\ \A x \in allocs, q, p \in Page : ~ (InAlloc(x, p) /\ InPool(q, p))
          /\ \A p \in Page : InRegion(p) =>
                (\A x \in allocs : ~ InAlloc(x, p)) /\ (\A q \in Page : ~ InPool(q, p))
      BY <1>0 DEF OnePageOwner
    <2> QED BY <2>1, <2>2, <2>3, <1>1 DEF OnePageOwner
  <1>9. PageTypes'
    <2>1. \A p \in Page : ~ (a <= p /\ p <= b) => PageAt(p)' = PageAt(p)
      BY DEF Retyped
    <2>2. ASSUME NEW i \in DOMAIN todo', NEW p \in Page, Claims(i, p)'
          PROVE  /\ PageAt(p)'.type \notin {Conv, Absent}
                 /\ todo'[i].op # "ConvertPages" => PageAt(p)'.type = todo'[i].type
      <3>1. CASE i \in DOMAIN todo /\ Claims(i, p) /\ ~ (a <= p /\ p <= b)
        <4>1. PageAt(p)' = PageAt(p)
          BY <3>1, <2>1
        <4>2. /\ PageAt(p).type \notin {Conv, Absent}
              /\ todo[i].op # "ConvertPages" => PageAt(p).type = todo[i].type
          BY <3>1, <1>0 DEF PageTypes
        <4>3. i # n => todo'[i] = todo[i]
          BY <3>1, <1>4, <1>5
        <4> QED BY <4>1, <4>2, <4>3
      <3>2. CASE i = n - 1 /\ t # Conv /\ a <= p /\ p <= b
        <4>1. PageAt(p)'.type = t
          BY <3>2 DEF Retyped
        <4>2. todo'[i].type = t
          BY <3>2, <1>2, <1>5 DEF Shifted
        <4>3. t # Absent
          BY PagesAssumption
        <4> QED BY <4>1, <4>2, <4>3, <3>2
      <3> QED BY <3>1, <3>2, <2>2, <1>7
    <2>3. \A x \in allocs, p \in Page : InAlloc(x, p) => PageAt(p)'.type = x.type
      BY <2>1, <1>0, <1>6 DEF PageTypes
    <2>4. \A q, p \in Page : InPool(q, p) => PageAt(p)'.type = carved[q].type
      BY <2>1, <1>0, <1>6 DEF PageTypes
    <2>5. \A p \in Page : InRegion(p) => PageAt(p)'.type # Conv
      BY <2>1, <1>0, <1>6 DEF PageTypes
    <2> QED BY <2>2, <2>3, <2>4, <2>5, <1>1 DEF PageTypes
  <1>10. AddedFor'
    <2> SUFFICES ASSUME NEW i \in Adding', NEW p \in Page, Covers(todo'[i], p), todo'[i].type # Conv, ~ InRegion(p)
                 PROVE  \E j \in DOMAIN todo' : j < i /\ todo'[j].op # "ConvertPages" /\ Claims(j, p)'
      BY <1>1 DEF AddedFor, Covers
    <2>1. CASE i = m
      <3>1. a <= p /\ p <= b /\ t # Conv
        BY <2>1 DEF AddsAt, Covers
      <3>2. Claims(n - 1, p)' /\ todo'[n - 1].op # "ConvertPages"
        BY <3>1, <1>2, <1>5 DEF Shifted
      <3>3. n - 1 < i
        BY <2>1
      <3> QED BY <3>2, <3>3, <1>2, <1>5
    <2>2. CASE i \in Adding
      <3>1. todo'[i] = todo[i]
        BY <2>2 DEF AddsAt
      <3>2. PICK j \in DOMAIN todo : j < i /\ todo[j].op # "ConvertPages" /\ Claims(j, p)
        BY <3>1, <2>2, <1>0 DEF AddedFor
      <3>3. j \in 1 .. n - 1
        BY <3>2, <1>4
      <3>4. Claims(j, p)'
        BY <3>2, <3>3 DEF Shifted
      <3> QED BY <3>2, <3>3, <3>4, <1>5
    <2> QED BY <2>1, <2>2 DEF AddsAt
  <1>11. NoLeak'
    <2>0. Owned' = Owned
      BY DEF Owned
    <2> SUFFICES ASSUME NEW p \in Page, PageAt(p)'.type \notin {Conv, Absent}, p \notin Owned \cup lost
                 PROVE  \E i \in DOMAIN todo' : Claims(i, p)'
      BY <2>0 DEF NoLeak
    <2>1. CASE a <= p /\ p <= b
      <3>1. t # Conv
        BY <2>1 DEF Retyped
      <3>2. Claims(n - 1, p)'
        BY <3>1, <2>1, <1>2 DEF Shifted
      <3> QED BY <3>2, <1>2, <1>5
    <2>2. CASE ~ (a <= p /\ p <= b)
      <3>1. PageAt(p)' = PageAt(p)
        BY <2>2 DEF Retyped
      <3>2. PICK i \in DOMAIN todo : Claims(i, p)
        BY <3>1, <1>0 DEF NoLeak, Spoiled
      <3>3. Claims(i, p)' /\ i \in DOMAIN todo'
        BY <3>2, <2>2, <1>4, <1>5 DEF Shifted
      <3> QED BY <3>3
    <2> QED BY <2>1, <2>2
  <1> QED BY <1>8, <1>9, <1>10, <1>11 DEF Pages4

\* ConvertPages goes on behind b, after the calls that add the range and free the
\* block of the descriptor (f), if there is one.
RoundCalls(c, g, h, k, f, z) ==
    /\ c \in Seq(Frame) /\ Len(c) = (IF z THEN 4 ELSE 3)
    /\ c[1] = g /\ c[2] = h /\ c[3] = k /\ (z => c[4] = f)

LEMMA RoundFacts ==
    ASSUME NEW g \in Frame, NEW h \in Frame, NEW k \in Frame, NEW f, NEW z \in BOOLEAN, z => f \in Frame,
           NEW c, c = <<g, h, k>> \o (IF z THEN <<f>> ELSE <<>>)
    PROVE  RoundCalls(c, g, h, k, f, z)
  <1>1. /\ <<g, h, k>> \in Seq(Frame) /\ Len(<<g, h, k>>) = 3
        /\ <<g, h, k>>[1] = g /\ <<g, h, k>>[2] = h /\ <<g, h, k>>[3] = k
    BY Seq3
  <1>2. CASE z
    <2>1. <<f>> \in Seq(Frame) /\ Len(<<f>>) = 1 /\ <<f>>[1] = f
      BY <1>2, Seq1
    <2>2. PICK x, y : x = <<g, h, k>> /\ y = <<f>>
      OBVIOUS
    <2>3. c = x \o y
      BY <1>2, <2>2
    <2>4. /\ x \in Seq(Frame) /\ Len(x) = 3 /\ x[1] = g /\ x[2] = h /\ x[3] = k
          /\ y \in Seq(Frame) /\ Len(y) = 1 /\ y[1] = f
      BY <1>1, <2>1, <2>2
    <2>5. c \in Seq(Frame) /\ Len(c) = 4 /\ c[1] = x[1] /\ c[2] = x[2] /\ c[3] = x[3] /\ c[4] = y[1]
      <3>1. c \in Seq(Frame) /\ Len(c) = Len(x) + Len(y)
        BY <2>3, <2>4, ConcatProperties
      <3>2. \A i \in 1 .. Len(x) + Len(y) : (x \o y)[i] = IF i <= Len(x) THEN x[i] ELSE y[i - Len(x)]
        BY <2>4, ConcatProperties, Zenon
      <3> QED BY <3>1, <3>2, <2>3, <2>4
    <2> QED BY <1>2, <2>4, <2>5 DEF RoundCalls
  <1>3. CASE ~ z
    <2>2. PICK x : x = <<g, h, k>>
      OBVIOUS
    <2>3. c = x \o <<>>
      BY <1>3, <2>2
    <2>4. x \in Seq(Frame) /\ Len(x) = 3 /\ x[1] = g /\ x[2] = h /\ x[3] = k
      BY <1>1, <2>2
    <2>5. c = x
      BY <2>3, <2>4, ConcatEmptySeq
    <2> QED BY <1>3, <2>4, <2>5 DEF RoundCalls
  <1> QED BY <1>2, <1>3

\* The descriptor that ConvertPages cuts, and the part of the range it covers.
Cutting(n, s, b) ==
    /\ s \in Linked /\ Covers(desc[s], todo[n].start) /\ Convertible(desc[s], todo[n].type)
    /\ b \in Nat /\ b = (IF desc[s].end < todo[n].end THEN desc[s].end ELSE todo[n].end)
    /\ desc[s].start <= todo[n].start /\ todo[n].start <= b /\ b <= desc[s].end /\ b <= todo[n].end
    /\ \A u \in Linked : Covers(desc[u], todo[n].start) => u = s

Whole(n, s, b) == desc[s].start = todo[n].start /\ desc[s].end = b

LEMMA CuttingFacts ==
    ASSUME IInv, ConvertPages, NEW n, Caller(n), todo[n].start <= todo[n].end,
           \E s \in {s \in Linked : Covers(desc[s], todo[n].start)} : Convertible(desc[s], todo[n].type)
    PROVE  \E s, b : /\ Cutting(n, s, b) /\ Cut(s, todo[n].start, b)
                     /\ Goto(<<[todo[n] EXCEPT !.start = b + 1], Call("FreeMemoryMapStack"),
                               DoAdd(todo[n].start, b, todo[n].type, desc[s].attr)>>
                             \o (IF Whole(n, s, b) /\ s \in PoolSlot THEN <<DoFree(s)>> ELSE <<>>))
                     /\ snap' = NoMap /\ FreeMapStack' = FreeMapStack /\ failed' = failed
  <1>0. IInvParts
    BY Parts
  <1>1. PICK r, C : r = todo[n] /\ C = {s \in Linked : Covers(desc[s], r.start)}
    OBVIOUS
  <1>2. r = Last(todo) /\ r.start \in Nat /\ r.end \in Nat /\ r.start <= r.end
    BY <1>1 DEF Caller
  <1>3. ~ (r.start > r.end)
    BY <1>2
  <1>4. \E s \in C : Convertible(desc[s], r.type)
    BY <1>1
  <1>5. \E s \in C :
           LET b == IF desc[s].end < r.end THEN desc[s].end ELSE r.end
           IN  /\ Cut(s, r.start, b)
               /\ Goto(<<[r EXCEPT !.start = b + 1], Call("FreeMemoryMapStack"),
                         DoAdd(r.start, b, r.type, desc[s].attr)>>
                       \o (IF desc[s].start = r.start /\ desc[s].end = b THEN Release(s) ELSE <<>>))
               /\ BumpKey
               /\ UNCHANGED <<FreeMapStack, failed>>
    BY <1>1, <1>2, <1>3, <1>4, Zenon DEF ConvertPages
  <1>6. PICK s \in C :
           LET b == IF desc[s].end < r.end THEN desc[s].end ELSE r.end
           IN  /\ Cut(s, r.start, b)
               /\ Goto(<<[r EXCEPT !.start = b + 1], Call("FreeMemoryMapStack"),
                         DoAdd(r.start, b, r.type, desc[s].attr)>>
                       \o (IF desc[s].start = r.start /\ desc[s].end = b THEN Release(s) ELSE <<>>))
               /\ BumpKey
               /\ UNCHANGED <<FreeMapStack, failed>>
    BY <1>5
  <1>7. PICK b : b = (IF desc[s].end < r.end THEN desc[s].end ELSE r.end)
    OBVIOUS
  <1>8. \A u \in Linked : desc[u].start \in Nat /\ desc[u].end \in Nat
    BY <1>0, EntryFacts DEF IInvParts, Types
  <1>9. \A u, v \in Linked : Covers(desc[u], r.start) /\ Covers(desc[v], r.start) => u = v
    BY <1>0, <1>2, <1>8 DEF IInvParts, Map, Disjoint, Covers
  <1>10. s \in Linked /\ Covers(desc[s], r.start) /\ \A u \in Linked : Covers(desc[u], r.start) => u = s
    BY <1>1, <1>9
  <1>11. Convertible(desc[s], r.type)
    BY <1>1, <1>4, <1>10
  <1>12. b \in Nat /\ desc[s].start <= r.start /\ r.start <= b /\ b <= desc[s].end /\ b <= r.end
    BY <1>2, <1>7, <1>8, <1>10 DEF Covers
  <1>13. Cutting(n, s, b)
    BY <1>1, <1>7, <1>10, <1>11, <1>12 DEF Cutting
  <1>14. (IF desc[s].start = r.start /\ desc[s].end = b THEN Release(s) ELSE <<>>)
         = IF Whole(n, s, b) /\ s \in PoolSlot THEN <<DoFree(s)>> ELSE <<>>
    BY <1>1 DEF Whole, Release
  <1>15. /\ Cut(s, r.start, b)
         /\ Goto(<<[r EXCEPT !.start = b + 1], Call("FreeMemoryMapStack"), DoAdd(r.start, b, r.type, desc[s].attr)>>
                 \o (IF desc[s].start = r.start /\ desc[s].end = b THEN Release(s) ELSE <<>>))
         /\ snap' = NoMap /\ FreeMapStack' = FreeMapStack /\ failed' = failed
    BY <1>6, <1>7, Zenon DEF BumpKey
  <1>16. Goto(<<[r EXCEPT !.start = b + 1], Call("FreeMemoryMapStack"), DoAdd(r.start, b, r.type, desc[s].attr)>>
                 \o (IF Whole(n, s, b) /\ s \in PoolSlot THEN <<DoFree(s)>> ELSE <<>>))
    BY <1>14, <1>15
  <1> QED BY <1>1, <1>13, <1>15, <1>16

\* The block of a descriptor that is gone is about to be freed.
LEMMA OwnersReleased ==
    ASSUME Types, Owners, NEW s, NEW z \in BOOLEAN, carved' = carved, used' = used, PoolHeadList' = PoolHeadList,
           held' = held, ret' = ret, Freeing = {},
           z => s \in Homes /\ Homes' = Homes \ {s} /\ Freeing' = {s},
           ~ z => Homes' = Homes /\ Freeing' = {}
    PROVE  Owners'
  <1>1. Got' = Got /\ Pools' = Pools
    BY DEF Got, Pools
  <1>2. CASE ~ z
    BY <1>1, <1>2 DEF Owners
  <1>3. CASE z
    <2>1. carved[s[1]].type = RtData /\ RtData \notin OsType
      BY <1>3, PagesAssumption DEF Owners
    <2> QED BY <2>1, <1>1, <1>3 DEF Owners
  <1> QED BY <1>2, <1>3

\* The pages from a to b were free, or are freed now.
Converts(a, b, t, at) ==
    /\ a \in Nat /\ b \in Nat /\ t \in MemType /\ Retyped(a, b, t, at)
    /\ \A p \in Page : a <= p /\ p <= b =>
          PageAt(p).attr = at /\ PageAt(p).type # Absent /\ (t = Conv) # (PageAt(p).type = Conv)

LEMMA ConvertChangeStep ==
    ASSUME IInv, DepthBounded, ConvertPages, ~ (Last(todo).start > Last(todo).end),
           \E s \in {s \in Linked : Covers(desc[s], Last(todo).start)} : Convertible(desc[s], Last(todo).type)
    PROVE  IInv' /\ \E a, b, t, at : Converts(a, b, t, at)
  <1>n. PICK n : n = Len(todo)
    OBVIOUS
  <1>0. Running("ConvertPages")
    BY DEF ConvertPages
  <1>1. Runs("ConvertPages", n) /\ Caller(n)
    BY <1>0, <1>n, BelowFacts, CallerFacts
  <1>2. IInvParts
    BY Parts
  <1>3. Types /\ Moving /\ Typing /\ Shape /\ ret = Null /\ ~ failed
    BY <1>1, <1>2, TypesGiveTyping DEF IInvParts, Returned, Runs
  <1>4. todo # <<>> /\ Last(todo).op # "AddRange" /\ Last(todo).op # "FreePoolI"
    BY <1>1 DEF Runs
  <1>5. /\ todo[n].start \in Nat /\ todo[n].end \in Nat /\ todo[n].type \in MemType /\ Last(todo) = todo[n]
        /\ todo[n].start <= todo[n].end /\ todo[n].end < NPages /\ todo[n] \in Frame
        /\ n \in Nat \ {0} /\ n > 1 /\ n = Len(todo) /\ DOMAIN todo = 1 .. n /\ todo[n].op = "ConvertPages"
    BY <1>1 DEF Caller
  <1>6. PICK s, b : /\ Cutting(n, s, b) /\ Cut(s, todo[n].start, b)
                    /\ Goto(<<[todo[n] EXCEPT !.start = b + 1], Call("FreeMemoryMapStack"),
                              DoAdd(todo[n].start, b, todo[n].type, desc[s].attr)>>
                            \o (IF Whole(n, s, b) /\ s \in PoolSlot THEN <<DoFree(s)>> ELSE <<>>))
                    /\ snap' = NoMap /\ FreeMapStack' = FreeMapStack /\ failed' = failed
    BY <1>1, <1>5, CuttingFacts
  <1>r. PICK r, a, t, e : r = todo[n] /\ a = todo[n].start /\ t = todo[n].type /\ e = desc[s]
    OBVIOUS
  <1>z. PICK z \in BOOLEAN : z <=> Whole(n, s, b) /\ s \in PoolSlot
    OBVIOUS
  <1>g. PICK g, h, k, f : /\ g = [r EXCEPT !.start = b + 1] /\ h = Call("FreeMemoryMapStack")
                          /\ k = DoAdd(a, b, t, e.attr) /\ f = DoFree(s)
    OBVIOUS
  <1>b. PICK c : c = <<g, h, k>> \o (IF z THEN <<f>> ELSE <<>>)
    OBVIOUS
  <1>7. /\ s \in Linked /\ b \in Nat /\ e.start <= a /\ a <= b /\ b <= e.end /\ b <= r.end /\ Convertible(e, t)
        /\ b = (IF e.end < r.end THEN e.end ELSE r.end) /\ \A u \in Linked : Covers(desc[u], a) => u = s
    BY <1>6, <1>r DEF Cutting
  <1>8. a \in Nat /\ r.end \in Nat /\ a <= r.end /\ r.end < NPages /\ t \in MemType /\ r \in Frame
    BY <1>5, <1>r
  <1>9. e.start \in Nat /\ e.end \in Nat /\ e.attr \in {0, 1} /\ e.type \in MemType /\ s \in Slot
    BY <1>3, <1>7, <1>r, EntryFacts DEF Types
  <1>10. /\ g \in Frame /\ g.op = "ConvertPages" /\ g.start = b + 1 /\ g.end = r.end /\ g.type = t
         /\ h \in Frame /\ h.op = "FreeMemoryMapStack"
         /\ k \in Frame /\ k.op = "AddRange" /\ k.start = a /\ k.end = b /\ k.type = t /\ k.attr = e.attr
         /\ z => f \in Frame /\ f.op = "FreePoolI" /\ f.slot = s /\ s \in PoolSlot
    <2>1. b + 1 \in Nat
      BY <1>7
    <2>2. g \in Frame /\ g.op = "ConvertPages" /\ g.start = b + 1 /\ g.end = r.end /\ g.type = t
      BY <2>1, <1>5, <1>8, <1>g, <1>r, StartFacts
    <2>3. h \in Frame /\ h.op = "FreeMemoryMapStack"
      BY <1>g, CallFacts DEF Op
    <2>4. k \in Frame /\ k.op = "AddRange" /\ k.start = a /\ k.end = b /\ k.type = t /\ k.attr = e.attr
      BY <1>7, <1>8, <1>9, <1>g, DoAddFacts
    <2>5. z => f \in Frame /\ f.op = "FreePoolI" /\ f.slot = s /\ s \in PoolSlot
      BY <1>g, <1>z, DoFreeFacts
    <2> QED BY <2>2, <2>3, <2>4, <2>5
  <1>11. RoundCalls(c, g, h, k, f, z)
    BY <1>10, <1>b, RoundFacts
  <1>12. /\ c \in Seq(Frame) /\ Len(c) \in {3, 4} /\ c[1] = g /\ c[2] = h /\ c[3] = k
         /\ (z => Len(c) = 4 /\ c[4] = f) /\ (~ z => Len(c) = 3)
    BY <1>11, <1>z DEF RoundCalls
  <1>13. \A i \in 1 .. Len(c) : i = 1 \/ i = 2 \/ i = 3 \/ (i = 4 /\ z)
    <2>1. CASE z
      <3>1. \A i \in 1 .. 4 : i = 1 \/ i = 2 \/ i = 3 \/ i = 4
        OBVIOUS
      <3> QED BY <3>1, <2>1, <1>12
    <2>2. CASE ~ z
      <3>1. \A i \in 1 .. 3 : i = 1 \/ i = 2 \/ i = 3
        OBVIOUS
      <3> QED BY <3>1, <2>2, <1>12
    <2> QED BY <2>1, <2>2
  <1>14. Goto(c)
    <2>1. (IF Whole(n, s, b) /\ s \in PoolSlot THEN <<DoFree(s)>> ELSE <<>>) = IF z THEN <<f>> ELSE <<>>
      BY <1>z, <1>g
    <2> QED BY <2>1, <1>6, <1>r, <1>g, <1>b
  <1>15. Cut(s, a, b)
    BY <1>6, <1>r
  <1>16. /\ FreeMapStack' = FreeMapStack /\ PoolHeadList' = PoolHeadList /\ carved' = carved /\ used' = used
         /\ FreeList' = FreeList /\ ret' = ret /\ EfiAtRuntime' = EfiAtRuntime /\ failed' = failed
         /\ reported' = reported /\ allocs' = allocs /\ held' = held /\ lost' = lost /\ snap' = NoMap
    BY <1>6 DEF ConvertPages, pool, callers
  <1>17. CutOut(s, a, b)
    BY <1>2, <1>7, <1>8, <1>15, <1>r, CutFacts DEF IInvParts
  <1>18. Replaced(c)
    BY <1>3, <1>4, <1>12, <1>14, ReplacedFacts
  <1>19. Fits(c)
    <2>1. FrameOK(g) /\ FrameOK(h) /\ FrameOK(k) /\ (z => FrameOK(f))
      BY <1>7, <1>8, <1>10, PagesAssumption DEF FrameOK
    <2>2. \A i \in 1 .. Len(c) : FrameOK(c[i])
      BY <2>1, <1>12, <1>13
    <2>3. Under(g, h) /\ Under(h, k) /\ (z => Under(k, f))
      BY <1>10 DEF Under
    <2>4. \A i \in 1 .. Len(c) - 1 : Under(c[i], c[i + 1])
      <3> SUFFICES ASSUME NEW i \in 1 .. Len(c) - 1 PROVE Under(c[i], c[i + 1])
        OBVIOUS
      <3>1. i \in 1 .. Len(c) /\ i + 1 \in 1 .. Len(c) /\ i \in Nat
        BY <1>12
      <3>2. CASE i = 1
        BY <3>2, <2>3, <1>12
      <3>3. CASE i = 2
        BY <3>3, <2>3, <1>12
      <3>4. CASE i = 3
        <4>1. i + 1 = 4
          BY <3>4
        <4>2. z
          BY <4>1, <3>1, <1>13
        <4> QED BY <3>4, <4>1, <4>2, <2>3, <1>12
      <3>5. CASE i = 4
        <4>1. i + 1 = 5
          BY <3>5
        <4> QED BY <4>1, <3>1, <1>13
      <3> QED BY <3>1, <3>2, <3>3, <3>4, <3>5, <1>13
    <2>5. Under(todo[n - 1], g)
      <3>q. PICK q : q = todo[n - 1]
        OBVIOUS
      <3>1. Under(q, r) /\ r.op = "ConvertPages" /\ r.start = a /\ r.type = t
        BY <3>q, <1>1, <1>5, <1>r DEF Runs
      <3>2. q.op = "AllocatePages" => q.start \in Nat /\ q.start <= a
        BY <3>q, <1>1, <1>r DEF Caller
      <3>3. q.op = "CarvePages" => q.slot[1] \in Nat /\ q.slot[1] <= a
        BY <3>q, <1>1, <1>r DEF Caller
      <3>4. \A x \in Nat : x <= a => x <= b + 1
        BY <1>7, <1>8
      <3>5. Under(q, g)
        BY <3>1, <3>2, <3>3, <3>4, <1>10 DEF Under, PoolOp
      <3> QED BY <3>5, <3>q
    <2> QED BY <2>2, <2>4, <2>5, <1>5, <1>12 DEF Fits
  <1>20. /\ Len(todo') = n - 1 + Len(c) /\ DOMAIN todo' = 1 .. n - 1 + Len(c)
         /\ \A i \in 1 .. n - 1 : todo'[i] = todo[i]
         /\ todo'[n] = g /\ todo'[n + 1] = h /\ todo'[n + 2] = k /\ (z => todo'[n + 3] = f)
    <2>1. /\ Len(todo') = n - 1 + Len(c) /\ DOMAIN todo' = 1 .. n - 1 + Len(c)
          /\ \A i \in 1 .. n - 1 : todo'[i] = todo[i]
          /\ \A i \in 1 .. Len(c) : todo'[n - 1 + i] = c[i]
      BY <1>n, <1>18 DEF Replaced, After
    <2>2. n - 1 + 1 = n /\ n - 1 + 2 = n + 1 /\ n - 1 + 3 = n + 2 /\ n - 1 + 4 = n + 3
      BY <1>5
    <2>3. 1 \in 1 .. Len(c) /\ 2 \in 1 .. Len(c) /\ 3 \in 1 .. Len(c) /\ (z => 4 \in 1 .. Len(c))
      BY <1>12
    <2> QED BY <2>1, <2>2, <2>3, <1>12
  <1>20b. \/ z /\ Len(todo') = n + 3 /\ DOMAIN todo' = 1 .. n + 3
          \/ ~ z /\ Len(todo') = n + 2 /\ DOMAIN todo' = 1 .. n + 2
    <2>1. n - 1 + 4 = n + 3 /\ n - 1 + 3 = n + 2
      BY <1>5
    <2>2. CASE z
      <3>1. Len(c) = 4
        BY <2>2, <1>12
      <3> QED BY <3>1, <2>1, <2>2, <1>20
    <2>3. CASE ~ z
      <3>1. Len(c) = 3
        BY <2>3, <1>12
      <3> QED BY <3>1, <2>1, <2>3, <1>20
    <2> QED BY <2>2, <2>3
  <1>20a. \A i \in DOMAIN todo' : i \in 1 .. n - 1 \/ i = n \/ i = n + 1 \/ i = n + 2 \/ (i = n + 3 /\ z)
    <2>0. n \in Nat \ {0}
      BY <1>5
    <2>1. CASE z
      <3>1. \A i \in 1 .. n + 3 : i \in 1 .. n - 1 \/ i = n \/ i = n + 1 \/ i = n + 2 \/ i = n + 3
        BY <2>0
      <3> QED BY <3>1, <2>1, <1>20b
    <2>2. CASE ~ z
      <3>1. \A i \in 1 .. n + 2 : i \in 1 .. n - 1 \/ i = n \/ i = n + 1 \/ i = n + 2
        BY <2>0
      <3> QED BY <3>1, <2>2, <1>20b
    <2> QED BY <2>1, <2>2
  <1>21. todo' \in Seq(Frame) /\ \A i \in DOMAIN todo' : FrameOK(todo'[i])
    BY <1>3, <1>18, <1>19, StackTypes DEF Fits
  <1>22. Shape'
    BY <1>3, <1>16, <1>18, <1>19, ShapeKept DEF Fits
  <1>23. \A i \in 1 .. Len(c) : c[i].op \notin MoveOp /\ c[i].op \notin {"NewPool", "TakeBlock", "CarvePages", "FreePool"}
    BY <1>10, <1>12, <1>13 DEF MoveOp
  <1>24. Moving' /\ Heads'
    <2>3. MapDepth \in Nat /\ MapDepth' \in Nat /\ MapDepth <= MapDepth'
      BY <1>3, <1>17 DEF Types, CutOut
    <2>4. Moving'
      BY <2>3, <1>3, <1>16, <1>23, <1>18, MovingKept
    <2>5. Heads'
      <3>1. HeadsOK(c)
        BY <1>23 DEF HeadsOK
      <3> QED BY <3>1, <1>2, <1>16, <1>18, HeadsKept DEF IInvParts, HeadsOK
    <2> QED BY <2>4, <2>5
  <1>25. Chosen'
    <2> SUFFICES ASSUME NEW i \in 1 .. Len(todo') - 1, todo'[i].op = "CarvePages"
                 PROVE  todo'[i + 1].start = todo'[i + 1].end + 1
      BY DEF Chosen
    <2>1. i \in 1 .. n - 1
      <3> SUFFICES ASSUME i \notin 1 .. n - 1 PROVE FALSE
        OBVIOUS
      <3>1. i = n \/ i = n + 1 \/ (i = n + 2 /\ z)
        <4>1. i \in DOMAIN todo'
          BY <1>21
        <4>2. i # Len(todo')
          BY <1>21
        <4> QED BY <4>1, <4>2, <1>20a, <1>20b
      <3> QED BY <3>1, <1>10, <1>20
    <2>2. todo[i].op = "CarvePages" /\ i \in 1 .. Len(todo) - 1
      BY <2>1, <1>5, <1>20
    <2>3. CASE i # n - 1
      <3>1. i + 1 \in 1 .. n - 1 /\ i + 1 # Len(todo)
        BY <2>1, <2>3, <1>5
      <3>2. todo'[i + 1] = todo[i + 1]
        BY <3>1, <1>20
      <3> QED BY <3>1, <3>2, <2>2, <1>2 DEF IInvParts, Chosen
    <2>4. CASE i = n - 1
      <3>0. i + 1 = n
        BY <2>4, <1>5
      <3>1. r.start # r.end + 1
        BY <1>8, <1>r
      <3>2. PICK u \in Linked : desc[u].start <= a /\ r.end <= desc[u].end
        BY <3>0, <3>1, <2>2, <1>2, <1>r DEF IInvParts, Chosen
      <3>3. desc[u].start \in Nat /\ desc[u].end \in Nat
        BY <1>3, EntryFacts DEF Types
      <3>4. Covers(desc[u], a)
        BY <3>2, <3>3, <1>8 DEF Covers
      <3>5. u = s
        BY <3>4, <1>7
      <3>6. r.end <= e.end
        BY <3>2, <3>5, <1>r
      <3>7. b = r.end
        BY <3>6, <1>7, <1>8, <1>9
      <3> QED BY <3>0, <3>7, <1>10, <1>20
    <2> QED BY <2>3, <2>4
  <1>26. AddsAt(n + 2, a, b, t, e.attr)
    <2>1. n + 2 \notin DOMAIN todo /\ n + 2 \in DOMAIN todo'
      BY <1>5, <1>12, <1>20
    <2>2. ASSUME NEW i \in DOMAIN todo' PROVE i \in 1 .. n - 1 \/ i = n \/ i = n + 1 \/ i = n + 2 \/ (i = n + 3 /\ z)
      BY <1>20a
    <2>3. \A i \in DOMAIN todo : i \in 1 .. n - 1 \/ i = n
      BY <1>5
    <2>4. \A i \in 1 .. n - 1 : i \in DOMAIN todo /\ i \in DOMAIN todo' /\ todo'[i] = todo[i]
      BY <1>5, <1>12, <1>20
    <2>5. \A i \in Adding : i \in 1 .. n - 1
      BY <2>3, <1>5 DEF Adding
    <2>6. \A i \in Adding' : i \in 1 .. n - 1 \/ i = n + 2
      BY <2>2, <1>10, <1>20 DEF Adding
    <2>7. Adding' = Adding \cup {n + 2}
      BY <2>1, <2>4, <2>5, <2>6, <1>10, <1>20 DEF Adding
    <2>8. n + 2 \notin Adding
      BY <2>1 DEF Adding
    <2> QED BY <2>4, <2>5, <2>7, <2>8, <1>10, <1>20 DEF AddsAt
  <1>27. Typing'
    BY <1>17, <1>21 DEF Typing, CutOut
  <1>28. Map' /\ Reported' /\ Retyped(a, b, t, e.attr) /\ \A u \in Linked' : desc'[u].start <= desc'[u].end
    BY <1>2, <1>7, <1>8, <1>16, <1>17, <1>26, <1>27, <1>r, MapCut DEF IInvParts
  <1>29. Types'
    <2>1. desc' \in [Slot -> Entry \cup {NoEntry}] /\ MapDepth' \in Nat
      BY <1>17 DEF CutOut
    <2> QED BY <2>1, <1>3, <1>16, <1>21, <1>28 DEF Types
  <1>30. Pages4'
    <2>1. Shifted(n, a, b, t)
      <3>1. \A i \in 2 .. Len(c) : c[i].op \notin ClaimOp
        BY <1>10, <1>12, <1>13 DEF ClaimOp
      <3>2. Len(c) > 0
        BY <1>12
      <3> QED BY <3>1, <3>2, <1>1, <1>7, <1>10, <1>12, <1>18, <1>r, ClaimsShifted
    <2>2. t # Conv => \A p \in Page : a <= p /\ p <= b => PageAt(p).type = Conv
      <3> SUFFICES ASSUME t # Conv, NEW p \in Page, a <= p, p <= b PROVE PageAt(p).type = Conv
        OBVIOUS
      <3>0. p \in Nat
        BY PagesAssumption DEF Page
      <3>1. Covers(desc[s], p)
        BY <3>0, <1>7, <1>8, <1>9, <1>r DEF Covers
      <3>2. Known(p)
        BY <1>2, <1>3, PageAtFacts DEF IInvParts, AllKnown
      <3>3. e.type = Conv
        BY <1>7 DEF Convertible
      <3> QED BY <3>1, <3>2, <3>3, <1>7, <1>r DEF Known
    <2>3. DOMAIN todo' = 1 .. n + 2 \/ DOMAIN todo' = 1 .. n + 3
      BY <1>20b
    <2>4. PICK m : m = n + 2
      OBVIOUS
    <2>5. AddsAt(m, a, b, t, e.attr)
      BY <2>4, <1>26
    <2>6. todo'[n].op = "ConvertPages"
      BY <1>10, <1>20
    <2>7. Pages4
      BY <1>2 DEF IInvParts
    <2> QED BY <2>1, <2>2, <2>3, <2>4, <2>5, <2>6, <2>7, <1>3, <1>5, <1>8, <1>16, <1>20, <1>28, PagesRetyped
  <1>31. Keys'
    BY <1>1, <1>16 DEF Keys, Runs
  <1>32. Returned'
    BY <1>3, <1>16 DEF Returned
  <1>33. Owners'
    <2>1. Freeing = {}
      BY <1>3, <1>4, FreeingFacts DEF FreeingOf
    <2>2. FreeingOf'
      BY <1>22, <1>27, FreeingFactsPrime
    <2>3. todo' # <<>> /\ Last(todo') = todo'[Len(todo')]
      BY <1>5, <1>12, <1>20, <1>21 DEF Last
    <2>4. z => Freeing' = {s}
      <3> SUFFICES ASSUME z PROVE Freeing' = {s}
        OBVIOUS
      <3>1. Len(todo') = n + 3
        BY <1>20b
      <3>2. Last(todo') = f
        BY <3>1, <2>3, <1>20
      <3> QED BY <3>2, <2>2, <2>3, <1>10 DEF FreeingOf
    <2>5. ~ z => Freeing' = {}
      <3> SUFFICES ASSUME ~ z PROVE Freeing' = {}
        OBVIOUS
      <3>1. Len(todo') = n + 2
        BY <1>20b
      <3>2. Last(todo') = k
        BY <3>1, <2>3, <1>20
      <3> QED BY <3>2, <2>2, <2>3, <1>10 DEF FreeingOf
    <2>6. z => s \in Homes /\ Homes' = Homes \ {s}
      <3> SUFFICES ASSUME z PROVE s \in Homes /\ Homes' = Homes \ {s}
        OBVIOUS
      <3>1. Linked' = Linked \ {s}
        BY <1>17, <1>z, <1>r DEF CutOut, Whole
      <3> QED BY <3>1, <1>7, <1>10 DEF Homes
    <2>7. ~ z => Homes' = Homes
      <3> SUFFICES ASSUME ~ z PROVE Homes' = Homes
        OBVIOUS
      <3>1. StackSlot \cap PoolSlot = {}
        BY PagesAssumption DEF PoolSlot, StackSlot, Page
      <3>2. CASE Whole(n, s, b)
        <4>1. Linked' = Linked \ {s}
          BY <3>2, <1>17, <1>r DEF CutOut, Whole
        <4>2. s \notin PoolSlot
          BY <3>2, <1>z
        <4> QED BY <4>1, <4>2 DEF Homes
      <3>3. CASE ~ Whole(n, s, b)
        <4>1. Linked \subseteq Linked' /\ Linked' \ Linked \subseteq StackSlot
          BY <3>3, <1>17, <1>r DEF CutOut, Whole
        <4> QED BY <4>1, <3>1 DEF Homes
      <3> QED BY <3>2, <3>3
    <2>8. Types /\ Owners
      BY <1>2 DEF IInvParts
    <2> QED BY <2>1, <2>4, <2>5, <2>6, <2>7, <2>8, <1>16, <1>z, OwnersReleased
  <1>34. Blocks' /\ Lists'
    BY <1>2, <1>16, ListsKept, BlocksKept DEF IInvParts
  <1>35. IInv'
    BY <1>22, <1>24, <1>25, <1>28, <1>29, <1>30, <1>31, <1>32, <1>33, <1>34, PartsPrime DEF IInvParts
  <1>36. Converts(a, b, t, e.attr)
    <2> SUFFICES ASSUME NEW p \in Page, a <= p, p <= b
                 PROVE  PageAt(p).attr = e.attr /\ PageAt(p).type # Absent /\ (t = Conv) # (PageAt(p).type = Conv)
      BY <1>7, <1>8, <1>28 DEF Converts
    <2>1. Known(p)
      BY <1>2, <1>3, PageAtFacts DEF IInvParts, AllKnown
    <2>2. Covers(desc[s], p)
      <3>1. p \in Nat
        BY PagesAssumption DEF Page
      <3>2. e.start <= p /\ p <= e.end
        BY <3>1, <1>7, <1>8, <1>9
      <3> QED BY <3>2, <1>r DEF Covers
    <2>3. PageAt(p) = [type |-> e.type, attr |-> e.attr]
      BY <2>1, <2>2, <1>7, <1>r DEF Known
    <2>4. e.type # Absent
      BY <1>7, <1>r DEF Linked
    <2>5. (t = Conv) # (e.type = Conv)
      BY <1>7 DEF Convertible
    <2>6. PageAt(p).type = e.type /\ PageAt(p).attr = e.attr
      BY <2>3
    <2> QED BY <2>4, <2>5, <2>6
  <1> QED BY <1>35, <1>36

-----------------------------------------------------------------------------
(* AddRange *)

Interval(d) == d.start \in Nat /\ d.end \in Nat /\ d.start <= d.end /\ d.end < NPages

\* Two ranges without a common page are disjoint.
LEMMA DisjointPoints ==
    ASSUME NEW d, NEW e, Interval(d), Interval(e), \A p \in Page : ~ (Covers(d, p) /\ Covers(e, p))
    PROVE  Disjoint(d, e)
  <1> SUFFICES ASSUME ~ Disjoint(d, e) PROVE FALSE
    OBVIOUS
  <1>1. /\ d.start \in Nat /\ d.end \in Nat /\ e.start \in Nat /\ e.end \in Nat
        /\ d.start <= d.end /\ e.start <= e.end /\ d.end < NPages /\ e.end < NPages /\ NPages \in Nat
        /\ e.start <= d.end /\ d.start <= e.end
    BY PagesAssumption DEF Interval, Disjoint
  <1>2. d.start \in Page /\ e.start \in Page
    BY <1>1 DEF Page
  <1>3. CASE d.start <= e.start
    <2>1. Covers(d, e.start) /\ Covers(e, e.start)
      BY <1>1, <1>3 DEF Covers
    <2> QED BY <2>1, <1>2
  <1>4. CASE e.start <= d.start
    <2>1. Covers(d, d.start) /\ Covers(e, d.start)
      BY <1>1, <1>4 DEF Covers
    <2> QED BY <2>1, <1>2
  <1> QED BY <1>1, <1>3, <1>4

LEMMA PointsDisjoint ==
    ASSUME NEW d, NEW e, Interval(d), Interval(e), Disjoint(d, e), NEW p \in Page
    PROVE  ~ (Covers(d, p) /\ Covers(e, p))
  <1>1. p \in Nat
    BY PagesAssumption DEF Page
  <1> QED BY <1>1 DEF Interval, Disjoint, Covers

\* Descriptor x takes the range r and all that the descriptors in M cover.
Taken(x, M, r) ==
    /\ desc' \in [Slot -> Entry \cup {NoEntry}] /\ M \subseteq Linked /\ x \in Linked' /\ (x \in M \/ x \notin Linked)
    /\ Linked' = (Linked \ M) \cup {x}
    /\ \A u \in Linked \ M : desc'[u] = desc[u]
    /\ desc'[x].type = r.type /\ desc'[x].attr = r.attr /\ Interval(desc'[x])
    /\ \A u \in M : desc[u].type = r.type /\ desc[u].attr = r.attr
    /\ \A p \in Page : Covers(desc'[x], p) <=> Covers(r, p) \/ \E u \in M : Covers(desc[u], p)
    /\ \A u \in Linked \ M : ~ Adjoins(desc[u], desc'[x])
    /\ MapDepth' \in Nat /\ MapDepth <= MapDepth'
    /\ \A u \in Linked' : u \in StackSlot => u[2] < MapDepth'

LEMMA MapAdded ==
    ASSUME Types, Typing', Map, Reported, reported' = reported, NEW n \in Adding, NEW x, NEW M, Taken(x, M, todo[n]),
           Adding' = Adding \ {n}, \A i \in Adding' : todo'[i] = todo[i]
    PROVE  /\ Map' /\ Reported' /\ \A p \in Page : PageAt(p)' = PageAt(p)
           /\ MemoryMap' = MemoryMap /\ \A u \in Linked' : desc'[u].start <= desc'[u].end
  <1>e. PICK e, r : e = desc'[x] /\ r = todo[n]
    OBVIOUS
  <1>0. /\ Typing
        /\ \A u \in Linked : Interval(desc[u])
        /\ \A i \in Adding : Interval(todo[i])
        /\ \A p \in Page : p \in Nat
    <2>1. Typing
      BY TypesGiveTyping
    <2>2. \A u \in Linked : Interval(desc[u])
      BY EntryFacts DEF Types, Interval
    <2>3. \A i \in Adding : Interval(todo[i])
      <3> SUFFICES ASSUME NEW i \in Adding PROVE Interval(todo[i])
        OBVIOUS
      <3>1. todo[i] \in Frame /\ FrameOK(todo[i]) /\ todo[i].op = "AddRange"
        BY DEF Types, Adding
      <3> QED BY <3>1, FrameFacts DEF FrameOK, Interval
    <2>4. \A p \in Page : p \in Nat
      BY PagesAssumption DEF Page
    <2> QED BY <2>1, <2>2, <2>3, <2>4
  <1>1. /\ M \subseteq Linked /\ x \in Linked' /\ (x \in M \/ x \notin Linked) /\ Linked' = (Linked \ M) \cup {x}
        /\ \A u \in Linked \ M : desc'[u] = desc[u] /\ ~ Adjoins(desc[u], e)
        /\ e.type = r.type /\ e.attr = r.attr /\ Interval(e)
        /\ \A u \in M : desc[u].type = r.type /\ desc[u].attr = r.attr
        /\ \A p \in Page : Covers(e, p) <=> Covers(r, p) \/ \E u \in M : Covers(desc[u], p)
    BY <1>e DEF Taken
  <1>2. \A u \in Linked' : u = x \/ (u \in Linked \ M /\ u # x /\ desc'[u] = desc[u])
    BY <1>1
  <1>3. \A u \in Linked' : Interval(desc'[u])
    BY <1>e, <1>0, <1>1, <1>2
  <1>4. \A u \in Linked \ M : Disjoint(desc[u], e) /\ Disjoint(e, desc[u])
    <2> SUFFICES ASSUME NEW u \in Linked \ M PROVE Disjoint(desc[u], e) /\ Disjoint(e, desc[u])
      OBVIOUS
    <2>1. \A p \in Page : ~ (Covers(desc[u], p) /\ Covers(e, p))
      <3> SUFFICES ASSUME NEW p \in Page, Covers(desc[u], p), Covers(e, p) PROVE FALSE
        OBVIOUS
      <3>1. CASE Covers(r, p)
        <4>1. Disjoint(desc[u], todo[n])
          BY DEF Map
        <4> QED BY <4>1, <3>1, <1>e, <1>0, PointsDisjoint
      <3>2. CASE \E v \in M : Covers(desc[v], p)
        <4>1. PICK v \in M : Covers(desc[v], p)
          BY <3>2
        <4>2. v \in Linked /\ Disjoint(desc[u], desc[v])
          BY <1>1 DEF Map
        <4> QED BY <4>1, <4>2, <1>0, PointsDisjoint
      <3> QED BY <3>1, <3>2, <1>1
    <2>2. \A p \in Page : ~ (Covers(e, p) /\ Covers(desc[u], p))
      BY <2>1
    <2> QED BY <2>1, <2>2, <1>0, <1>1, DisjointPoints
  <1>5. \A u, v \in Linked' : u # v => Disjoint(desc'[u], desc'[v]) /\ ~ Adjoins(desc'[u], desc'[v])
    <2> SUFFICES ASSUME NEW u \in Linked', NEW v \in Linked', u # v
                 PROVE  Disjoint(desc'[u], desc'[v]) /\ ~ Adjoins(desc'[u], desc'[v])
      OBVIOUS
    <2>1. CASE u # x /\ v # x
      BY <2>1, <1>2 DEF Map
    <2>2. CASE u # x /\ v = x
      BY <2>2, <1>e, <1>1, <1>2, <1>4
    <2>3. CASE u = x /\ v # x
      <3>1. ~ Adjoins(desc[v], e) /\ desc'[v] = desc[v] /\ Disjoint(e, desc[v])
        BY <2>3, <1>1, <1>2, <1>4
      <3>2. ~ Adjoins(e, desc[v])
        BY <3>1 DEF Adjoins
      <3> QED BY <3>1, <3>2, <2>3, <1>e
    <2> QED BY <2>1, <2>2, <2>3
  <1>6. \A u \in Linked', i \in Adding' : Disjoint(desc'[u], todo'[i])
    <2> SUFFICES ASSUME NEW u \in Linked', NEW i \in Adding' PROVE Disjoint(desc'[u], todo'[i])
      OBVIOUS
    <2>0. i \in Adding /\ i # n /\ todo'[i] = todo[i]
      OBVIOUS
    <2>1. CASE u # x
      BY <2>0, <2>1, <1>2 DEF Map
    <2>2. CASE u = x
      <3>1. \A p \in Page : ~ (Covers(e, p) /\ Covers(todo[i], p))
        <4> SUFFICES ASSUME NEW p \in Page, Covers(todo[i], p), Covers(e, p) PROVE FALSE
          OBVIOUS
        <4>1. CASE Covers(r, p)
          <5>1. Disjoint(todo[i], todo[n])
            BY <2>0 DEF Map
          <5> QED BY <5>1, <4>1, <2>0, <1>e, <1>0, PointsDisjoint
        <4>2. CASE \E v \in M : Covers(desc[v], p)
          <5>1. PICK v \in M : Covers(desc[v], p)
            BY <4>2
          <5>2. v \in Linked /\ Disjoint(desc[v], todo[i])
            BY <2>0, <1>1 DEF Map
          <5> QED BY <5>1, <5>2, <2>0, <1>0, PointsDisjoint
        <4> QED BY <4>1, <4>2, <1>1
      <3> QED BY <3>1, <2>0, <2>2, <1>e, <1>0, <1>1, DisjointPoints
    <2> QED BY <2>1, <2>2
  <1>7. Map'
    <2>1. \A i, j \in Adding' : i # j => Disjoint(todo'[i], todo'[j])
      BY DEF Map
    <2>2. \A u \in Linked' : u \in StackSlot => u[2] < MapDepth'
      BY DEF Taken
    <2> QED BY <2>1, <2>2, <1>5, <1>6 DEF Map, Disjoint, Adjoins
  <1>8. AllKnown /\ AllKnown'
    BY <1>0, <1>7, PageAtFacts, PageAtFactsPrime
  <1>9. ASSUME NEW p \in Page
        PROVE  PageAt(p)' = PageAt(p)
    <2>1. Known(p) /\ Known(p)'
      BY <1>8 DEF AllKnown
    <2>2. CASE Covers(e, p)
      <3>1. PageAt(p)' = [type |-> e.type, attr |-> e.attr]
        BY <2>1, <2>2, <1>e, <1>1 DEF Known, Covers
      <3>2. CASE Covers(r, p)
        <4>1. PageAt(p) = [type |-> r.type, attr |-> r.attr]
          BY <3>2, <2>1, <1>e DEF Known
        <4> QED BY <3>1, <4>1, <1>1
      <3>3. CASE \E v \in M : Covers(desc[v], p)
        <4>1. PICK v \in M : Covers(desc[v], p)
          BY <3>3
        <4>2. v \in Linked /\ desc[v].type = r.type /\ desc[v].attr = r.attr
          BY <1>1
        <4>3. PageAt(p) = [type |-> desc[v].type, attr |-> desc[v].attr]
          BY <4>1, <4>2, <2>1 DEF Known
        <4> QED BY <3>1, <4>2, <4>3, <1>1
      <3> QED BY <3>2, <3>3, <2>2, <1>1
    <2>3. CASE \E u \in Linked \ M : Covers(desc[u], p)
      <3>1. PICK u \in Linked \ M : Covers(desc[u], p)
        BY <2>3
      <3>2. u \in Linked' /\ desc'[u] = desc[u]
        BY <1>1
      <3> QED BY <3>1, <3>2, <2>1 DEF Known, Covers
    <2>4. CASE \E i \in Adding' : Covers(todo[i], p)
      <3>1. PICK i \in Adding' : Covers(todo[i], p)
        BY <2>4
      <3>2. i \in Adding /\ todo'[i] = todo[i]
        OBVIOUS
      <3> QED BY <3>1, <3>2, <2>1 DEF Known, Covers
    <2>5. CASE ~ Covers(e, p) /\ (\A u \in Linked \ M : ~ Covers(desc[u], p)) /\ (\A i \in Adding' : ~ Covers(todo[i], p))
      <3>1. \A u \in Linked : ~ Covers(desc[u], p)
        BY <2>5, <1>1
      <3>2. \A i \in Adding : ~ Covers(todo[i], p)
        BY <2>5, <1>e, <1>1
      <3>3. \A u \in Linked' : ~ Covers(desc'[u], p)
        BY <2>5, <1>e, <1>2
      <3>4. \A i \in Adding' : ~ Covers(todo'[i], p)
        BY <2>5
      <3> QED BY <3>1, <3>2, <3>3, <3>4, <2>1 DEF Known, Covers
    <2> QED BY <2>2, <2>3, <2>4, <2>5
  <1>10. Reported'
    BY <1>9 DEF Reported
  <1>11. MemoryMap' = MemoryMap
    BY <1>9 DEF MemoryMap
  <1>12. \A u \in Linked' : desc'[u].start <= desc'[u].end
    BY <1>3 DEF Interval
  <1> QED BY <1>7, <1>9, <1>10, <1>11, <1>12

\* Two ranges that adjoin are one.
LEMMA JoinedFacts ==
    ASSUME NEW d \in Entry, NEW e, Interval(d), Interval(e), Adjoins(d, e)
    PROVE  /\ Joined(d, e) \in Entry /\ Interval(Joined(d, e))
           /\ Joined(d, e).type = d.type /\ Joined(d, e).attr = d.attr
           /\ \A p \in Page : Covers(Joined(d, e), p) <=> Covers(d, p) \/ Covers(e, p)
           /\ d.end + 1 = e.start => Joined(d, e).start = d.start /\ Joined(d, e).end = e.end
           /\ e.end + 1 = d.start => Joined(d, e).start = e.start /\ Joined(d, e).end = d.end
  <1>g. PICK g : g = Joined(d, e)
    OBVIOUS
  <1>x. PICK x, y : x = (IF e.start < d.start THEN e.start ELSE d.start) /\ y = (IF e.end > d.end THEN e.end ELSE d.end)
    OBVIOUS
  <1>0. /\ d.start \in Nat /\ d.end \in Nat /\ d.start <= d.end /\ d.end < NPages /\ NPages \in Nat
        /\ e.start \in Nat /\ e.end \in Nat /\ e.start <= e.end /\ e.end < NPages
        /\ d.end + 1 = e.start \/ e.end + 1 = d.start
    BY PagesAssumption DEF Interval, Adjoins
  <1>1. x \in Nat /\ y \in Nat /\ x <= y /\ y < NPages /\ x \in Page /\ y \in Page
    BY <1>0, <1>x DEF Page
  <1>2. g = [d EXCEPT !.start = x, !.end = y]
    BY <1>g, <1>x DEF Joined
  <1>3. g \in Entry /\ g.start = x /\ g.end = y /\ g.type = d.type /\ g.attr = d.attr
    BY <1>1, <1>2 DEF Entry
  <1>4. Interval(g)
    BY <1>1, <1>3 DEF Interval
  <1>5. \A p \in Page : Covers(g, p) <=> Covers(d, p) \/ Covers(e, p)
    <2>1. \A p \in Page : p \in Nat
      BY PagesAssumption DEF Page
    <2> QED BY <2>1, <1>0, <1>x, <1>3 DEF Covers
  <1>6. /\ d.end + 1 = e.start => g.start = d.start /\ g.end = e.end
        /\ e.end + 1 = d.start => g.start = e.start /\ g.end = d.end
    BY <1>0, <1>x, <1>3
  <1> QED BY <1>g, <1>3, <1>4, <1>5, <1>6

\* The range between two descriptors makes them one: what adjoins the result has
\* adjoined one of them.
LEMMA BetweenFacts ==
    ASSUME NEW d \in Entry, NEW r, NEW f \in Entry, NEW v, Interval(d), Interval(r), Interval(f), Interval(v),
           Adjoins(d, r), NEW g, g = Joined(d, r), Adjoins(f, g), ~ Adjoins(f, d),
           ~ Adjoins(v, d), ~ Adjoins(v, f)
    PROVE  ~ Adjoins(v, Joined(f, g))
  <1>1. /\ g \in Entry /\ Interval(g) /\ g.type = d.type /\ g.attr = d.attr
        /\ d.end + 1 = r.start => g.start = d.start /\ g.end = r.end
        /\ r.end + 1 = d.start => g.start = r.start /\ g.end = d.end
    BY JoinedFacts
  <1>h. PICK h : h = Joined(f, g)
    OBVIOUS
  <1>2. /\ h.type = f.type /\ h.attr = f.attr
        /\ f.end + 1 = g.start => h.start = f.start /\ h.end = g.end
        /\ g.end + 1 = f.start => h.start = g.start /\ h.end = f.end
    BY <1>1, <1>h, JoinedFacts
  <1>3. f.type = g.type /\ f.attr = g.attr /\ (f.end + 1 = g.start \/ g.end + 1 = f.start)
    BY DEF Adjoins
  <1>4. d.end + 1 = r.start \/ r.end + 1 = d.start
    BY DEF Adjoins
  <1>5. f.end + 1 # d.start /\ d.end + 1 # f.start
    BY <1>1, <1>3 DEF Adjoins
  <1>6. \/ h.start = d.start /\ h.end = f.end
        \/ h.start = f.start /\ h.end = d.end
    BY <1>1, <1>2, <1>3, <1>4, <1>5
  <1>7. h.type = d.type /\ h.attr = d.attr
    BY <1>1, <1>2, <1>3
  <1> QED BY <1>2, <1>6, <1>7, <1>h, Zenon DEF Adjoins

\* What AddRange does to the map, and whether it frees the block of descriptor s.
Outcome(n, x, M, s, z) ==
    /\ Taken(x, M, todo[n]) /\ Goto(IF z THEN <<DoFree(s)>> ELSE <<>>)
    /\ z => s \in Homes /\ Homes' = Homes \ {s}
    /\ ~ z => Homes' = Homes

LEMMA Swapped ==
    ASSUME desc \in [Slot -> Entry \cup {NoEntry}], NEW t \in Slot, NEW s \in Slot, s # t,
           NEW d \in Entry, desc' = [desc EXCEPT ![t] = d, ![s] = NoEntry]
    PROVE  /\ desc' \in [Slot -> Entry \cup {NoEntry}]
           /\ desc'[t] = d /\ \A u \in Slot : u # s /\ u # t => desc'[u] = desc[u]
           /\ Linked' = (Linked \cup {t}) \ {s}
  BY NoEntryFacts DEF Linked

LEMMA AddRangeFacts ==
    ASSUME IInv, DepthBounded, AddRange, NEW n, Runs("AddRange", n)
    PROVE  \E x, M, s : \E z \in BOOLEAN : Outcome(n, x, M, s, z)
  <1>0. IInvParts
    BY Parts
  <1>r. PICK r : r = todo[n]
    OBVIOUS
  <1>w. PICK new : new = [type |-> r.type, start |-> r.start, end |-> r.end, attr |-> r.attr]
    OBVIOUS
  <1>v. PICK near : near = {s \in Linked : Adjoins(desc[s], new)}
    OBVIOUS
  <1>1. /\ r = Last(todo) /\ r \in Frame /\ r.start \in Nat /\ r.end \in Nat /\ r.start <= r.end /\ r.end < NPages
        /\ r.type \in MemType /\ r.attr \in {0, 1}
    BY <1>r, FrameFacts DEF Runs, FrameOK
  <1>2. /\ new \in Entry /\ Interval(new) /\ new.type = r.type /\ new.attr = r.attr
        /\ \A p : Covers(new, p) <=> Covers(r, p)
    BY <1>1, <1>w, PagesAssumption DEF Entry, Page, Interval, Covers
  <1>3. /\ desc \in [Slot -> Entry \cup {NoEntry}] /\ MapDepth \in Nat /\ Linked \subseteq Slot
        /\ \A u \in Linked : desc[u] \in Entry /\ Interval(desc[u]) /\ u \in Slot
        /\ \A u \in Linked : u \in StackSlot => u[2] < MapDepth
    BY <1>0, EntryFacts DEF IInvParts, Types, Interval, Linked, Map
  <1>4. CASE near = {}
    <2>x. PICK x : x = MapStack(MapDepth)
      OBVIOUS
    <2>0. desc' = [desc EXCEPT ![x] = new] /\ MapDepth' = MapDepth + 1 /\ Goto(<<>>)
      BY <1>4, <1>1, <1>w, <1>v, <2>x DEF AddRange
    <2>1. x \in Slot /\ x \in StackSlot /\ x[2] = MapDepth /\ x \notin PoolSlot
      BY <1>3, <2>x, SlotFacts DEF DepthBounded
    <2>2. x \notin Linked
      <3> SUFFICES ASSUME x \in Linked PROVE FALSE
        OBVIOUS
      <3>1. x[2] < MapDepth
        BY <2>1, <1>3
      <3> QED BY <3>1, <2>1, <1>3
    <2>3. /\ desc' \in [Slot -> Entry \cup {NoEntry}] /\ desc'[x] = new /\ \A u \in Slot : u # x => desc'[u] = desc[u]
          /\ Linked' = Linked \cup {x}
      <3>1. new \in Entry \cup {NoEntry} /\ new # NoEntry
        BY <1>2, NoEntryFacts
      <3>2. Linked' = IF new = NoEntry THEN Linked \ {x} ELSE Linked \cup {x}
        BY <3>1, <2>0, <2>1, <1>3, OneSlot
      <3> QED BY <3>1, <3>2, <2>0, <2>1, <1>3, OneSlot
    <2>4. \A u \in Linked : ~ Adjoins(desc[u], new)
      BY <1>4, <1>v
    <2>5. MapDepth' \in Nat /\ MapDepth <= MapDepth' /\ \A u \in Linked' : u \in StackSlot => u[2] < MapDepth'
      <3>1. MapDepth' \in Nat /\ MapDepth <= MapDepth' /\ MapDepth < MapDepth'
        BY <2>0, <1>3
      <3>2. \A u \in StackSlot : u[2] \in Nat
        BY PagesAssumption DEF StackSlot
      <3>3. ASSUME NEW u \in Linked', u \in StackSlot PROVE u[2] < MapDepth'
        <4>1. CASE u = x
          BY <4>1, <3>1, <2>1
        <4>2. CASE u \in Linked
          <5>1. u[2] < MapDepth /\ u[2] \in Nat
            BY <4>2, <3>2, <3>3, <1>3
          <5> QED BY <5>1, <3>1, <1>3
        <4> QED BY <4>1, <4>2, <2>3
      <3> QED BY <3>1, <3>3
    <2>6. Taken(x, {}, r)
      <3>1. \A u \in Linked \ {} : desc'[u] = desc[u]
        BY <2>2, <2>3, <1>3
      <3>2. x \in Linked' /\ Linked' = (Linked \ {}) \cup {x}
        BY <2>3
      <3> QED BY <3>1, <3>2, <2>2, <2>3, <2>4, <2>5, <1>2 DEF Taken
    <2>7. Homes' = Homes
      BY <2>1, <2>3 DEF Homes
    <2>8. Outcome(n, x, {}, x, FALSE)
      BY <2>0, <2>6, <2>7, <1>r DEF Outcome
    <2> QED BY <2>8
  <1>5. CASE near # {}
    <2>0. PICK s \in near :
             LET grown == Joined(desc[s], new)
                 more == {t \in Linked \ {s} : Adjoins(desc[t], grown)}
             IN  /\ IF more = {}
                    THEN /\ desc' = [desc EXCEPT ![s] = grown]
                         /\ Goto(<<>>)
                    ELSE \E t \in more :
                           /\ desc' = [desc EXCEPT ![t] = Joined(@, grown), ![s] = NoEntry]
                           /\ Goto(Release(s))
                 /\ UNCHANGED MapDepth
      BY <1>5, <1>1, <1>w, <1>v, Zenon DEF AddRange
    <2>g. PICK grown : grown = Joined(desc[s], new)
      OBVIOUS
    <2>m. PICK more : more = {t \in Linked \ {s} : Adjoins(desc[t], grown)}
      OBVIOUS
    <2>1. s \in Linked /\ Adjoins(desc[s], new) /\ MapDepth' = MapDepth
      BY <2>0, <1>v
    <2>2. desc[s] \in Entry /\ Interval(desc[s]) /\ s \in Slot /\ desc[s].type = r.type /\ desc[s].attr = r.attr
      BY <2>1, <1>2, <1>3 DEF Adjoins
    <2>3. /\ grown \in Entry /\ Interval(grown) /\ grown.type = r.type /\ grown.attr = r.attr
          /\ \A p \in Page : Covers(grown, p) <=> Covers(desc[s], p) \/ Covers(r, p)
      <3>1. /\ grown \in Entry /\ Interval(grown) /\ grown.type = desc[s].type /\ grown.attr = desc[s].attr
            /\ \A p \in Page : Covers(grown, p) <=> Covers(desc[s], p) \/ Covers(new, p)
        BY <2>1, <2>2, <2>g, <1>2, JoinedFacts
      <3> QED BY <3>1, <2>2, <1>2
    <2>4. CASE more = {}
      <3>0. desc' = [desc EXCEPT ![s] = grown] /\ Goto(<<>>)
        BY <2>0, <2>g, <2>m, <2>4
      <3>1. /\ desc' \in [Slot -> Entry \cup {NoEntry}] /\ desc'[s] = grown
            /\ \A u \in Slot : u # s => desc'[u] = desc[u]
        BY <3>0, <2>2, <2>3, <1>3, OneSlot
      <3>a. Linked' = Linked
        <4>1. grown \in Entry \cup {NoEntry} /\ grown # NoEntry
          BY <2>3, NoEntryFacts
        <4>2. Linked' = IF grown = NoEntry THEN Linked \ {s} ELSE Linked \cup {s}
          BY <4>1, <3>0, <2>2, <1>3, OneSlot
        <4> QED BY <4>1, <4>2, <2>1
      <3>2. Taken(s, {s}, r)
        <4>1. \A u \in Linked \ {s} : desc'[u] = desc[u] /\ ~ Adjoins(desc[u], desc'[s])
          BY <3>1, <2>4, <2>m, <1>3
        <4>2. s \in Linked' /\ Linked' = (Linked \ {s}) \cup {s} /\ {s} \subseteq Linked
          BY <3>a, <2>1
        <4>3. \A p \in Page : Covers(desc'[s], p) <=> Covers(r, p) \/ \E u \in {s} : Covers(desc[u], p)
          BY <3>1, <2>3
        <4>4. MapDepth' \in Nat /\ MapDepth <= MapDepth' /\ \A u \in Linked' : u \in StackSlot => u[2] < MapDepth'
          BY <3>a, <2>1, <1>3
        <4> QED BY <4>1, <4>2, <4>3, <4>4, <3>1, <2>2, <2>3 DEF Taken
      <3>3. Homes' = Homes
        BY <3>a DEF Homes
      <3>4. Outcome(n, s, {s}, s, FALSE)
        BY <3>0, <3>2, <3>3, <1>r DEF Outcome
      <3> QED BY <3>4
    <2>5. CASE more # {}
      <3>0. PICK t \in more : /\ desc' = [desc EXCEPT ![t] = Joined(desc[t], grown), ![s] = NoEntry]
                              /\ Goto(Release(s))
        BY <2>0, <2>g, <2>m, <2>5
      <3>1. t \in Linked /\ t # s /\ Adjoins(desc[t], grown) /\ desc[t] \in Entry /\ Interval(desc[t]) /\ t \in Slot
        BY <2>m, <1>3
      <3>b. PICK big : big = Joined(desc[t], grown)
        OBVIOUS
      <3>2. desc[t].type = r.type /\ desc[t].attr = r.attr
        BY <3>1, <2>3 DEF Adjoins
      <3>3. /\ big \in Entry /\ Interval(big) /\ big.type = r.type /\ big.attr = r.attr
            /\ \A p \in Page : Covers(big, p) <=> Covers(desc[t], p) \/ Covers(desc[s], p) \/ Covers(r, p)
        <4>1. /\ big \in Entry /\ Interval(big) /\ big.type = desc[t].type /\ big.attr = desc[t].attr
              /\ \A p \in Page : Covers(big, p) <=> Covers(desc[t], p) \/ Covers(grown, p)
          BY <3>1, <3>b, <2>3, JoinedFacts
        <4> QED BY <4>1, <3>2, <2>3
      <3>4. /\ desc' \in [Slot -> Entry \cup {NoEntry}] /\ desc'[t] = big
            /\ \A u \in Slot : u # s /\ u # t => desc'[u] = desc[u]
            /\ Linked' = (Linked \cup {t}) \ {s}
        BY <3>0, <3>1, <3>3, <3>b, <2>2, <1>3, Swapped
      <3>5. Linked' = Linked \ {s}
        BY <3>1, <3>4
      <3>6. ASSUME NEW u \in Linked \ {s, t} PROVE ~ Adjoins(desc[u], big)
        <4>1. ~ Adjoins(desc[t], desc[s]) /\ ~ Adjoins(desc[u], desc[s]) /\ ~ Adjoins(desc[u], desc[t])
          BY <3>1, <2>1, <1>0 DEF IInvParts, Map
        <4>2. Interval(desc[u])
          BY <1>3
        <4> QED BY <4>1, <4>2, <3>1, <3>b, <2>1, <2>2, <2>g, <1>2, BetweenFacts
      <3>7. Taken(t, {s, t}, r)
        <4>1. \A u \in Linked \ {s, t} : desc'[u] = desc[u] /\ ~ Adjoins(desc[u], desc'[t])
          BY <3>4, <3>6, <1>3
        <4>2. t \in Linked' /\ Linked' = (Linked \ {s, t}) \cup {t} /\ {s, t} \subseteq Linked
          BY <3>1, <3>5, <2>1
        <4>3. \A p \in Page : Covers(desc'[t], p) <=> Covers(r, p) \/ \E u \in {s, t} : Covers(desc[u], p)
          BY <3>3, <3>4
        <4>4. MapDepth' \in Nat /\ MapDepth <= MapDepth' /\ \A u \in Linked' : u \in StackSlot => u[2] < MapDepth'
          BY <3>5, <2>1, <1>3
        <4> QED BY <4>1, <4>2, <4>3, <4>4, <3>2, <3>3, <3>4, <2>2 DEF Taken
      <3>8. CASE s \in PoolSlot
        <4>1. s \in Homes /\ Homes' = Homes \ {s}
          BY <3>5, <3>8, <2>1 DEF Homes
        <4>2. Goto(<<DoFree(s)>>)
          BY <3>0, <3>8 DEF Release
        <4>3. Outcome(n, t, {s, t}, s, TRUE)
          BY <4>1, <4>2, <3>7, <1>r DEF Outcome
        <4> QED BY <4>3
      <3>9. CASE s \notin PoolSlot
        <4>1. Homes' = Homes
          BY <3>5, <3>9 DEF Homes
        <4>2. Goto(<<>>)
          BY <3>0, <3>9 DEF Release
        <4>3. Outcome(n, t, {s, t}, s, FALSE)
          BY <4>1, <4>2, <3>7, <1>r DEF Outcome
        <4> QED BY <4>3
      <3> QED BY <3>8, <3>9
    <2> QED BY <2>4, <2>5
  <1> QED BY <1>4, <1>5

LEMMA AddRangeStep ==
    ASSUME IInv, DepthBounded, AddRange
    PROVE  IInv' /\ MemoryMap' = MemoryMap
  <1>n. PICK n : n = Len(todo)
    OBVIOUS
  <1>0. Running("AddRange")
    BY DEF AddRange
  <1>1. Runs("AddRange", n)
    BY <1>0, <1>n, BelowFacts
  <1>2. IInvParts
    BY Parts
  <1>3. Types /\ Moving /\ Typing /\ Shape /\ ret = Null /\ ~ failed
    BY <1>1, <1>2, TypesGiveTyping DEF IInvParts, Returned, Runs
  <1>4. /\ Last(todo).op \notin ClaimOp /\ Last(todo).op # "ConvertPages" /\ Last(todo).op # "FreePoolI" /\ todo # <<>>
        /\ n \in Nat \ {0} /\ DOMAIN todo = 1 .. n /\ todo[n].op = "AddRange"
    BY <1>1 DEF Runs, ClaimOp
  <1>5. n > 1 /\ n - 1 \in 1 .. n - 1 /\ todo[n - 1].op = "FreeMemoryMapStack"
    <2>1. n > 1 /\ n - 1 \in 1 .. n - 1 /\ Under(todo[n - 1], todo[n])
      BY <1>1 DEF Runs, Bottom
    <2>2. PICK f, g : f = todo[n - 1] /\ g = todo[n]
      OBVIOUS
    <2>3. Under(f, g) /\ g.op = "AddRange"
      BY <2>1, <2>2, <1>4
    <2>4. f.op = "FreeMemoryMapStack"
      BY <2>3 DEF Under, PoolOp
    <2> QED BY <2>1, <2>2, <2>4
  <1>6. PICK x, M, s : \E z \in BOOLEAN : Outcome(n, x, M, s, z)
    BY <1>1, AddRangeFacts
  <1>7. PICK z \in BOOLEAN : Outcome(n, x, M, s, z)
    BY <1>6
  <1>b. PICK c : c = IF z THEN <<DoFree(s)>> ELSE <<>>
    OBVIOUS
  <1>8. Taken(x, M, todo[n]) /\ Goto(c) /\ (z => s \in Homes /\ Homes' = Homes \ {s}) /\ (~ z => Homes' = Homes)
    BY <1>7, <1>b DEF Outcome
  <1>c. /\ c \in Seq(Frame) /\ Fits(c) /\ Pageless(c) /\ HeadsOK(c)
        /\ \A k \in 1 .. Len(c) : c[k].op \notin MoveOp /\ c[k].op # "CarvePages"
        /\ z => Len(c) = 1 /\ c[1].op = "FreePoolI" /\ c[1].slot = s
        /\ ~ z => Len(c) = 0
    <2>1. CASE ~ z
      BY <2>1, <1>b, Ends
    <2>2. CASE z
      <3>g. PICK g : g = DoFree(s)
        OBVIOUS
      <3>1. s \in PoolSlot
        BY <2>2, <1>8 DEF Homes
      <3>2. g \in Frame /\ g.op = "FreePoolI" /\ g.slot = s
        BY <3>g, <3>1, DoFreeFacts
      <3>3. FrameOK(g) /\ g.op \notin ClaimOp \cup {"AddRange"}
        BY <3>1, <3>2 DEF FrameOK, ClaimOp
      <3>4. Under(todo[n - 1], g)
        BY <3>2, <1>5 DEF Under
      <3>5. c = <<g>> /\ Len(todo) # 1
        BY <2>2, <3>g, <1>b, <1>n, <1>5
      <3>6. c \in Seq(Frame) /\ Len(c) = 1 /\ c[1] = g /\ Fits(c) /\ Pageless(c) /\ \A k \in 1 .. Len(c) : c[k] = g
        BY <3>2, <3>3, <3>4, <3>5, <1>n, Fits1
      <3> QED BY <3>2, <3>6, <2>2 DEF HeadsOK, MoveOp
    <2> QED BY <2>1, <2>2
  <1>9. /\ FreeMapStack' = FreeMapStack /\ PoolHeadList' = PoolHeadList /\ carved' = carved /\ used' = used
        /\ FreeList' = FreeList /\ ret' = ret /\ EfiAtRuntime' = EfiAtRuntime /\ failed' = failed
        /\ reported' = reported /\ allocs' = allocs /\ held' = held /\ lost' = lost /\ snap' = NoMap
    BY DEF AddRange, pool, callers, BumpKey
  <1>10. Replaced(c)
    BY <1>3, <1>4, <1>8, <1>c, ReplacedFacts
  <1>11. /\ Len(todo') = n - 1 + Len(c) /\ DOMAIN todo' = 1 .. n - 1 + Len(c) /\ Len(c) \in Nat
         /\ \A i \in 1 .. n - 1 : todo'[i] = todo[i]
         /\ \A k \in 1 .. Len(c) : todo'[n - 1 + k] = c[k]
    BY <1>n, <1>10 DEF Replaced, After
  <1>12. todo' \in Seq(Frame) /\ \A i \in DOMAIN todo' : FrameOK(todo'[i])
    BY <1>3, <1>10, <1>c, StackTypes DEF Fits
  <1>13. Shape'
    BY <1>3, <1>9, <1>10, <1>c, ShapeKept DEF Fits
  <1>14. Chosen'
    BY <1>2, <1>3, <1>4, <1>10, <1>c, ChosenKept DEF IInvParts
  <1>15. Moving' /\ Heads'
    <2>3. MapDepth \in Nat /\ MapDepth' \in Nat /\ MapDepth <= MapDepth'
      BY <1>3, <1>8 DEF Types, Taken
    <2>4. Moving'
      BY <2>3, <1>3, <1>9, <1>c, <1>10, MovingKept
    <2>5. Heads'
      BY <1>2, <1>9, <1>c, <1>10, HeadsKept DEF IInvParts, HeadsOK
    <2> QED BY <2>4, <2>5
  <1>16. n \in Adding /\ Adding' = Adding \ {n} /\ \A i \in Adding' : i \in Adding /\ todo'[i] = todo[i]
    <2>1. n \in Adding
      BY <1>4 DEF Adding
    <2>2. \A i \in DOMAIN todo : i \in 1 .. n - 1 \/ i = n
      BY <1>4
    <2>3. \A i \in 1 .. n - 1 : i \in DOMAIN todo /\ i \in DOMAIN todo' /\ todo'[i] = todo[i] /\ i # n
      BY <1>4, <1>11
    <2>4. \A i \in DOMAIN todo' : i \in 1 .. n - 1 \/ (todo'[i].op # "AddRange")
      <3> SUFFICES ASSUME NEW i \in DOMAIN todo', i \notin 1 .. n - 1 PROVE todo'[i].op # "AddRange"
        OBVIOUS
      <3>1. PICK k \in 1 .. Len(c) : todo'[i] = c[k]
        BY <1>10, <1>n DEF Replaced, After
      <3> QED BY <3>1, <1>c DEF Pageless
    <2>5. Adding' = Adding \ {n}
      BY <2>2, <2>3, <2>4 DEF Adding
    <2>6. \A i \in Adding' : i \in 1 .. n - 1
      BY <2>4 DEF Adding
    <2> QED BY <2>1, <2>3, <2>5, <2>6
  <1>17. Typing'
    BY <1>8, <1>12 DEF Typing, Taken
  <1>18. /\ Map' /\ Reported' /\ (\A p \in Page : PageAt(p)' = PageAt(p)) /\ MemoryMap' = MemoryMap
         /\ \A u \in Linked' : desc'[u].start <= desc'[u].end
    BY <1>2, <1>8, <1>9, <1>16, <1>17, MapAdded DEF IInvParts
  <1>19. Types'
    <2>1. desc' \in [Slot -> Entry \cup {NoEntry}] /\ MapDepth' \in Nat
      BY <1>8 DEF Taken
    <2> QED BY <2>1, <1>3, <1>9, <1>12, <1>18 DEF Types
  <1>20. SameClaims
    <2>1. \A k \in 1 .. Len(c) : c[k].op \notin ClaimOp
      BY <1>c DEF Pageless
    <2> QED BY <2>1, <1>3, <1>4, <1>10, ClaimsKept
  <1>21. Pages4'
    BY <1>2, <1>3, <1>9, <1>16, <1>18, <1>20, PagesAdded DEF IInvParts
  <1>22. Keys'
    BY <1>1, <1>9 DEF Keys, Runs
  <1>23. Returned'
    BY <1>3, <1>9 DEF Returned
  <1>24. Owners'
    <2>1. Freeing = {}
      BY <1>3, <1>4, FreeingFacts DEF FreeingOf
    <2>2. ~ z => Freeing' = {}
      <3> SUFFICES ASSUME ~ z PROVE Freeing' = {}
        OBVIOUS
      <3>1. \A k \in 1 .. Len(c) : c[k].op # "FreePoolI"
        BY <1>c
      <3> QED BY <3>1, <1>3, <1>10, NothingFreed
    <2>3. z => Freeing' = {s}
      <3> SUFFICES ASSUME z PROVE Freeing' = {s}
        OBVIOUS
      <3>1. FreeingOf'
        BY <1>13, <1>17, FreeingFactsPrime
      <3>2. 1 \in 1 .. Len(c) /\ n - 1 + 1 = n /\ Len(todo') = n
        <4>1. Len(c) = 1
          BY <1>c
        <4> QED BY <4>1, <1>4, <1>11
      <3>3. todo'[n] = c[1]
        BY <3>2, <1>11
      <3>4. todo' # <<>> /\ Last(todo') = c[1]
        BY <3>2, <3>3, <1>4, <1>12 DEF Last
      <3> QED BY <3>1, <3>4, <1>c DEF FreeingOf
    <2>4. Types /\ Owners
      BY <1>2 DEF IInvParts
    <2> QED BY <2>1, <2>2, <2>3, <2>4, <1>8, <1>9, OwnersReleased
  <1>25. Blocks' /\ Lists'
    BY <1>2, <1>9, ListsKept, BlocksKept DEF IInvParts
  <1>z. IInv'
    BY <1>13, <1>14, <1>15, <1>18, <1>19, <1>21, <1>22, <1>23, <1>24, <1>25, PartsPrime DEF IInvParts
  <1> QED BY <1>z, <1>18

-----------------------------------------------------------------------------
(* AllocatePages and FreePages return *)

LEMMA FreePagesReturnsStep ==
    ASSUME IInv, FreePagesReturns
    PROVE  IInv' /\ MemoryMap' = MemoryMap
  <1>n. PICK n : n = Len(todo)
    OBVIOUS
  <1>0. Running("FreePages")
    BY DEF FreePagesReturns
  <1>1. Runs("FreePages", n)
    BY <1>0, <1>n, BelowFacts
  <1>2. IInvParts
    BY Parts
  <1>3. Types /\ Moving /\ ret = Null /\ ~ failed /\ FreeMapStack \in BOOLEAN
    BY <1>1, <1>2 DEF IInvParts, Returned, Runs, Types
  <1>4. /\ Last(todo).op \notin ClaimOp \cup {"AddRange"} /\ Last(todo).op # "FreePoolI" /\ todo # <<>>
    BY <1>1 DEF Runs, ClaimOp
  <1>b. PICK c : c = <<>>
    OBVIOUS
  <1>c. /\ c \in Seq(Frame) /\ Len(c) = 0 /\ Fits(c) /\ Pageless(c) /\ HeadsOK(c)
        /\ \A k \in 1 .. Len(c) : c[k].op # "FreePoolI" /\ c[k].op \notin MoveOp
    BY <1>b, Ends
  <1>5. Goto(c) /\ UNCHANGED state /\ FreeMapStack' = FreeMapStack /\ MapDepth' = MapDepth
    BY <1>b, <1>3 DEF FreePagesReturns, state, memory, map, pool, Types
  <1>6. Replaced(c)
    BY <1>3, <1>4, <1>5, <1>c, ReplacedFacts
  <1>7. Moving'
    <2>1. MapDepth \in Nat /\ MapDepth' \in Nat /\ MapDepth <= MapDepth'
      BY <1>3, <1>5 DEF Types
    <2> QED BY <2>1, <1>3, <1>5, <1>6, <1>c, MovingKept
  <1> QED BY <1>3, <1>4, <1>5, <1>7, <1>c, QuietStep

\* The stack is empty.
LEMMA StackEmpty ==
    ASSUME todo' = <<>>
    PROVE  /\ Shape' /\ Heads' /\ Moving' /\ Chosen' /\ Adding' = {} /\ Freeing' = {}
           /\ DOMAIN todo' = {} /\ todo' \in Seq(Frame) /\ AddedFor'
  <1>1. /\ DOMAIN todo' = {} /\ todo' \in Seq(Frame) /\ Len(todo') = 0
    OBVIOUS
  <1>2. Adding' = {} /\ Freeing' = {} /\ Movers' = {}
    BY <1>1 DEF Adding, Freeing, Movers
  <1>3. Shape' /\ Chosen'
    <2>1. ~ \E i : i \in 1 .. Len(todo') - 1
      BY <1>1
    <2> QED BY <2>1 DEF Shape, Chosen
  <1> QED BY <1>1, <1>2, <1>3 DEF Heads, Moving, AddedFor

LEMMA AllocatePagesStep ==
    ASSUME IInv, AllocatePages
    PROVE  IInv' /\ MemoryMap' = MemoryMap
  <1>n. PICK n : n = Len(todo)
    OBVIOUS
  <1>0. Running("AllocatePages")
    BY DEF AllocatePages
  <1>1. Runs("AllocatePages", n)
    BY <1>0, <1>n, BelowFacts
  <1>2. IInvParts
    BY Parts
  <1>3. n = 1
    BY <1>1, AloneFacts
  <1>r. PICK r : r = todo[1]
    OBVIOUS
  <1>x. PICK x : x = [start |-> r.start, end |-> r.end, type |-> r.type]
    OBVIOUS
  <1>4. /\ todo \in Seq(Frame) /\ Len(todo) = 1 /\ DOMAIN todo = {1} /\ todo # <<>> /\ r = Last(todo)
        /\ r.op = "AllocatePages" /\ r \in Frame /\ FrameOK(r) /\ ~ EfiAtRuntime
    BY <1>1, <1>3, <1>r DEF Runs
  <1>5. r.type \in AllocType /\ Aligned(r.start, r.end, r.type) /\ r.start \in Nat /\ r.end \in Nat
    BY <1>4, FrameFacts DEF FrameOK
  <1>6. r.start \in Page /\ r.end \in Page /\ r.start <= r.end
    BY <1>5, PagesAssumption DEF Aligned, Page
  <1>7. x.start = r.start /\ x.end = r.end /\ x.type = r.type /\ x \in [start : Page, end : Page, type : AllocType]
        /\ Aligned(x.start, x.end, x.type)
    BY <1>5, <1>6, <1>x
  <1>8. todo' = <<>>
    <2>1. Goto(<<>>)
      BY DEF AllocatePages
    <2>2. <<>> \in Seq(Frame)
      OBVIOUS
    <2>3. After(todo', todo, <<>>)
      BY <2>1, <2>2, <1>4, GotoFacts DEF Goto
    <2>4. Len(<<>>) = 0
      OBVIOUS
    <2>5. Len(todo') = 0 /\ todo' \in Seq(Frame)
      BY <2>3, <2>4, <1>4 DEF After
    <2> QED BY <2>5, EmptySeq
  <1>9. /\ Shape' /\ Heads' /\ Moving' /\ Chosen' /\ Adding' = {} /\ Freeing' = {}
        /\ DOMAIN todo' = {} /\ todo' \in Seq(Frame) /\ AddedFor'
    BY <1>8, StackEmpty
  <1>10. /\ desc' = desc /\ MapDepth' = MapDepth /\ FreeMapStack' = FreeMapStack /\ PoolHeadList' = PoolHeadList
         /\ carved' = carved /\ used' = used /\ FreeList' = FreeList /\ ret' = ret
         /\ EfiAtRuntime' = EfiAtRuntime /\ failed' = FALSE /\ reported' = reported /\ held' = held /\ snap' = snap
    BY DEF AllocatePages, map, pool
  <1>11. Types /\ Typing /\ ret = Null /\ Adding = {} /\ Freeing = {}
    <2>1. Types /\ Typing /\ ret = Null
      BY <1>2, <1>4, TypesGiveTyping DEF IInvParts, Returned
    <2>2. Adding = {} /\ Freeing = {}
      BY <1>4, <1>r DEF Adding, Freeing
    <2> QED BY <2>1, <2>2
  <1>12. \/ ~ failed /\ allocs' = allocs \cup {x} /\ lost' = lost
         \/ failed /\ allocs' = allocs /\ lost' = lost \cup {p \in (r.start .. r.end) \ Owned : PageAt(p).type = r.type}
    BY <1>4, <1>x DEF AllocatePages, Converted
  <1>13. Typing'
    BY <1>9, <1>10, <1>11 DEF Typing
  <1>14. /\ Map' /\ Reported' /\ Linked' = Linked
         /\ \A p \in Page : PageAt(p)' = PageAt(p)
         /\ MemoryMap' = MemoryMap
    <2>1. \A y \in Linked : y \in StackSlot => y[2] < MapDepth'
      BY <1>2, <1>10 DEF IInvParts, Map
    <2>2. Adding' = Adding /\ \A i \in Adding : todo'[i] = todo[i]
      BY <1>9, <1>11
    <2> QED BY <2>1, <2>2, <1>2, <1>10, <1>11, <1>13, MapKept DEF IInvParts
  <1>15. Types'
    <2>1. /\ allocs' \subseteq [start : Page, end : Page, type : AllocType]
          /\ \A a \in allocs' : Aligned(a.start, a.end, a.type)
      BY <1>7, <1>11, <1>12 DEF Types
    <2> QED BY <2>1, <1>9, <1>10, <1>11, <1>14 DEF Types
  <1>16. Pages4'
    <2>0. OnePageOwner /\ PageTypes /\ AddedFor /\ NoLeak
      BY <1>2 DEF IInvParts, Pages4
    <2>1. /\ \A a, p : InAlloc(a, p)' <=> InAlloc(a, p)
          /\ \A q, p : InPool(q, p)' <=> InPool(q, p)
          /\ \A p : InRegion(p)' <=> InRegion(p)
      BY <1>10 DEF InAlloc, InPool, InRegion
    <2>2. OwnedIs /\ OwnedIs'
      BY OwnedFacts, OwnedFactsPrime
    <2>3. 1 \in DOMAIN todo /\ \A i \in DOMAIN todo : i = 1
      BY <1>4
    <2>4. \A p \in Page : p \in Nat
      BY PagesAssumption DEF Page
    <2>5. CASE failed
      <3>1. allocs' = allocs /\ lost' = lost \cup {p \in (r.start .. r.end) \ Owned : PageAt(p).type = r.type}
        BY <2>5, <1>12
      <3>2. OnePageOwner' /\ PageTypes'
        BY <3>1, <2>0, <2>1, <1>9, <1>10, <1>14 DEF OnePageOwner, PageTypes
      <3>3. Owned' = Owned
        BY <3>1, <1>10 DEF Owned
      <3>4. \A p \in Page : ~ Claims(1, p)
        BY <2>5, <1>4, <1>r DEF Claims
      <3>5. NoLeak'
        <4> SUFFICES ASSUME NEW p \in Page, PageAt(p).type \notin {Conv, Absent}, p \notin Owned
                     PROVE  p \in lost'
          BY <3>3, <1>14 DEF NoLeak
        <4>1. p \in lost \/ Spoiled(p)
          BY <3>4, <2>0, <2>3 DEF NoLeak
        <4>2. CASE p \in lost
          BY <4>2, <3>1
        <4>3. CASE Spoiled(p)
          <5>1. r.start <= p /\ p <= r.end /\ PageAt(p).type = r.type
            BY <4>3, <1>4 DEF Spoiled
          <5>2. p \in r.start .. r.end
            BY <5>1, <2>4, <1>5
          <5> QED BY <5>1, <5>2, <3>1
        <4> QED BY <4>1, <4>2, <4>3
      <3> QED BY <3>2, <3>5, <1>9 DEF Pages4
    <2>6. CASE ~ failed
      <3>1. allocs' = allocs \cup {x} /\ lost' = lost
        BY <2>6, <1>12
      <3>2. \A p \in Page : Claims(1, p) <=> InAlloc(x, p)
        BY <2>6, <1>4, <1>7, <1>r DEF Claims, InAlloc
      <3>3. ASSUME NEW p \in Page, InAlloc(x, p)
            PROVE  /\ ~ InRegion(p) /\ (\A a \in allocs : ~ InAlloc(a, p)) /\ (\A q \in Page : ~ InPool(q, p))
                   /\ PageAt(p).type = x.type
        <4>1. Claims(1, p)
          BY <3>2, <3>3
        <4>2. /\ ~ InRegion(p) /\ (\A a \in allocs : ~ InAlloc(a, p)) /\ (\A q \in Page : ~ InPool(q, p))
          BY <4>1, <2>0, <2>3 DEF OnePageOwner
        <4>3. PageAt(p).type = x.type
          BY <4>1, <2>0, <2>3, <1>4, <1>7, <1>r DEF PageTypes
        <4> QED BY <4>2, <4>3
      <3>4. OnePageOwner'
        <4>1. \A a, b \in allocs', p \in Page : InAlloc(a, p) /\ InAlloc(b, p) => a = b
          BY <3>1, <3>3, <2>0 DEF OnePageOwner
        <4>2. \A a \in allocs', q, p \in Page : ~ (InAlloc(a, p) /\ InPool(q, p))
          BY <3>1, <3>3, <2>0 DEF OnePageOwner
        <4>3. \A p \in Page : InRegion(p) =>
                (\A a \in allocs' : ~ InAlloc(a, p)) /\ (\A q \in Page : ~ InPool(q, p))
          BY <3>1, <3>3, <2>0 DEF OnePageOwner
        <4>4. /\ \A p \in Page : carved'[p] # NotCarved => p + Align <= NPages
              /\ \A q, y, p \in Page : InPool(q, p) /\ InPool(y, p) => q = y
          BY <2>0, <1>10 DEF OnePageOwner
        <4> QED BY <4>1, <4>2, <4>3, <4>4, <2>1, <1>9 DEF OnePageOwner
      <3>5. PageTypes'
        <4>1. \A a \in allocs', p \in Page : InAlloc(a, p) => PageAt(p).type = a.type
          BY <3>1, <3>3, <2>0 DEF PageTypes
        <4>2. /\ \A q, p \in Page : InPool(q, p) => PageAt(p).type = carved[q].type
              /\ \A p \in Page : InRegion(p) => PageAt(p).type # Conv
          BY <2>0 DEF PageTypes
        <4> QED BY <4>1, <4>2, <2>1, <1>9, <1>10, <1>14 DEF PageTypes
      <3>6. NoLeak'
        <4> SUFFICES ASSUME NEW p \in Page, PageAt(p).type \notin {Conv, Absent}, p \notin lost
                     PROVE  p \in Owned'
          BY <3>1, <1>14 DEF NoLeak
        <4>1. p \in Owned \/ Claims(1, p)
          BY <2>0, <2>3, <2>6 DEF NoLeak, Spoiled
        <4>2. (\E a \in allocs : InAlloc(a, p)) \/ (\E q \in Page : InPool(q, p)) \/ InRegion(p) \/ InAlloc(x, p)
          BY <4>1, <3>2, <2>2 DEF OwnedIs
        <4>3. (\E a \in allocs' : InAlloc(a, p)) \/ (\E q \in Page : InPool(q, p)) \/ InRegion(p)
          BY <4>2, <3>1
        <4> QED BY <4>3, <2>1, <2>2 DEF OwnedIs
      <3> QED BY <3>4, <3>5, <3>6, <1>9 DEF Pages4
    <2> QED BY <2>5, <2>6
  <1>17. Keys' /\ Returned'
    BY <1>2, <1>10, <1>11, <1>14, KeysKept DEF IInvParts, Returned
  <1>18. Owners' /\ Blocks' /\ Lists'
    BY <1>2, <1>9, <1>10, <1>11, <1>14, OwnersKept, ListsKept, BlocksKept DEF IInvParts
  <1> QED BY <1>9, <1>14, <1>15, <1>16, <1>17, <1>18, PartsPrime DEF IInvParts

-----------------------------------------------------------------------------
(* Services *)

\* All but the key and what the OS loader does.
body == <<desc, MapDepth, FreeMapStack, carved, used, FreeList, PoolHeadList, todo, ret, failed,
          reported, allocs, held, lost>>

LEMMA SameBody ==
    ASSUME IInv, UNCHANGED body, EfiAtRuntime' = EfiAtRuntime \/ (todo = <<>> /\ EfiAtRuntime' \in BOOLEAN), Keys'
    PROVE  IInv'
  <1>0. IInvParts
    BY Parts
  <1>1. /\ desc' = desc /\ MapDepth' = MapDepth /\ FreeMapStack' = FreeMapStack /\ PoolHeadList' = PoolHeadList
        /\ carved' = carved /\ used' = used /\ FreeList' = FreeList /\ ret' = ret /\ todo' = todo
        /\ failed' = failed /\ reported' = reported /\ allocs' = allocs /\ held' = held /\ lost' = lost
    BY DEF body
  <1>2. Types /\ Typing
    BY <1>0, TypesGiveTyping DEF IInvParts
  <1>3. Linked' = Linked /\ Adding' = Adding /\ Freeing' = Freeing /\ Movers' = Movers
    BY <1>1 DEF Linked, Adding, Freeing, Movers
  <1>4. Types'
    BY <1>1, <1>2, <1>3 DEF Types
  <1>5. Typing'
    BY <1>4, TypesGiveTypingPrime
  <1>6. Map' /\ Reported' /\ \A p \in Page : PageAt(p)' = PageAt(p)
    <2>1. \A s \in Linked : s \in StackSlot => s[2] < MapDepth'
      BY <1>0, <1>1 DEF IInvParts, Map
    <2> QED BY <2>1, <1>0, <1>1, <1>2, <1>3, <1>5, MapKept DEF IInvParts
  <1>7. Shape' /\ Heads' /\ Moving' /\ Returned' /\ Chosen'
    <2>1. Shape'
      BY <1>0, <1>1 DEF IInvParts, Shape
    <2>2. Heads' /\ Moving' /\ Returned'
      BY <1>0, <1>1, <1>3 DEF IInvParts, Heads, Moving, Returned
    <2>3. Chosen'
      BY <1>0, <1>1, <1>3 DEF IInvParts, Chosen
    <2> QED BY <2>1, <2>2, <2>3
  <1>8. Owners' /\ Blocks' /\ Lists'
    <2>1. Homes' = Homes /\ Got' = Got /\ Pools' = Pools
      BY <1>1, <1>3 DEF Homes, Got, Pools
    <2>2. Owners'
      BY <2>1, <1>0, <1>1, <1>3 DEF IInvParts, Owners
    <2> QED BY <2>2, <1>0, <1>1, ListsKept, BlocksKept DEF IInvParts
  <1>9. Pages4'
    <2>0. OnePageOwner /\ PageTypes /\ AddedFor /\ NoLeak
      BY <1>0 DEF IInvParts, Pages4
    <2>1. /\ \A a, p : InAlloc(a, p)' <=> InAlloc(a, p)
          /\ \A q, p : InPool(q, p)' <=> InPool(q, p)
          /\ \A p : InRegion(p)' <=> InRegion(p)
          /\ \A i, p : Claims(i, p)' <=> Claims(i, p)
      BY <1>1 DEF InAlloc, InPool, InRegion, Claims, Covers
    <2>2. Owned' = Owned
      BY <1>1 DEF Owned
    <2>3. OnePageOwner' /\ PageTypes'
      BY <2>0, <2>1, <1>1, <1>6 DEF OnePageOwner, PageTypes
    <2>4. AddedFor'
      BY <2>0, <2>1, <1>1, <1>3 DEF AddedFor, Covers
    <2>5. \A p \in Page : Spoiled(p)' <=> Spoiled(p)
      BY <1>1, <1>6 DEF Spoiled
    <2>6. NoLeak'
      BY <2>0, <2>1, <2>2, <2>5, <1>1, <1>6 DEF NoLeak
    <2> QED BY <2>3, <2>4, <2>6 DEF Pages4
  <1> QED BY <1>4, <1>6, <1>7, <1>8, <1>9, PartsPrime DEF IInvParts

LEMMA SameMap ==
    ASSUME UNCHANGED body
    PROVE  MemoryMap' = MemoryMap
  <1>1. desc' = desc /\ todo' = todo
    BY DEF body
  <1>2. Linked' = Linked /\ Adding' = Adding
    BY <1>1 DEF Linked, Adding
  <1>3. \A p \in Page : PageAt(p)' = PageAt(p)
    BY <1>1, <1>2 DEF PageAt, Covers
  <1> QED BY <1>3 DEF MemoryMap

LEMMA GetMemoryMapStep ==
    ASSUME IInv, GetMemoryMap
    PROVE  IInv' /\ MemoryMap' = MemoryMap
  <1>1. UNCHANGED body /\ EfiAtRuntime' = EfiAtRuntime /\ snap' = MemoryMap /\ ~ EfiAtRuntime /\ reported = Len(Region)
    BY DEF GetMemoryMap, body, map, pool, callers, CanCall
  <1>2. Keys'
    BY <1>1, SameMap DEF Keys, body
  <1> QED BY <1>1, <1>2, SameBody, SameMap

LEMMA TerminateMemoryMapStep ==
    ASSUME IInv, TerminateMemoryMap
    PROVE  IInv' /\ MemoryMap' = MemoryMap
  <1>1. UNCHANGED body /\ todo = <<>> /\ EfiAtRuntime' = TRUE /\ snap' = snap /\ snap # NoMap
    BY DEF TerminateMemoryMap, body, map, pool, callers, CanCall
  <1>2. Keys'
    BY <1>1, SameMap, Parts DEF Keys, body, IInvParts
  <1> QED BY <1>1, <1>2, SameBody, SameMap

LEMMA WipeStep ==
    ASSUME IInv, Wipe \/ UNCHANGED vars
    PROVE  IInv' /\ MemoryMap' = MemoryMap
  <1>1. UNCHANGED body /\ EfiAtRuntime' = EfiAtRuntime /\ snap' = snap
    BY DEF Wipe, vars, body, map, pool, callers
  <1>2. Keys'
    BY <1>1, SameMap, Parts DEF Keys, body, IInvParts
  <1> QED BY <1>1, <1>2, SameBody, SameMap

\* A service begins with the calls c.
Begun(c) ==
    /\ todo = <<>> /\ todo' = c /\ c \in Seq(Frame) /\ Len(c) > 0 /\ ~ EfiAtRuntime
    /\ \A k \in 1 .. Len(c) : /\ FrameOK(c[k]) /\ c[k].op \notin MoveOp
                              /\ c[k].op \notin {"NewPool", "TakeBlock", "CarvePages", "FreePool"}
    /\ c[1].op \in Bottom /\ \A k \in 1 .. Len(c) - 1 : Under(c[k], c[k + 1])
    /\ desc' = desc /\ MapDepth' = MapDepth /\ FreeMapStack' = FreeMapStack /\ carved' = carved /\ used' = used
    /\ FreeList' = FreeList /\ PoolHeadList' = PoolHeadList /\ EfiAtRuntime' = EfiAtRuntime /\ ret' = ret
    /\ failed' = failed /\ lost' = lost /\ snap' = snap

LEMMA BegunFacts ==
    ASSUME IInv, NEW c, Begun(c)
    PROVE  /\ Shape' /\ Heads' /\ Moving' /\ Returned' /\ Chosen' /\ Blocks' /\ Lists'
           /\ todo' \in Seq(Frame) /\ (\A i \in DOMAIN todo' : FrameOK(todo'[i]))
           /\ DOMAIN todo' = 1 .. Len(c) /\ Typing' /\ Linked' = Linked /\ Types /\ Typing
           /\ Adding = {} /\ Freeing = {} /\ DOMAIN todo = {} /\ ret = Null /\ ~ failed
  <1>0. IInvParts
    BY Parts
  <1>1. Types /\ Typing /\ ret = Null /\ ~ failed
    BY <1>0, TypesGiveTyping DEF IInvParts, Returned, Begun
  <1>2. DOMAIN todo = {} /\ Adding = {} /\ Freeing = {}
    BY DEF Begun, Adding, Freeing
  <1>3. DOMAIN todo' = 1 .. Len(c) /\ todo' \in Seq(Frame) /\ \A i \in DOMAIN todo' : FrameOK(todo'[i])
    BY DEF Begun
  <1>4. Shape'
    BY DEF Begun, Shape
  <1>5. Heads'
    BY <1>3 DEF Begun, Heads
  <1>6. Moving'
    BY <1>3 DEF Begun, Moving, Movers, MoveOp
  <1>7. Returned'
    BY <1>1 DEF Begun, Returned
  <1>8. Chosen'
    <2>1. \A i \in 1 .. Len(todo') - 1 : i \in 1 .. Len(c)
      BY DEF Begun
    <2> QED BY <2>1 DEF Begun, Chosen
  <1>9. Blocks' /\ Lists'
    BY <1>0, ListsKept, BlocksKept DEF IInvParts, Begun
  <1>10. Typing'
    BY <1>1, <1>3 DEF Typing, Begun
  <1>11. Linked' = Linked
    BY DEF Linked, Begun
  <1> QED BY <1>1, <1>2, <1>3, <1>4, <1>5, <1>6, <1>7, <1>8, <1>9, <1>10, <1>11

\* It adds no range.
LEMMA BegunMap ==
    ASSUME IInv, NEW c, Begun(c), \A k \in 1 .. Len(c) : c[k].op # "AddRange", reported' = reported
    PROVE  /\ Map' /\ Reported' /\ Adding' = {} /\ \A p \in Page : PageAt(p)' = PageAt(p)
           /\ MemoryMap' = MemoryMap /\ Keys'
  <1>0. IInvParts
    BY Parts
  <1>1. Typing /\ Typing' /\ Adding = {} /\ DOMAIN todo' = 1 .. Len(c)
    BY BegunFacts
  <1>2. Adding' = {}
    BY <1>1 DEF Adding, Begun
  <1>3. \A s \in Linked : s \in StackSlot => s[2] < MapDepth'
    BY <1>0 DEF IInvParts, Map, Begun
  <1>4. Map' /\ Reported' /\ (\A p \in Page : PageAt(p)' = PageAt(p)) /\ MemoryMap' = MemoryMap
    BY <1>0, <1>1, <1>2, <1>3, MapKept DEF IInvParts, Begun
  <1>5. Keys'
    BY <1>0, <1>4, KeysKept DEF IInvParts, Begun
  <1> QED BY <1>2, <1>4, <1>5

LEMMA BegunTypes ==
    ASSUME IInv, NEW c, Begun(c), reported' \in 0 .. Len(Region), allocs' \subseteq allocs, held' \subseteq held
    PROVE  Types'
  <1>1. /\ Types /\ Linked' = Linked /\ todo' \in Seq(Frame) /\ (\A i \in DOMAIN todo' : FrameOK(todo'[i]))
    BY BegunFacts
  <1> QED BY <1>1 DEF Types, Begun

\* It has no pages, and frees nothing.
LEMMA BegunStep ==
    ASSUME IInv, NEW c, Begun(c), \A k \in 1 .. Len(c) : c[k].op # "AddRange" /\ c[k].op # "FreePoolI",
           \A i \in DOMAIN todo', p \in Page : ~ Claims(i, p)',
           reported' = reported, allocs' = allocs, held' = held
    PROVE  IInv' /\ MemoryMap' = MemoryMap
  <1>0. IInvParts
    BY Parts
  <1>1. /\ Shape' /\ Heads' /\ Moving' /\ Returned' /\ Chosen' /\ Blocks' /\ Lists' /\ Linked' = Linked
        /\ DOMAIN todo' = 1 .. Len(c) /\ Types /\ Adding = {} /\ Freeing = {} /\ DOMAIN todo = {} /\ ~ failed
    BY BegunFacts
  <1>2. /\ Map' /\ Reported' /\ Adding' = {} /\ \A p \in Page : PageAt(p)' = PageAt(p)
        /\ MemoryMap' = MemoryMap /\ Keys'
    BY BegunMap
  <1>3. Types'
    <2>1. reported' \in 0 .. Len(Region)
      BY <1>1 DEF Types
    <2> QED BY <2>1, BegunTypes
  <1>4. Freeing' = {}
    BY <1>1 DEF Freeing, Begun
  <1>5. Owners'
    BY <1>0, <1>1, <1>4, OwnersKept DEF IInvParts, Begun
  <1>6. SameClaims
    BY <1>1 DEF SameClaims
  <1>7. Pages4'
    BY <1>0, <1>1, <1>2, <1>6, PagesKept DEF IInvParts, Begun
  <1> QED BY <1>1, <1>2, <1>3, <1>5, <1>7, PartsPrime DEF IInvParts

LEMMA BSAllocatePoolStep ==
    ASSUME IInv, NEW t \in AllocType, NEW l \in 0 .. MAX_POOL_LIST, BSAllocatePool(t, l)
    PROVE  IInv' /\ MemoryMap' = MemoryMap
  <1>g. PICK g, h, c : g = Call("BSAllocatePool") /\ h = DoAlloc(t, l) /\ c = <<g, h>>
    OBVIOUS
  <1>1. g \in Frame /\ g.op = "BSAllocatePool" /\ h \in Frame /\ h.op = "AllocatePoolI" /\ h.type = t
    BY <1>g, CallFacts, DoAllocFacts DEF Op, MemType
  <1>2. c \in Seq(Frame) /\ Len(c) = 2 /\ c[1] = g /\ c[2] = h
    BY <1>1, <1>g, Seq2
  <1>3. \A k \in 1 .. Len(c) : c[k] = g \/ c[k] = h
    <2>1. \A k \in 1 .. 2 : k = 1 \/ k = 2
      OBVIOUS
    <2> QED BY <2>1, <1>2
  <1>4. FrameOK(g) /\ FrameOK(h) /\ Under(g, h)
    BY <1>1 DEF FrameOK, Under, PoolOp
  <1>5. \A k \in 1 .. Len(c) - 1 : Under(c[k], c[k + 1])
    <2>1. \A k \in 1 .. 2 - 1 : k = 1 /\ k + 1 = 2
      OBVIOUS
    <2> QED BY <2>1, <1>2, <1>4
  <1>6. Begun(c)
    BY <1>1, <1>2, <1>3, <1>4, <1>5, <1>g DEF Begun, BSAllocatePool, CanCall, map, pool, callers, MoveOp, Bottom
  <1>7. \A i \in DOMAIN todo', p \in Page : ~ Claims(i, p)'
    <2>1. \A i \in DOMAIN todo' : todo'[i].op \notin ClaimOp
      BY <1>1, <1>3, <1>6 DEF Begun, ClaimOp
    <2> QED BY <2>1 DEF Claims, ClaimOp
  <1>8. reported' = reported /\ allocs' = allocs /\ held' = held
    BY DEF BSAllocatePool, callers
  <1> QED BY <1>1, <1>3, <1>6, <1>7, <1>8, BegunStep

AskFrame(a, b, t) == [Call("AllocatePages") EXCEPT !.start = a, !.end = b, !.type = t]
GiveFrame(a, b) == [Call("FreePages") EXCEPT !.start = a, !.end = b]

LEMMA AskFrameFacts ==
    ASSUME NEW a \in Nat, NEW b \in Nat, NEW t \in MemType, NEW g, g = AskFrame(a, b, t)
    PROVE  g \in Frame /\ g.op = "AllocatePages" /\ g.start = a /\ g.end = b /\ g.type = t
  <1> DEFINE f == Call("AllocatePages")
  <1>1. "AllocatePages" \in Op
    BY DEF Op
  <1>2. f \in Frame /\ f.op = "AllocatePages"
    BY <1>1, CallFacts, Zenon
  <1> HIDE DEF f
  <1> QED BY <1>2, Zenon DEF Frame, f, AskFrame

LEMMA GiveFrameFacts ==
    ASSUME NEW a \in Nat, NEW b \in Nat, NEW g, g = GiveFrame(a, b)
    PROVE  g \in Frame /\ g.op = "FreePages" /\ g.start = a /\ g.end = b
  <1> DEFINE f == Call("FreePages")
  <1>1. "FreePages" \in Op
    BY DEF Op
  <1>2. f \in Frame /\ f.op = "FreePages"
    BY <1>1, CallFacts, Zenon
  <1> HIDE DEF f
  <1> QED BY <1>2, Zenon DEF Frame, f, GiveFrame

LEMMA AskPagesStep ==
    ASSUME IInv, CanCall, NEW t \in AllocType, NEW a \in Nat, NEW m \in Nat \ {0}, a + m - 1 < NPages,
           a % AlignmentOf(t) = 0, m % AlignmentOf(t) = 0, AskPages(a, m, t)
    PROVE  IInv' /\ MemoryMap' = MemoryMap
  <1>b. PICK b : b = a + m - 1
    OBVIOUS
  <1>0. b \in Nat /\ a <= b /\ b < NPages /\ b - a + 1 = m /\ t \in MemType /\ t # Conv
    <2>1. b \in Nat /\ a <= b /\ b - a + 1 = m
      BY <1>b
    <2>2. b < NPages
      BY <1>b
    <2>3. t \in MemType /\ t # Conv
      BY PagesAssumption DEF MemType
    <2> QED BY <2>1, <2>2, <2>3
  <1>g. PICK g, h, c : /\ g = AskFrame(a, b, t)
                       /\ h = DoConvert(a, b, t) /\ c = <<g, h>>
    OBVIOUS
  <1>1. /\ g \in Frame /\ g.op = "AllocatePages" /\ g.start = a /\ g.end = b /\ g.type = t
        /\ h \in Frame /\ h.op = "ConvertPages" /\ h.start = a /\ h.end = b /\ h.type = t
    <2>1. g \in Frame /\ g.op = "AllocatePages" /\ g.start = a /\ g.end = b /\ g.type = t
      BY <1>0, <1>g, AskFrameFacts
    <2>2. h \in Frame /\ h.op = "ConvertPages" /\ h.start = a /\ h.end = b /\ h.type = t
      BY <1>0, <1>g, DoConvertFacts
    <2> QED BY <2>1, <2>2
  <1>2. c \in Seq(Frame) /\ Len(c) = 2 /\ c[1] = g /\ c[2] = h
    BY <1>1, <1>g, Seq2
  <1>3. \A k \in 1 .. Len(c) : k = 1 \/ k = 2
    BY <1>2
  <1>4. FrameOK(g) /\ FrameOK(h) /\ Under(g, h)
    <2>1. Aligned(a, b, t)
      BY <1>0 DEF Aligned
    <2>2. a <= b + 1 /\ a <= a
      BY <1>0
    <2> QED BY <2>1, <2>2, <1>0, <1>1 DEF FrameOK, Under
  <1>5. \A k \in 1 .. Len(c) - 1 : Under(c[k], c[k + 1])
    <2>1. \A k \in 1 .. 2 - 1 : k = 1 /\ k + 1 = 2
      OBVIOUS
    <2> QED BY <2>1, <1>2, <1>4
  <1>6. Begun(c)
    <2>1. todo' = c
      BY <1>b, <1>g DEF AskPages, AskFrame
    <2>2. \A k \in 1 .. Len(c) : /\ FrameOK(c[k]) /\ c[k].op \notin MoveOp
                                 /\ c[k].op \notin {"NewPool", "TakeBlock", "CarvePages", "FreePool"}
      BY <1>1, <1>2, <1>3, <1>4 DEF MoveOp
    <2> QED BY <2>1, <2>2, <1>1, <1>2, <1>5 DEF Begun, AskPages, CanCall, map, pool, callers, Bottom
  <1>7. \A i \in DOMAIN todo', p \in Page : ~ Claims(i, p)'
    <2>1. DOMAIN todo' = 1 .. 2 /\ Len(todo') = 2 /\ todo'[1] = g /\ todo'[2] = h
      BY <1>2, <1>6, BegunFacts DEF Begun
    <2>2. \A p \in Page : ~ Claims(1, p)'
      <3> SUFFICES ASSUME NEW p \in Page, Claims(1, p)' PROVE FALSE
        OBVIOUS
      <3>1. a <= p /\ p < a
        BY <2>1, <1>1 DEF Claims
      <3>2. p \in Nat
        BY PagesAssumption DEF Page
      <3> QED BY <3>1, <3>2
    <2>3. \A p \in Page : ~ Claims(2, p)'
      BY <2>1, <1>0, <1>1 DEF Claims
    <2>4. \A i \in DOMAIN todo' : i = 1 \/ i = 2
      BY <2>1
    <2> QED BY <2>2, <2>3, <2>4
  <1>8. reported' = reported /\ allocs' = allocs /\ held' = held
    BY DEF AskPages, callers
  <1> QED BY <1>1, <1>2, <1>3, <1>6, <1>7, <1>8, BegunStep

LEMMA AllocateMaxAddressStep ==
    ASSUME IInv, NEW t \in AllocType, NEW m \in Nat \ {0}, NEW max \in Page, AllocateMaxAddress(t, m, max)
    PROVE  IInv' /\ MemoryMap' = MemoryMap
  <1>a. PICK al, u : al = AlignmentOf(t) /\ u = AlignUp(m, al)
    OBVIOUS
  <1>1. al \in {1, 2} /\ u \in Nat /\ u >= m /\ u % al = 0
    BY <1>a, AlignmentFacts, AlignFacts
  <1>2. u \in Nat \ {0}
    BY <1>1
  <1>b. PICK a : a = FindFreePages(max, u, t, al)
    OBVIOUS
  <1>3. CanCall /\ a # 0 /\ AskPages(a, u, t)
    BY <1>a, <1>b DEF AllocateMaxAddress
  <1>4. a \in Nat /\ a % al = 0 /\ a + u - 1 < NPages
    BY <1>1, <1>2, <1>3, <1>b, Parts, FindFacts DEF IInvParts
  <1> QED BY <1>1, <1>2, <1>3, <1>4, <1>a, AskPagesStep

LEMMA AllocateAddressStep ==
    ASSUME IInv, NEW t \in AllocType, NEW m \in Nat \ {0}, NEW a \in Page, AllocateAddress(t, m, a)
    PROVE  IInv' /\ MemoryMap' = MemoryMap
  <1>a. PICK al, u : al = AlignmentOf(t) /\ u = AlignUp(m, al)
    OBVIOUS
  <1>1. al \in {1, 2} /\ u \in Nat /\ u >= m /\ u % al = 0
    BY <1>a, AlignmentFacts, AlignFacts
  <1>2. u \in Nat \ {0}
    BY <1>1
  <1>3. CanCall /\ a % al = 0 /\ a + u <= NPages /\ AskPages(a, u, t)
    BY <1>a DEF AllocateAddress
  <1>4. a \in Nat /\ NPages \in Nat
    BY PagesAssumption DEF Page
  <1>5. a + u - 1 < NPages
    BY <1>2, <1>3, <1>4
  <1> QED BY <1>1, <1>2, <1>3, <1>4, <1>5, <1>a, AskPagesStep

LEMMA BSFreePoolStep ==
    ASSUME IInv, NEW s \in held, BSFreePool(s)
    PROVE  IInv' /\ MemoryMap' = MemoryMap
  <1>0. IInvParts
    BY Parts
  <1>g. PICK g, c : g = DoFree(s) /\ c = <<g>>
    OBVIOUS
  <1>1. s \in PoolSlot
    BY <1>0 DEF IInvParts, Types
  <1>2. g \in Frame /\ g.op = "FreePoolI" /\ g.slot = s
    BY <1>1, <1>g, DoFreeFacts
  <1>3. c \in Seq(Frame) /\ Len(c) = 1 /\ c[1] = g
    BY <1>2, <1>g, Seq1
  <1>4. \A k \in 1 .. Len(c) : c[k] = g
    <2>1. \A k \in 1 .. 1 : k = 1
      OBVIOUS
    <2> QED BY <2>1, <1>3
  <1>5. \A k \in 1 .. Len(c) - 1 : FALSE
    BY <1>3
  <1>6. FrameOK(g)
    BY <1>1, <1>2 DEF FrameOK
  <1>7. Begun(c)
    BY <1>2, <1>3, <1>4, <1>5, <1>6, <1>g DEF Begun, BSFreePool, CanCall, map, pool, MoveOp, Bottom
  <1>8. /\ reported' = reported /\ allocs' = allocs /\ held' = held \ {s}
    BY DEF BSFreePool
  <1>9. /\ Shape' /\ Heads' /\ Moving' /\ Returned' /\ Chosen' /\ Blocks' /\ Lists' /\ Linked' = Linked
        /\ DOMAIN todo' = 1 .. Len(c) /\ Types /\ Adding = {} /\ Freeing = {} /\ DOMAIN todo = {} /\ ~ failed
    BY <1>7, BegunFacts
  <1>10. /\ Map' /\ Reported' /\ Adding' = {} /\ \A p \in Page : PageAt(p)' = PageAt(p)
         /\ MemoryMap' = MemoryMap /\ Keys'
    BY <1>2, <1>4, <1>7, <1>8, BegunMap
  <1>11. Types'
    <2>1. reported' \in 0 .. Len(Region)
      BY <1>8, <1>9 DEF Types
    <2> QED BY <2>1, <1>7, <1>8, BegunTypes
  <1>12. Freeing' = {s} /\ Len(todo') = 1
    <2>1. DOMAIN todo' = {1} /\ todo'[1] = g /\ Len(todo') = 1
      BY <1>3, <1>7, <1>9 DEF Begun
    <2> QED BY <2>1, <1>2 DEF Freeing
  <1>13. Owners'
    <2>1. Homes' = Homes /\ Got' = Got /\ Pools' = Pools /\ used' = used /\ carved' = carved /\ PoolHeadList' = PoolHeadList
      BY <1>7, <1>9 DEF Homes, Got, Pools, Begun
    <2> QED BY <2>1, <1>0, <1>8, <1>9, <1>12 DEF IInvParts, Owners
  <1>14. \A i \in DOMAIN todo', p \in Page : ~ Claims(i, p)'
    <2>1. \A i \in DOMAIN todo' : todo'[i].op \notin ClaimOp
      BY <1>2, <1>4, <1>7, <1>9 DEF Begun, ClaimOp
    <2> QED BY <2>1 DEF Claims, ClaimOp
  <1>15. SameClaims
    BY <1>9, <1>14 DEF SameClaims
  <1>16. Pages4'
    BY <1>0, <1>7, <1>8, <1>9, <1>10, <1>15, PagesKept DEF IInvParts, Begun
  <1> QED BY <1>9, <1>10, <1>11, <1>13, <1>16, PartsPrime DEF IInvParts

LEMMA FreePagesStep ==
    ASSUME IInv, NEW a \in allocs, FreePages(a)
    PROVE  IInv' /\ MemoryMap' = MemoryMap
  <1>0. IInvParts
    BY Parts
  <1>a. /\ a.start \in Nat /\ a.end \in Nat /\ a.start <= a.end /\ a.end < NPages /\ a.type \in AllocType
        /\ a.type \notin {Conv, Absent} /\ Conv \in MemType
    <2>1. a \in [start : Page, end : Page, type : AllocType] /\ Aligned(a.start, a.end, a.type)
      BY <1>0 DEF IInvParts, Types
    <2>2. a.start \in Page /\ a.end \in Page /\ a.type \in AllocType
      BY <2>1
    <2>3. a.start \in Nat /\ a.end \in Nat
      BY <2>2, PagesAssumption DEF Page
    <2>4. a.start <= a.end /\ a.end < NPages
      BY <2>1 DEF Aligned
    <2>5. a.type \notin {Conv, Absent} /\ Conv \in MemType
      BY <2>2, PagesAssumption DEF MemType
    <2> QED BY <2>2, <2>3, <2>4, <2>5
  <1>g. PICK g, h, c : g = GiveFrame(a.start, a.end) /\ h = DoConvert(a.start, a.end, Conv) /\ c = <<g, h>>
    OBVIOUS
  <1>1. /\ g \in Frame /\ g.op = "FreePages"
        /\ h \in Frame /\ h.op = "ConvertPages" /\ h.start = a.start /\ h.end = a.end /\ h.type = Conv
    <2>1. g \in Frame /\ g.op = "FreePages"
      BY <1>a, <1>g, GiveFrameFacts
    <2>2. h \in Frame /\ h.op = "ConvertPages" /\ h.start = a.start /\ h.end = a.end /\ h.type = Conv
      BY <1>a, <1>g, DoConvertFacts
    <2> QED BY <2>1, <2>2
  <1>2. c \in Seq(Frame) /\ Len(c) = 2 /\ c[1] = g /\ c[2] = h
    BY <1>1, <1>g, Seq2
  <1>3. \A k \in 1 .. Len(c) : k = 1 \/ k = 2
    BY <1>2
  <1>4. FrameOK(g) /\ FrameOK(h) /\ Under(g, h)
    <2>1. a.start <= a.end + 1
      BY <1>a
    <2> QED BY <2>1, <1>a, <1>1 DEF FrameOK, Under
  <1>5. \A k \in 1 .. Len(c) - 1 : Under(c[k], c[k + 1])
    <2>1. \A k \in 1 .. 2 - 1 : k = 1 /\ k + 1 = 2
      OBVIOUS
    <2> QED BY <2>1, <1>2, <1>4
  <1>6. Begun(c)
    <2>1. todo' = c
      BY <1>g DEF FreePages, GiveFrame
    <2>2. \A k \in 1 .. Len(c) : /\ FrameOK(c[k]) /\ c[k].op \notin MoveOp
                                 /\ c[k].op \notin {"NewPool", "TakeBlock", "CarvePages", "FreePool"}
      BY <1>1, <1>2, <1>3, <1>4 DEF MoveOp
    <2> QED BY <2>1, <2>2, <1>1, <1>2, <1>5 DEF Begun, FreePages, CanCall, map, pool, Bottom
  <1>7. reported' = reported /\ allocs' = allocs \ {a} /\ held' = held
    BY DEF FreePages
  <1>8. /\ Shape' /\ Heads' /\ Moving' /\ Returned' /\ Chosen' /\ Blocks' /\ Lists' /\ Linked' = Linked
        /\ DOMAIN todo' = 1 .. Len(c) /\ Types /\ Adding = {} /\ Freeing = {} /\ DOMAIN todo = {} /\ ~ failed
    BY <1>6, BegunFacts
  <1>9. /\ Map' /\ Reported' /\ Adding' = {} /\ \A p \in Page : PageAt(p)' = PageAt(p)
        /\ MemoryMap' = MemoryMap /\ Keys'
    <2>1. \A k \in 1 .. Len(c) : c[k].op # "AddRange"
      BY <1>1, <1>2, <1>3
    <2> QED BY <2>1, <1>6, <1>7, BegunMap
  <1>10. Types'
    <2>1. reported' \in 0 .. Len(Region) /\ allocs' \subseteq allocs /\ held' \subseteq held
      BY <1>7, <1>8 DEF Types
    <2> QED BY <2>1, <1>6, BegunTypes
  <1>11. DOMAIN todo' = 1 .. 2 /\ Len(todo') = 2 /\ todo'[1] = g /\ todo'[2] = h
    BY <1>2, <1>6, <1>8 DEF Begun
  <1>12. \A i \in DOMAIN todo' : i = 1 \/ i = 2
    BY <1>11
  <1>13. Owners'
    <2>1. Freeing' = {}
      BY <1>1, <1>11, <1>12 DEF Freeing
    <2> QED BY <2>1, <1>0, <1>6, <1>7, <1>8, OwnersKept DEF IInvParts, Begun
  <1>14. 2 \in DOMAIN todo' /\ \A i \in DOMAIN todo', p \in Page : Claims(i, p)' <=> i = 2 /\ InAlloc(a, p)
    <2>1. \A p \in Page : ~ Claims(1, p)'
      BY <1>1, <1>11 DEF Claims
    <2>2. \A p \in Page : Claims(2, p)' <=> InAlloc(a, p)
      BY <1>1, <1>11 DEF Claims, Covers, InAlloc
    <2>3. 2 \in 1 .. 2
      OBVIOUS
    <2> QED BY <2>1, <2>2, <2>3, <1>11, <1>12
  <1>15. todo'[2].op = "ConvertPages" /\ carved' = carved /\ lost' = lost /\ failed' = failed
    BY <1>1, <1>6, <1>11 DEF Begun
  <1>16. OnePageOwner /\ PageTypes /\ NoLeak
    BY <1>0 DEF IInvParts, Pages4
  <1>17. /\ \A q, p : InPool(q, p)' <=> InPool(q, p)
         /\ \A p : InRegion(p)' <=> InRegion(p)
         /\ \A b, p : InAlloc(b, p)' <=> InAlloc(b, p)
    BY <1>15 DEF InPool, InRegion, InAlloc, Covers
  <1>18. OnePageOwner'
    <2>1. /\ \A p \in Page : carved'[p] # NotCarved => p + Align <= NPages
          /\ \A b, d \in allocs', p \in Page : InAlloc(b, p)' /\ InAlloc(d, p)' => b = d
          /\ \A q, r, p \in Page : InPool(q, p)' /\ InPool(r, p)' => q = r
          /\ \A b \in allocs', q, p \in Page : ~ (InAlloc(b, p)' /\ InPool(q, p)')
          /\ \A p \in Page : InRegion(p)' =>
                (\A b \in allocs' : ~ InAlloc(b, p)') /\ (\A q \in Page : ~ InPool(q, p)')
      BY <1>7, <1>15, <1>16, <1>17 DEF OnePageOwner
    <2>2. \A i \in DOMAIN todo', p \in Page : Claims(i, p)' =>
             /\ ~ InRegion(p)'
             /\ \A b \in allocs' : ~ InAlloc(b, p)'
             /\ \A q \in Page : ~ InPool(q, p)'
      BY <1>7, <1>14, <1>16, <1>17 DEF OnePageOwner
    <2>3. \A i, j \in DOMAIN todo', p \in Page : Claims(i, p)' /\ Claims(j, p)' => i = j
      BY <1>14
    <2> QED BY <2>1, <2>2, <2>3 DEF OnePageOwner
  <1>19. PageTypes'
    <2>1. /\ \A b \in allocs', p \in Page : InAlloc(b, p)' => PageAt(p)'.type = b.type
          /\ \A q, p \in Page : InPool(q, p)' => PageAt(p)'.type = carved'[q].type
          /\ \A p \in Page : InRegion(p)' => PageAt(p)'.type # Conv
      BY <1>7, <1>9, <1>15, <1>16, <1>17 DEF PageTypes
    <2>2. \A i \in DOMAIN todo', p \in Page : Claims(i, p)' =>
             /\ PageAt(p)'.type \notin {Conv, Absent}
             /\ todo'[i].op # "ConvertPages" => PageAt(p)'.type = todo'[i].type
      <3> SUFFICES ASSUME NEW i \in DOMAIN todo', NEW p \in Page, Claims(i, p)'
                   PROVE  PageAt(p)'.type \notin {Conv, Absent} /\ todo'[i].op = "ConvertPages"
        BY Zenon
      <3>1. i = 2 /\ InAlloc(a, p)
        BY <1>14
      <3>2. PageAt(p).type = a.type
        BY <3>1, <1>16 DEF PageTypes
      <3> QED BY <3>1, <3>2, <1>a, <1>9, <1>15
    <2> QED BY <2>1, <2>2 DEF PageTypes
  <1>20. AddedFor'
    BY <1>9 DEF AddedFor
  <1>21. NoLeak'
    <2> SUFFICES ASSUME NEW p \in Page, PageAt(p).type \notin {Conv, Absent}
                 PROVE  p \in Owned' \cup lost' \/ \E i \in DOMAIN todo' : Claims(i, p)'
      BY <1>9 DEF NoLeak
    <2>1. ~ Spoiled(p) /\ ~ \E i \in DOMAIN todo : Claims(i, p)
      BY <1>8 DEF Spoiled
    <2>2. p \in Owned \cup lost
      BY <2>1, <1>16 DEF NoLeak
    <2>3. CASE InAlloc(a, p)
      BY <2>3, <1>14
    <2>4. CASE ~ InAlloc(a, p)
      <3>1. p \in Owned => p \in Owned'
        BY <2>4, <1>7, <1>17, OwnedFacts, OwnedFactsPrime DEF OwnedIs
      <3> QED BY <3>1, <2>2, <1>15
    <2> QED BY <2>3, <2>4
  <1>z. IInv'
    BY <1>8, <1>9, <1>10, <1>13, <1>18, <1>19, <1>20, <1>21, PartsPrime DEF IInvParts, Pages4
  <1> QED BY <1>z, <1>9

\* The calls of FwAddMemoryDescriptor for region r.
LEMMA RegionCalls ==
    ASSUME NEW r, r.start \in Nat, r.end \in Nat, r.start <= r.end, r.end < NPages, r.type \in MemType, r.attr \in {0, 1},
           NEW g, g = Call("FreeMemoryMapStack"), NEW h, h = DoAdd(r.start, r.end, r.type, r.attr), NEW c, c = <<g, h>>
    PROVE  /\ c \in Seq(Frame) /\ Len(c) = 2 /\ c[1] = g /\ c[2] = h /\ g.op = "FreeMemoryMapStack"
           /\ h.op = "AddRange" /\ h.start = r.start /\ h.end = r.end /\ h.type = r.type /\ h.attr = r.attr
           /\ FrameOK(g) /\ FrameOK(h) /\ Under(g, h)
  <1>1. g \in Frame /\ g.op = "FreeMemoryMapStack"
    BY CallFacts DEF Op
  <1>2. h \in Frame /\ h.op = "AddRange" /\ h.start = r.start /\ h.end = r.end /\ h.type = r.type /\ h.attr = r.attr
    BY DoAddFacts
  <1>3. c \in Seq(Frame) /\ Len(c) = 2 /\ c[1] = g /\ c[2] = h
    BY <1>1, <1>2, Seq2
  <1>4. FrameOK(g) /\ FrameOK(h) /\ Under(g, h)
    BY <1>1, <1>2 DEF FrameOK, Under
  <1> QED BY <1>1, <1>2, <1>3, <1>4

\* A region that has not been reported yet has no pages in the map.
LEMMA RegionIsNew ==
    ASSUME Types, Reported, NEW k, k = reported + 1, k \in DOMAIN Region, NEW p \in Page, Covers(Region[k], p)
    PROVE  PageAt(p).type = Absent
  <1> SUFFICES ASSUME PageAt(p).type # Absent PROVE FALSE
    OBVIOUS
  <1>1. PICK i \in 1 .. reported : Covers(Region[i], p)
    BY DEF Reported
  <1>2. reported \in Nat /\ reported <= Len(Region) /\ Len(Region) \in Nat /\ DOMAIN Region = 1 .. Len(Region)
    BY PagesAssumption DEF Types
  <1>3. i # k /\ i \in DOMAIN Region
    BY <1>1, <1>2
  <1>4. Region[i].end < Region[k].start \/ Region[k].end < Region[i].start
    BY <1>3, PagesAssumption
  <1>5. /\ Region[i].start \in Nat /\ Region[i].end \in Nat /\ Region[k].start \in Nat /\ Region[k].end \in Nat
        /\ p \in Nat
    BY <1>3, RegionFacts, PagesAssumption DEF Page
  <1>6. Region[i].start <= p /\ p <= Region[i].end /\ Region[k].start <= p /\ p <= Region[k].end
    BY <1>1 DEF Covers
  <1> QED BY <1>4, <1>5, <1>6

LEMMA OtherRegion ==
    ASSUME NEW k \in DOMAIN Region, NEW p \in Page, Covers(Region[k], p), InRegion(p)
    PROVE  Region[k].type # Conv
  <1>1. PICK i \in DOMAIN Region : Region[i].type # Conv /\ Covers(Region[i], p)
    BY DEF InRegion
  <1>2. CASE i = k
    BY <1>1, <1>2
  <1>3. CASE i # k
    <2>4. Region[i].end < Region[k].start \/ Region[k].end < Region[i].start
      BY <1>3, PagesAssumption
    <2>5. /\ Region[i].start \in Nat /\ Region[i].end \in Nat /\ Region[k].start \in Nat /\ Region[k].end \in Nat
          /\ p \in Nat
      BY RegionFacts, PagesAssumption DEF Page
    <2>6. Region[i].start <= p /\ p <= Region[i].end /\ Region[k].start <= p /\ p <= Region[k].end
      BY <1>1 DEF Covers
    <2> QED BY <2>4, <2>5, <2>6
  <1> QED BY <1>2, <1>3

\* The pages from a to b are new.
Reports(a, b, t, at) ==
    /\ a \in Nat /\ b \in Nat /\ t \in MemType /\ at \in Attr /\ Retyped(a, b, t, at)
    /\ \A p \in Page : a <= p /\ p <= b => PageAt(p).type = Absent

LEMMA FwAddMemoryDescriptorStep ==
    ASSUME IInv, FwAddMemoryDescriptor
    PROVE  IInv' /\ \E a, b, t, at : Reports(a, b, t, at)
  <1>0. IInvParts
    BY Parts
  <1>k. PICK k, r : k = reported + 1 /\ r = Region[k]
    OBVIOUS
  <1>1. /\ reported \in Nat /\ Len(Region) \in Nat /\ DOMAIN Region = 1 .. Len(Region) /\ reported < Len(Region)
        /\ k \in Nat /\ k \in DOMAIN Region /\ reported' = k /\ reported' \in 0 .. Len(Region)
    <2>1. reported \in Nat /\ Len(Region) \in Nat /\ DOMAIN Region = 1 .. Len(Region)
      BY <1>0, PagesAssumption DEF IInvParts, Types
    <2>2. reported < Len(Region) /\ reported' = k
      BY <1>k DEF FwAddMemoryDescriptor
    <2>3. k \in Nat /\ k \in DOMAIN Region /\ k \in 0 .. Len(Region)
      BY <2>1, <2>2, <1>k
    <2> QED BY <2>1, <2>2, <2>3
  <1>2. /\ r.start \in Nat /\ r.end \in Nat /\ r.start <= r.end /\ r.end < NPages
        /\ r.type \in MemType /\ r.attr \in {0, 1} /\ r.type # Absent
    BY <1>k, <1>1, RegionFacts, PagesAssumption
  <1>g. PICK g, h, c : g = Call("FreeMemoryMapStack") /\ h = DoAdd(r.start, r.end, r.type, r.attr) /\ c = <<g, h>>
    OBVIOUS
  <1>3. /\ c \in Seq(Frame) /\ Len(c) = 2 /\ c[1] = g /\ c[2] = h /\ g.op = "FreeMemoryMapStack"
        /\ h.op = "AddRange" /\ h.start = r.start /\ h.end = r.end /\ h.type = r.type /\ h.attr = r.attr
        /\ FrameOK(g) /\ FrameOK(h) /\ Under(g, h)
    BY <1>2, <1>g, RegionCalls
  <1>4. \A i \in 1 .. Len(c) : i = 1 \/ i = 2
    BY <1>3
  <1>5. \A i \in 1 .. Len(c) - 1 : Under(c[i], c[i + 1])
    <2>1. \A i \in 1 .. 2 - 1 : i = 1 /\ i + 1 = 2
      OBVIOUS
    <2> QED BY <2>1, <1>3
  <1>6. snap = NoMap /\ ~ EfiAtRuntime
    <2>0. reported \in Nat /\ Len(Region) \in Nat /\ reported < Len(Region)
      BY <1>1
    <2>1. reported # Len(Region)
      BY <2>0
    <2> QED BY <2>1, <1>0 DEF IInvParts, Keys
  <1>7. Begun(c)
    <2>1. todo = <<>> /\ todo' = c
      BY <1>g, <1>k DEF FwAddMemoryDescriptor
    <2>2. \A i \in 1 .. Len(c) : /\ FrameOK(c[i]) /\ c[i].op \notin MoveOp
                                 /\ c[i].op \notin {"NewPool", "TakeBlock", "CarvePages", "FreePool"}
      BY <1>3, <1>4 DEF MoveOp
    <2>3. Len(c) > 0 /\ c[1].op \in Bottom /\ c \in Seq(Frame)
      BY <1>3 DEF Bottom
    <2> QED BY <2>1, <2>2, <2>3, <1>5, <1>6 DEF Begun, FwAddMemoryDescriptor, map, pool
  <1>8. allocs' = allocs /\ held' = held /\ lost' = lost /\ carved' = carved /\ snap' = snap /\ failed' = failed
        /\ desc' = desc /\ EfiAtRuntime' = EfiAtRuntime /\ MapDepth' = MapDepth
    BY DEF FwAddMemoryDescriptor, map, pool
  <1>9. /\ Shape' /\ Heads' /\ Moving' /\ Returned' /\ Chosen' /\ Blocks' /\ Lists' /\ Linked' = Linked
        /\ DOMAIN todo' = 1 .. Len(c) /\ Types /\ Adding = {} /\ Freeing = {} /\ DOMAIN todo = {} /\ ~ failed
        /\ Typing /\ Typing'
    BY <1>7, BegunFacts
  <1>10. Types'
    BY <1>1, <1>7, <1>8, BegunTypes
  <1>11. DOMAIN todo' = 1 .. 2 /\ Len(todo') = 2 /\ todo'[1] = g /\ todo'[2] = h /\ \A i \in DOMAIN todo' : i = 1 \/ i = 2
    BY <1>3, <1>4, <1>7, <1>9 DEF Begun
  <1>12. Adding' = {2} /\ Freeing' = {}
    <2>1. 2 \in 1 .. 2 /\ 1 \in 1 .. 2
      OBVIOUS
    <2> QED BY <2>1, <1>3, <1>11 DEF Adding, Freeing
  <1>13. Owners'
    BY <1>0, <1>7, <1>8, <1>9, <1>12, OwnersKept DEF IInvParts, Begun
  <1>14. AllKnown
    BY <1>0, <1>9, PageAtFacts DEF IInvParts
  <1>15. \A p \in Page : Covers(h, p) <=> Covers(r, p)
    BY <1>3 DEF Covers
  <1>16. \A p \in Page : Covers(r, p) => PageAt(p).type = Absent
    BY <1>0, <1>1, <1>9, <1>k, RegionIsNew DEF IInvParts
  <1>17. \A p \in Page, s \in Linked : ~ (Covers(desc[s], p) /\ Covers(r, p))
    <2> SUFFICES ASSUME NEW p \in Page, NEW s \in Linked, Covers(desc[s], p), Covers(r, p) PROVE FALSE
      OBVIOUS
    <2>1. PageAt(p) = [type |-> desc[s].type, attr |-> desc[s].attr]
      BY <1>14 DEF AllKnown, Known
    <2>2. PageAt(p).type = desc[s].type
      BY <2>1
    <2> QED BY <2>2, <1>16 DEF Linked
  <1>18. Map'
    <2>1. \A s, t \in Linked' : s # t => Disjoint(desc'[s], desc'[t]) /\ ~ Adjoins(desc'[s], desc'[t])
      BY <1>0, <1>8, <1>9 DEF IInvParts, Map
    <2>2. \A s \in Linked' : Disjoint(desc'[s], h)
      <3> TAKE s \in Linked'
      <3>1. s \in Linked /\ desc'[s] = desc[s]
        BY <1>8, <1>9
      <3>2. Interval(desc[s])
        BY <3>1, <1>9, EntryFacts DEF Typing, Types, Interval
      <3>3. Interval(h)
        BY <1>2, <1>3 DEF Interval
      <3>4. \A p \in Page : ~ (Covers(desc[s], p) /\ Covers(h, p))
        BY <3>1, <1>15, <1>17
      <3> QED BY <3>1, <3>2, <3>3, <3>4, DisjointPoints
    <2>3. \A s \in Linked' : s \in StackSlot => s[2] < MapDepth'
      BY <1>0, <1>8, <1>9 DEF IInvParts, Map
    <2> QED BY <2>1, <2>2, <2>3, <1>11, <1>12 DEF Map
  <1>19. AllKnown'
    BY <1>9, <1>18, PageAtFactsPrime
  <1>20. \A p \in Page : PageAt(p)' = IF Covers(r, p) THEN [type |-> r.type, attr |-> r.attr] ELSE PageAt(p)
    <2> TAKE p \in Page
    <2>0. Known(p)' /\ Known(p)
      BY <1>14, <1>19 DEF AllKnown
    <2>1. CASE Covers(r, p)
      <3>1. 2 \in Adding' /\ Covers(todo'[2], p)
        BY <2>1, <1>11, <1>12, <1>15
      <3>2. PageAt(p)' = [type |-> todo'[2].type, attr |-> todo'[2].attr]
        BY <3>1, <2>0 DEF Known, Covers
      <3> QED BY <3>2, <2>1, <1>3, <1>11
    <2>2. CASE ~ Covers(r, p)
      <3>1. \A i \in Adding' : ~ Covers(todo'[i], p)
        BY <2>2, <1>11, <1>12, <1>15
      <3>2. CASE \E s \in Linked : Covers(desc[s], p)
        <4>1. PICK s \in Linked : Covers(desc[s], p)
          BY <3>2
        <4>2. s \in Linked' /\ desc'[s] = desc[s]
          BY <1>8, <1>9
        <4>3. PageAt(p) = [type |-> desc[s].type, attr |-> desc[s].attr]
          BY <4>1, <2>0 DEF Known
        <4>4. PageAt(p)' = [type |-> desc'[s].type, attr |-> desc'[s].attr]
          BY <4>1, <4>2, <2>0 DEF Known, Covers
        <4> QED BY <4>2, <4>3, <4>4, <2>2
      <3>3. CASE \A s \in Linked : ~ Covers(desc[s], p)
        <4>1. PageAt(p) = [type |-> Absent, attr |-> 0]
          BY <3>3, <2>0, <1>9 DEF Known
        <4>2. \A s \in Linked' : ~ Covers(desc'[s], p)
          BY <3>3, <1>8, <1>9
        <4>3. PageAt(p)' = [type |-> Absent, attr |-> 0]
          BY <4>2, <3>1, <2>0 DEF Known, Covers
        <4> QED BY <4>1, <4>3, <2>2
      <3> QED BY <3>2, <3>3
    <2> QED BY <2>1, <2>2
  <1>21. \A p \in Page : /\ (Covers(r, p) => PageAt(p)'.type = r.type)
                         /\ (~ Covers(r, p) => PageAt(p)'.type = PageAt(p).type)
    BY <1>20
  <1>22. Reported'
    <2> SUFFICES ASSUME NEW p \in Page
                 PROVE  (\E i \in 1 .. reported' : Covers(Region[i], p)) <=> PageAt(p)'.type # Absent
      BY DEF Reported, Covers
    <2>0. (\E i \in 1 .. reported : Covers(Region[i], p)) <=> PageAt(p).type # Absent
      BY <1>0 DEF IInvParts, Reported
    <2>1. \A i : i \in 1 .. reported' <=> i \in 1 .. reported \/ i = k
      BY <1>1, <1>k
    <2>2. CASE Covers(r, p)
      BY <2>1, <2>2, <1>2, <1>21, <1>k
    <2>3. CASE ~ Covers(r, p)
      <3>1. ~ Covers(Region[k], p)
        BY <2>3, <1>k
      <3> QED BY <2>0, <2>1, <2>3, <3>1, <1>21
    <2> QED BY <2>2, <2>3
  <1>23. \A i \in DOMAIN todo', p \in Page : ~ Claims(i, p)'
    <2>1. \A i \in DOMAIN todo' : todo'[i].op \notin ClaimOp
      BY <1>3, <1>11 DEF ClaimOp
    <2> QED BY <2>1 DEF Claims, ClaimOp
  <1>24. OnePageOwner /\ PageTypes /\ NoLeak
    BY <1>0 DEF IInvParts, Pages4
  <1>25. /\ \A q, p : InPool(q, p)' <=> InPool(q, p)
         /\ \A p : InRegion(p)' <=> InRegion(p)
         /\ \A b, p : InAlloc(b, p)' <=> InAlloc(b, p)
    BY <1>8 DEF InPool, InRegion, InAlloc, Covers
  <1>26. OnePageOwner'
    BY <1>8, <1>23, <1>24, <1>25 DEF OnePageOwner
  <1>27. PageTypes'
    <2>1. \A b \in allocs', p \in Page : InAlloc(b, p)' => PageAt(p)'.type = b.type
      <3> SUFFICES ASSUME NEW b \in allocs, NEW p \in Page, InAlloc(b, p) PROVE PageAt(p)'.type = b.type
        BY <1>8, <1>25
      <3>1. PageAt(p).type = b.type
        BY <1>24 DEF PageTypes
      <3>2. b.type \in AllocType
        BY <1>9 DEF Types
      <3>3. b.type # Absent
        BY <3>2, PagesAssumption DEF MemType
      <3> QED BY <3>1, <3>3, <1>16, <1>21
    <2>2. \A q, p \in Page : InPool(q, p)' => PageAt(p)'.type = carved'[q].type
      <3> SUFFICES ASSUME NEW q \in Page, NEW p \in Page, InPool(q, p) PROVE PageAt(p)'.type = carved[q].type
        BY <1>8, <1>25
      <3>1. PageAt(p).type = carved[q].type
        BY <1>24 DEF PageTypes
      <3>2. carved[q] # NotCarved
        BY DEF InPool
      <3>3. carved[q].type # Absent
        BY <3>2, <1>0 DEF IInvParts, Blocks
      <3> QED BY <3>1, <3>3, <1>16, <1>21
    <2>3. \A p \in Page : InRegion(p)' => PageAt(p)'.type # Conv
      <3> SUFFICES ASSUME NEW p \in Page, InRegion(p) PROVE PageAt(p)'.type # Conv
        BY <1>25
      <3>1. CASE Covers(r, p)
        BY <3>1, <1>1, <1>k, <1>21, OtherRegion
      <3>2. CASE ~ Covers(r, p)
        BY <3>2, <1>21, <1>24 DEF PageTypes
      <3> QED BY <3>1, <3>2
    <2> QED BY <2>1, <2>2, <2>3, <1>23 DEF PageTypes
  <1>28. AddedFor'
    <2> SUFFICES ASSUME NEW i \in Adding', NEW p \in Page, Covers(todo'[i], p), todo'[i].type # Conv PROVE InRegion(p)'
      BY DEF AddedFor, Covers
    <2>1. Covers(r, p) /\ r.type # Conv
      BY <1>3, <1>11, <1>12, <1>15
    <2> QED BY <2>1, <1>1, <1>25, <1>k DEF InRegion
  <1>29. NoLeak'
    <2> SUFFICES ASSUME NEW p \in Page, PageAt(p)'.type \notin {Conv, Absent} PROVE p \in Owned' \cup lost'
      BY DEF NoLeak
    <2>0. p \in Owned' <=> p \in Owned
      BY <1>8, <1>25, OwnedFacts, OwnedFactsPrime DEF OwnedIs
    <2>1. CASE Covers(r, p)
      <3>1. r.type # Conv
        BY <2>1, <1>21
      <3>2. InRegion(p)
        BY <3>1, <2>1, <1>1, <1>k DEF InRegion
      <3> QED BY <3>2, <2>0, OwnedFacts DEF OwnedIs
    <2>2. CASE ~ Covers(r, p)
      <3>1. PageAt(p).type \notin {Conv, Absent}
        BY <2>2, <1>21
      <3>2. ~ Spoiled(p) /\ ~ \E i \in DOMAIN todo : Claims(i, p)
        BY <1>9 DEF Spoiled
      <3> QED BY <3>1, <3>2, <2>0, <1>8, <1>24 DEF NoLeak
    <2> QED BY <2>1, <2>2
  <1>30. Keys'
    BY <1>6, <1>8 DEF Keys
  <1>31. IInv'
    BY <1>9, <1>10, <1>13, <1>18, <1>22, <1>26, <1>27, <1>28, <1>29, <1>30, PartsPrime DEF IInvParts, Pages4
  <1>32. Reports(r.start, r.end, r.type, r.attr)
    <2>1. r.attr \in Attr
      BY <1>1, <1>k DEF Attr
    <2>2. Retyped(r.start, r.end, r.type, r.attr)
      BY <1>20 DEF Retyped, Covers
    <2> QED BY <2>1, <2>2, <1>2, <1>16 DEF Reports, Covers
  <1> QED BY <1>31, <1>32

-----------------------------------------------------------------------------
(* The invariant holds *)

LEMMA InitInv == Init => IInv
  <1> SUFFICES ASSUME Init PROVE IInvParts
    BY Parts
  <1>1. todo = <<>> /\ DOMAIN todo = {} /\ Adding = {} /\ Freeing = {} /\ Movers = {} /\ Len(todo) = 0
    BY DEF Init, Adding, Freeing, Movers
  <1>2. NoEntry.type = Absent /\ NotCarved.type = Absent
    BY DEF NoEntry, NotCarved
  <1>3. Linked = {}
    BY <1>2 DEF Init, Linked
  <1>4. Types
    <2>1. desc \in [Slot -> Entry \cup {NoEntry}]
      BY DEF Init
    <2>2. carved \in [Page -> [type : AllocType \cup {Absent}, list : 0 .. MAX_POOL_LIST]]
      <3>1. 0 \in 0 .. MAX_POOL_LIST
        BY PagesAssumption
      <3> QED BY <3>1 DEF Init, NotCarved
    <2>3. FreeList \in [AllocType -> [0 .. MAX_POOL_LIST - 1 -> Seq(PoolSlot)]]
      BY DEF Init
    <2>4. reported \in 0 .. Len(Region)
      BY PagesAssumption DEF Init
    <2>5. todo \in Seq(Frame)
      BY <1>1
    <2>6. PoolHeadList \in [OsType -> PoolSlot \cup {Null}]
      BY DEF Init
    <2> QED BY <2>1, <2>2, <2>3, <2>4, <2>5, <2>6, <1>1, <1>3 DEF Init, Types
  <1>5. Shape /\ Heads /\ Moving /\ Returned /\ Chosen
    <2>1. \A i \in 1 .. Len(todo) - 1 : FALSE
      BY <1>1
    <2> QED BY <2>1, <1>1 DEF Init, Shape, Heads, Moving, Returned, Chosen
  <1>6. Map
    BY <1>1, <1>3 DEF Map
  <1>7. \A p \in Page : PageAt(p) = [type |-> Absent, attr |-> 0]
    BY <1>1, <1>3 DEF PageAt
  <1>8. Reported
    <2>1. \A i \in 1 .. reported : FALSE
      BY DEF Init
    <2> QED BY <2>1, <1>7 DEF Reported
  <1>9. Owners
    <2>1. Homes = {} /\ Got = {}
      BY <1>3 DEF Init, Homes, Got
    <2>2. Pools = {}
      BY DEF Init, Pools
    <2> QED BY <2>1, <2>2, <1>1 DEF Init, Owners
  <1>10. \A p \in Page : carved[p] = NotCarved
    BY DEF Init
  <1>11. Blocks
    <2>1. PoolKept
      <3>1. Absent \notin OsType
        BY PagesAssumption DEF MemType, AllocType
      <3> QED BY <3>1, <1>2, <1>10 DEF PoolKept
    <2> QED BY <2>1, <1>10 DEF Init, Blocks
  <1>12. Lists
    <2>1. \A t \in AllocType, l \in Index : FreeList[t][l] = <<>> /\ DOMAIN FreeList[t][l] = {}
      BY DEF Init, Index
    <2> QED BY <2>1 DEF Lists, OnList
  <1>13. Pages4
    <2>1. allocs = {} /\ \A q, p \in Page : ~ InPool(q, p)
      BY <1>10 DEF Init, InPool
    <2>2. OnePageOwner
      BY <2>1, <1>1, <1>10 DEF OnePageOwner
    <2>3. PageTypes
      <3>1. Absent # Conv
        BY PagesAssumption DEF MemType
      <3> QED BY <3>1, <2>1, <1>1, <1>7 DEF PageTypes
    <2>4. AddedFor /\ NoLeak
      BY <1>1, <1>7 DEF AddedFor, NoLeak
    <2> QED BY <2>2, <2>3, <2>4 DEF Pages4
  <1>14. Keys
    BY DEF Init, Keys
  <1> QED BY <1>4, <1>5, <1>6, <1>8, <1>9, <1>11, <1>12, <1>13, <1>14 DEF IInvParts

\* What a step may do to the memory map.
Changes ==
    \/ MemoryMap' = MemoryMap
    \/ \E a, b, t, at : Converts(a, b, t, at)
    \/ \E a, b, t, at : Reports(a, b, t, at)

LEMMA WorkStep ==
    ASSUME IInv, DepthBounded, Work
    PROVE  IInv' /\ Changes
  <1>1. CASE AddRange
    BY <1>1, AddRangeStep DEF Changes
  <1>2. CASE FreeMemoryMapStack
    BY <1>2, FreeMemoryMapStackStep DEF Changes
  <1>3. CASE NextEntry
    BY <1>3, NextEntryStep DEF Changes
  <1>4. CASE MoveEntry
    BY <1>4, MoveEntryStep, MoveNoEntryStep DEF Changes
  <1>5. CASE ConvertPages
    BY <1>5, ConvertEndStep, ConvertFailStep, ConvertChangeStep DEF Changes
  <1>6. CASE AllocatePoolI
    BY <1>6, AllocatePoolIStep DEF Changes
  <1>7. CASE NewPool
    BY <1>7, NewPoolStep DEF Changes
  <1>8. CASE TakeBlock
    BY <1>8, TakeBlockStep, TakePagesStep DEF Changes
  <1>9. CASE CarvePages
    BY <1>9, CarvePagesStep DEF Changes
  <1>10. CASE FreePoolI
    BY <1>10, FreeBlockStep, FreePageStep DEF Changes
  <1>11. CASE FreePool
    BY <1>11, FreePoolStep DEF Changes
  <1>12. CASE AllocatePages
    BY <1>12, AllocatePagesStep DEF Changes
  <1>13. CASE FreePagesReturns
    BY <1>13, FreePagesReturnsStep DEF Changes
  <1>14. CASE BSAllocatePoolReturns
    BY <1>14, BSAllocatePoolReturnsStep DEF Changes
  <1> QED BY <1>1, <1>2, <1>3, <1>4, <1>5, <1>6, <1>7, <1>8, <1>9, <1>10, <1>11, <1>12, <1>13, <1>14 DEF Work

LEMMA ServicesStep ==
    ASSUME IInv, Services
    PROVE  IInv' /\ Changes
  <1>1. CASE FwAddMemoryDescriptor
    BY <1>1, FwAddMemoryDescriptorStep DEF Changes
  <1>2. CASE \E r \in PageRequest, max \in Limit : AllocateMaxAddress(r[1], r[2], max)
    <2>1. PICK r \in PageRequest, max \in Limit : AllocateMaxAddress(r[1], r[2], max)
      BY <1>2
    <2>2. r[1] \in AllocType /\ r[2] \in Nat \ {0} /\ max \in Page
      BY PagesAssumption
    <2> QED BY <2>1, <2>2, AllocateMaxAddressStep DEF Changes
  <1>3. CASE \E r \in Fixed : AllocateAddress(r[1], r[2], r[3])
    <2>1. PICK r \in Fixed : AllocateAddress(r[1], r[2], r[3])
      BY <1>3
    <2>2. r[1] \in AllocType /\ r[2] \in Nat \ {0} /\ r[3] \in Page
      BY PagesAssumption
    <2> QED BY <2>1, <2>2, AllocateAddressStep DEF Changes
  <1>4. CASE \E a \in allocs : FreePages(a)
    BY <1>4, FreePagesStep DEF Changes
  <1>5. CASE \E r \in PoolRequest : BSAllocatePool(r[1], r[2])
    <2>1. PICK r \in PoolRequest : BSAllocatePool(r[1], r[2])
      BY <1>5
    <2>2. r[1] \in AllocType /\ r[2] \in 0 .. MAX_POOL_LIST
      BY PagesAssumption
    <2> QED BY <2>1, <2>2, BSAllocatePoolStep DEF Changes
  <1>6. CASE \E s \in held : BSFreePool(s)
    BY <1>6, BSFreePoolStep DEF Changes
  <1>7. CASE GetMemoryMap
    BY <1>7, GetMemoryMapStep DEF Changes
  <1>8. CASE TerminateMemoryMap
    BY <1>8, TerminateMemoryMapStep DEF Changes
  <1> QED BY <1>1, <1>2, <1>3, <1>4, <1>5, <1>6, <1>7, <1>8 DEF Services

LEMMA NextInv == IInv /\ DepthBounded /\ [Next]_vars => IInv' /\ Changes
  <1> SUFFICES ASSUME IInv, DepthBounded, [Next]_vars PROVE IInv' /\ Changes
    OBVIOUS
  <1>1. CASE Work
    BY <1>1, WorkStep
  <1>2. CASE Services
    BY <1>2, ServicesStep
  <1>3. CASE Wipe \/ UNCHANGED vars
    BY <1>3, WipeStep DEF Changes
  <1> QED BY <1>1, <1>2, <1>3 DEF Next

-----------------------------------------------------------------------------
(* What the invariant says *)

LEMMA InvGivesMap == IInv /\ DepthBounded => MapSound
  <1> SUFFICES ASSUME IInv, DepthBounded PROVE MapSound
    OBVIOUS
  <1>0. IInvParts
    BY Parts
  <1>1. TypeOK
    BY <1>0 DEF IInvParts, Types, TypeOK
  <1>2. Partition /\ Coalesced
    BY <1>0 DEF IInvParts, Map, Reported, Partition, Coalesced
  <1> QED BY <1>1, <1>2 DEF MapSound

LEMMA InvGivesPool == IInv => PoolSound
  <1> SUFFICES ASSUME IInv PROVE OneOwner /\ PoolKept
    BY DEF PoolSound
  <1>0. IInvParts
    BY Parts
  <1>1. PoolKept
    BY <1>0 DEF IInvParts, Blocks
  <1>2. OneOwner
    <2>o. PICK o : o = <<Linked \cap PoolSlot, held, Pools, {ret} \ {Null}, Freeing>>
      OBVIOUS
    <2>1. Owners
      BY <1>0 DEF IInvParts
    <2>2. DOMAIN o = {1, 2, 3, 4, 5} /\ o[1] = Homes /\ o[2] = held /\ o[3] = Pools /\ o[4] = Got /\ o[5] = Freeing
      BY <2>o DEF Homes, Got
    <2>3. UNION {o[i] : i \in DOMAIN o} = Homes \cup held \cup Pools \cup Got \cup Freeing
      BY <2>2
    <2>4. \A i, j \in DOMAIN o : i # j => o[i] \cap o[j] = {}
      BY <2>1, <2>2 DEF Owners
    <2>5. used = UNION {o[i] : i \in DOMAIN o}
      BY <2>1, <2>3 DEF Owners
    <2>6. \A s \in Linked \cap PoolSlot : carved[s[1]].type = RtData
      BY <2>1 DEF Owners, Homes
    <2> QED BY <2>o, <2>4, <2>5, <2>6, Zenon DEF OneOwner
  <1> QED BY <1>1, <1>2

LEMMA InvGivesKey == IInv => KeyIsCurrent
  BY Parts DEF IInvParts, Keys, KeyIsCurrent

LEMMA AllocFacts ==
    ASSUME Types, NEW a \in allocs
    PROVE  /\ a.start \in Nat /\ a.end \in Nat /\ a.start <= a.end /\ a.end < NPages /\ a.type \in AllocType
           /\ a.type \notin {Conv, Absent} /\ Aligned(a.start, a.end, a.type) /\ a.start \in Page
           /\ \A p \in a.start .. a.end : p \in Page /\ p \in Nat /\ InAlloc(a, p)
  <1>1. a \in [start : Page, end : Page, type : AllocType] /\ Aligned(a.start, a.end, a.type)
    BY DEF Types
  <1>2. a.start \in Page /\ a.end \in Page /\ a.type \in AllocType
    BY <1>1
  <1>3. a.start \in Nat /\ a.end \in Nat /\ NPages \in Nat
    BY <1>2, PagesAssumption DEF Page
  <1>4. a.start <= a.end /\ a.end < NPages
    BY <1>1 DEF Aligned
  <1>5. a.type \notin {Conv, Absent}
    BY <1>2, PagesAssumption DEF MemType
  <1>6. \A p \in a.start .. a.end : p \in 0 .. NPages - 1 /\ p \in Nat /\ a.start <= p /\ p <= a.end
    BY <1>3, <1>4
  <1> QED BY <1>1, <1>2, <1>3, <1>4, <1>5, <1>6 DEF InAlloc, Page

LEMMA InvGivesAccounted == IInv => Accounted
  <1> SUFFICES ASSUME IInv, todo = <<>>
               PROVE  /\ \A a, b \in allocs : a # b => Disjoint(a, b)
                      /\ \A a \in allocs : \A p \in a.start .. a.end : PageAt(p).type = a.type /\ carved[p] = NotCarved
                      /\ \A p \in Page : carved[p] # NotCarved =>
                            \A q \in p .. p + Align - 1 : PageAt(q).type = carved[p].type
                      /\ \A p \in Page : PageAt(p).type \notin {Conv, Absent} => p \in Owned \cup lost
    BY DEF Accounted
  <1>0. IInvParts
    BY Parts
  <1>1. Types /\ OnePageOwner /\ PageTypes /\ NoLeak /\ ~ failed
    BY <1>0 DEF IInvParts, Pages4, Returned
  <1>2. ASSUME NEW a \in allocs, NEW b \in allocs, a # b
        PROVE  Disjoint(a, b)
    <2>1. Interval(a) /\ Interval(b)
      BY <1>1, AllocFacts DEF Interval
    <2>2. \A p \in Page : ~ (Covers(a, p) /\ Covers(b, p))
      BY <1>1, <1>2 DEF OnePageOwner, InAlloc, Covers
    <2> QED BY <2>1, <2>2, DisjointPoints
  <1>3. ASSUME NEW a \in allocs, NEW p \in a.start .. a.end
        PROVE  PageAt(p).type = a.type /\ carved[p] = NotCarved
    <2>1. p \in Page /\ p \in Nat /\ InAlloc(a, p)
      BY <1>1, AllocFacts
    <2>2. PageAt(p).type = a.type
      BY <2>1, <1>1 DEF PageTypes
    <2>3. ~ InPool(p, p)
      BY <2>1, <1>1 DEF OnePageOwner
    <2>4. p <= p /\ p < p + Align
      BY <2>1, PagesAssumption
    <2> QED BY <2>2, <2>3, <2>4 DEF InPool
  <1>4. ASSUME NEW p \in Page, carved[p] # NotCarved, NEW q \in p .. p + Align - 1
        PROVE  PageAt(q).type = carved[p].type
    <2>1. p + Align <= NPages
      BY <1>1, <1>4 DEF OnePageOwner
    <2>2. p \in Nat /\ NPages \in Nat /\ Align \in Nat
      BY PagesAssumption DEF Page
    <2>3. q \in 0 .. NPages - 1 /\ p <= q /\ q < p + Align
      BY <2>1, <2>2
    <2>4. InPool(p, q) /\ q \in Page
      BY <2>3, <1>4 DEF InPool, Page
    <2> QED BY <2>4, <1>1 DEF PageTypes
  <1>5. ASSUME NEW p \in Page, PageAt(p).type \notin {Conv, Absent}
        PROVE  p \in Owned \cup lost
    <2>1. ~ Spoiled(p) /\ DOMAIN todo = {}
      BY <1>1 DEF Spoiled
    <2> QED BY <2>1, <1>1, <1>5 DEF NoLeak
  <1> QED BY <1>2, <1>3, <1>4, <1>5

LEMMA InvGivesFrees == IInv => FreesSucceed
  <1> SUFFICES ASSUME IInv PROVE FreeableAgain /\ OnlyAllocateFails
    BY DEF FreesSucceed
  <1>0. IInvParts
    BY Parts
  <1>1. OnlyAllocateFails
    BY <1>0 DEF IInvParts, Returned, OnlyAllocateFails, Running
  <1>2. FreeableAgain
    <2> SUFFICES ASSUME todo = <<>>, NEW a \in allocs,
                        \A p \in a.start .. a.end : PageAt(p).attr = PageAt(a.start).attr
                 PROVE  Freeable(a)
      BY DEF FreeableAgain, CanCall
    <2>1. /\ Types /\ Typing /\ PageTypes /\ Map /\ AllKnown
      BY <1>0, TypesGiveTyping, PageAtFacts DEF IInvParts, Pages4
    <2>2. Adding = {}
      BY DEF Adding
    <2>3. /\ a.start \in Nat /\ a.end \in Nat /\ a.start <= a.end /\ a.end < NPages /\ a.type \notin {Conv, Absent}
          /\ Aligned(a.start, a.end, a.type) /\ \A p \in a.start .. a.end : p \in Page /\ p \in Nat /\ InAlloc(a, p)
      BY <2>1, AllocFacts
    <2>4. \A p \in a.start .. a.end : PageAt(p).type = a.type
      BY <2>1, <2>3 DEF PageTypes
    <2>5. \A p \in a.start .. a.end : \E s \in Linked :
             /\ Covers(desc[s], p) /\ desc[s].type = a.type /\ desc[s].attr = PageAt(p).attr
      <3> TAKE p \in a.start .. a.end
      <3>1. Known(p) /\ PageAt(p).type # Absent
        BY <2>1, <2>3, <2>4 DEF AllKnown
      <3>2. PICK s \in Linked : Covers(desc[s], p)
        BY <3>1, <2>2 DEF Known
      <3>3. PageAt(p) = [type |-> desc[s].type, attr |-> desc[s].attr]
        BY <3>1, <3>2 DEF Known
      <3> QED BY <3>2, <3>3, <2>4
    <2>6. a.start \in a.start .. a.end
      BY <2>3
    <2>7. PICK s \in Linked : Covers(desc[s], a.start) /\ desc[s].type = a.type /\ desc[s].attr = PageAt(a.start).attr
      BY <2>5, <2>6
    <2>8. desc[s].start \in Nat /\ desc[s].end \in Nat /\ desc[s].start <= a.start /\ a.start <= desc[s].end
      BY <2>1, <2>7, EntryFacts DEF Typing, Covers
    <2>9. desc[s].end >= a.end
      <3> SUFFICES ASSUME desc[s].end < a.end PROVE FALSE
        BY <2>3, <2>8
      <3>1. desc[s].end + 1 \in a.start .. a.end
        BY <2>3, <2>8
      <3>2. PICK t \in Linked : /\ Covers(desc[t], desc[s].end + 1) /\ desc[t].type = a.type
                                /\ desc[t].attr = PageAt(desc[s].end + 1).attr
        BY <3>1, <2>5
      <3>3. desc[t].start \in Nat /\ desc[t].end \in Nat /\ desc[t].start <= desc[s].end + 1 /\ desc[s].end + 1 <= desc[t].end
        BY <2>1, <3>2, EntryFacts DEF Typing, Covers
      <3>4. desc[t].attr = desc[s].attr /\ desc[t].type = desc[s].type
        BY <2>7, <3>1, <3>2
      <3>5. s # t
        BY <3>3, <2>8
      <3>6. Disjoint(desc[s], desc[t]) /\ ~ Adjoins(desc[s], desc[t])
        BY <3>5, <2>1 DEF Map
      <3>7. desc[s].end < desc[t].start \/ desc[t].end < desc[s].start
        BY <3>6 DEF Disjoint
      <3>8. desc[s].end + 1 = desc[t].start
        <4>1. PICK x, y, u, v : x = desc[s].start /\ y = desc[s].end /\ u = desc[t].start /\ v = desc[t].end
          OBVIOUS
        <4>2. x \in Nat /\ y \in Nat /\ u \in Nat /\ v \in Nat
          BY <4>1, <3>3, <2>8
        <4>3. x <= y
          BY <4>1, <4>2, <2>3, <2>8
        <4>4. u <= y + 1 /\ y + 1 <= v /\ (y < u \/ v < x)
          BY <4>1, <3>3, <3>7
        <4>5. y + 1 = u
          BY <4>2, <4>3, <4>4
        <4> QED BY <4>1, <4>5
      <3> QED BY <3>4, <3>6, <3>8 DEF Adjoins
    <2>10. PICK al, m : al = AlignmentOf(a.type) /\ m = a.end - a.start + 1
      OBVIOUS
    <2>11. al \in {1, 2} /\ m \in Nat /\ a.start % al = 0 /\ m % al = 0
      <3>1. al \in {1, 2} /\ a.start % al = 0 /\ m % al = 0
        BY <2>3, <2>10, AlignmentFacts, Zenon DEF Aligned
      <3>2. m \in Nat
        BY <2>3, <2>10
      <3> QED BY <3>1, <3>2
    <2>12. AlignUp(m, al) = m
      BY <2>11, AlignFacts
    <2>13. m <= desc[s].end - desc[s].start + 1
      BY <2>3, <2>8, <2>9, <2>10
    <2> QED BY <2>7, <2>10, <2>11, <2>12, <2>13 DEF Freeable
  <1> QED BY <1>1, <1>2

-----------------------------------------------------------------------------
(* The map implements PageMap *)

LEMMA MapFacts == \A p \in Page : MemoryMap[p] = PageAt(p) /\ MemoryMap'[p] = PageAt(p)' /\ DOMAIN MemoryMap' = Page
  BY DEF MemoryMap

\* The pages that a step changes when it gives a range another type.
LEMMA ChangedRange ==
    ASSUME NEW a \in Nat, NEW b \in Nat, NEW t, NEW at, Retyped(a, b, t, at),
           \A p \in Page : a <= p /\ p <= b => PageAt(p).type # t
    PROVE  /\ \A p \in Abstract!Changed : p \in Page /\ a <= p /\ p <= b /\ MemoryMap'[p] = [type |-> t, attr |-> at]
           /\ Abstract!OneRange
  <1>1. \A p \in Page : p \in Abstract!Changed <=> PageAt(p)' # PageAt(p)
    BY MapFacts DEF Abstract!Changed
  <1>2. \A p \in Abstract!Changed : p \in Page
    BY DEF Abstract!Changed
  <1>3. \A p \in Page : p \in Abstract!Changed <=> a <= p /\ p <= b
    <2> TAKE p \in Page
    <2>1. CASE a <= p /\ p <= b
      <3>1. PageAt(p)' = [type |-> t, attr |-> at] /\ PageAt(p).type # t
        BY <2>1 DEF Retyped
      <3>2. PageAt(p)'.type = t
        BY <3>1
      <3> QED BY <2>1, <3>1, <3>2, <1>1
    <2>2. CASE ~ (a <= p /\ p <= b)
      BY <2>2, <1>1 DEF Retyped
    <2> QED BY <2>1, <2>2
  <1>4. \A p \in Abstract!Changed : MemoryMap'[p] = [type |-> t, attr |-> at]
    BY <1>2, <1>3, MapFacts DEF Retyped
  <1>5. Abstract!OneRange
    <2> SUFFICES ASSUME NEW p \in Abstract!Changed, NEW q \in Abstract!Changed, NEW r \in Page, p <= r, r <= q
                 PROVE  r \in Abstract!Changed
      BY DEF Abstract!OneRange
    <2>1. p \in Nat /\ q \in Nat /\ r \in Nat
      BY <1>2, PagesAssumption DEF Page
    <2>2. a <= p /\ q <= b
      BY <1>2, <1>3
    <2>3. a <= r /\ r <= b
      BY <2>1, <2>2
    <2> QED BY <2>3, <1>3
  <1> QED BY <1>2, <1>3, <1>4, <1>5

LEMMA ChangesImplement == Changes => [Abstract!Next]_MemoryMap
  <1> SUFFICES ASSUME Changes, MemoryMap' # MemoryMap PROVE Abstract!Next
    OBVIOUS
  <1>0. DOMAIN MemoryMap' = Page
    BY DEF MemoryMap
  <1>1. CASE \E a, b, t, at : Converts(a, b, t, at)
    <2>1. PICK a, b, t, at : Converts(a, b, t, at)
      BY <1>1
    <2>2. a \in Nat /\ b \in Nat /\ t \in MemType /\ Retyped(a, b, t, at)
      BY <2>1 DEF Converts
    <2>3. \A p \in Page : a <= p /\ p <= b =>
             PageAt(p).attr = at /\ PageAt(p).type # Absent /\ (t = Conv) # (PageAt(p).type = Conv)
      BY <2>1 DEF Converts
    <2>4. \A p \in Page : a <= p /\ p <= b => PageAt(p).type # t
      BY <2>3
    <2>5. /\ \A p \in Abstract!Changed : p \in Page /\ a <= p /\ p <= b /\ MemoryMap'[p] = [type |-> t, attr |-> at]
          /\ Abstract!OneRange
      BY <2>2, <2>4, ChangedRange
    <2>6. Abstract!Convert
      BY <2>2, <2>3, <2>5, MapFacts DEF Abstract!Convert
    <2> QED BY <2>5, <2>6, <1>0 DEF Abstract!Next
  <1>2. CASE \E a, b, t, at : Reports(a, b, t, at)
    <2>1. PICK a, b, t, at : Reports(a, b, t, at)
      BY <1>2
    <2>2. a \in Nat /\ b \in Nat /\ t \in MemType /\ at \in Attr /\ Retyped(a, b, t, at)
      BY <2>1 DEF Reports
    <2>3. \A p \in Page : a <= p /\ p <= b => PageAt(p).type = Absent
      BY <2>1 DEF Reports
    <2>4. \A p \in Page : a <= p /\ p <= b => PageAt(p).type # t
      BY <2>2, <2>3, PagesAssumption
    <2>5. /\ \A p \in Abstract!Changed : p \in Page /\ a <= p /\ p <= b /\ MemoryMap'[p] = [type |-> t, attr |-> at]
          /\ Abstract!OneRange
      BY <2>2, <2>4, ChangedRange
    <2>6. Abstract!Report
      BY <2>2, <2>3, <2>5, MapFacts DEF Abstract!Report
    <2> QED BY <2>5, <2>6, <1>0 DEF Abstract!Next
  <1> QED BY <1>1, <1>2 DEF Changes

LEMMA InitImplements == Init => Abstract!Init
  <1> SUFFICES ASSUME Init PROVE Abstract!Init
    OBVIOUS
  <1>1. Adding = {}
    BY DEF Init, Adding
  <1>2. Linked = {}
    BY DEF Init, Linked, NoEntry
  <1>3. \A p \in Page : PageAt(p) = [type |-> Absent, attr |-> 0]
    BY <1>1, <1>2 DEF PageAt
  <1> QED BY <1>3 DEF Abstract!Init, MemoryMap

-----------------------------------------------------------------------------
(* The theorems *)

\* The invariant holds as long as ConvertPages and AddRange find room in MapStack,
\* which the code asserts (page.c:378, 647) and does not test.
LEMMA Always == Spec /\ []DepthBounded => []IInv
  <1>1. IInv /\ DepthBounded /\ [Next]_vars => IInv'
    BY NextInv
  <1> QED BY <1>1, InitInv, PTL DEF Spec

\* However AllocatePages, FreePages and the pool call each other, the descriptors
\* and the ranges on their way to AddRange partition the memory the platform has
\* reported, and no two that could be one adjoin (page.c: AddRange, ConvertPages).
THEOREM MapStaysSound == Spec /\ []DepthBounded => []MapSound
  BY Always, InvGivesMap, PTL

\* A block of the pool has one owner, a descriptor in the pool is in a block of
\* runtime data that nobody else has, and the POOL of an OS type is there as long
\* as pages are carved for it (pool.c: AllocatePoolI, FreePoolI).
THEOREM PoolStaysSound == Spec /\ []DepthBounded => []PoolSound
  BY Always, InvGivesPool, PTL

\* Between services every page has the type its one owner asked for, and a page
\* without an owner is free or was lost by a failed AllocatePages (page.c, pool.c).
THEOREM PagesAccounted == Spec /\ []DepthBounded => []Accounted
  BY Always, InvGivesAccounted, PTL

\* The key of GetMemoryMap is good only for the map it came with: ConvertPages and
\* AddRange advance MemoryMapKey whenever they alter the map, and nothing does at
\* runtime (page.c: GetMemoryMap, TerminateMemoryMap).
THEOREM KeyStaysCurrent == Spec /\ []DepthBounded => []KeyIsCurrent
  BY Always, InvGivesKey, PTL

\* FreePages accepts every range that AllocatePages gave out and whose pages have
\* one attribute, and neither it nor the pool then fails to convert it (page.c:
\* FreePages).
THEOREM FreesAlwaysSucceed == Spec /\ []DepthBounded => []FreesSucceed
  BY Always, InvGivesFrees, PTL

\* The lists of descriptors implement one type per page: a step reports new pages,
\* or takes one range of pages from conventional memory or gives it back, and
\* leaves all others and every attribute alone (page.c: ConvertPages, AddRange).
THEOREM MapImplementsPages == Spec /\ []DepthBounded => Refines
  <1>1. IInv /\ DepthBounded /\ [Next]_vars => [Abstract!Next]_MemoryMap
    BY NextInv, ChangesImplement
  <1>2. Spec /\ []DepthBounded => Abstract!Init /\ [][Abstract!Next]_MemoryMap
    BY <1>1, Always, InitImplements, PTL DEF Spec
  <1> QED BY <1>2 DEF Refines, Abstract!Spec
=============================================================================
