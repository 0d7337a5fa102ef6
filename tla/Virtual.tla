------------------------------ MODULE Virtual ------------------------------
(***************************************************************************)
(* The switch to virtual addresses: COREFW/fw/efi/mem/virt.c.  The memory  *)
(* map does not change any more when the operating system calls            *)
(* SetVirtualAddressMap, so it is a constant.  Its descriptors do not      *)
(* overlap (Pages!Partition), hence the descriptor that RtConvertPointer   *)
(* remembers, MemoryLastConvert, is found again by the search, and only    *)
(* saves it.                                                               *)
(***************************************************************************)
EXTENDS Naturals, Sequences, SequencesExt, FiniteSetsExt

CONSTANTS
    PageSize,       \* addresses in a page: EFI_PAGE_SIZE
    MemoryMap,      \* the descriptors in order: Start, End (inclusive), runtime
    VirtualMaps     \* what the operating system passes: sequences of
                    \* [PhysicalStart, NumberOfPages, VirtualStart]

ASSUME MapAssumption ==
    /\ PageSize \in Nat \ {0}
    /\ MemoryMap \in Seq([Start : Nat, End : Nat, runtime : BOOLEAN])
    /\ \A map \in VirtualMaps :
         map \in Seq([PhysicalStart : Nat, NumberOfPages : Nat, VirtualStart : Nat])
    /\ \A k, l \in DOMAIN MemoryMap : k < l => MemoryMap[k].End < MemoryMap[l].Start

\* The descriptors that entry e of the caller's map covers.  End is the last
\* address of a descriptor, PhysicalEnd the first one behind the entry.
Covered(e) ==
    LET PhysicalEnd == e.PhysicalStart + e.NumberOfPages * PageSize
    IN  {k \in DOMAIN MemoryMap :
            MemoryMap[k].Start >= e.PhysicalStart /\ MemoryMap[k].End <= PhysicalEnd}

\* Entry e gives the first descriptor it covers its virtual address, and no other.
Captures(e, k) == e.VirtualStart # 0 /\ Covered(e) # {} /\ k = Min(Covered(e))

\* VirtualStart of every descriptor after the entries of the caller's map were
\* applied in order: 0, or what the last entry for it says.
Applied(map) ==
    [k \in DOMAIN MemoryMap |->
        LET entries == {j \in DOMAIN map : Captures(map[j], k)}
            e == map[Max(entries)]
        IN  IF entries = {} THEN 0 ELSE e.VirtualStart + MemoryMap[k].Start - e.PhysicalStart]

\* Every entry was found, and every runtime descriptor has an address.
Accepted(map) ==
    /\ \A j \in DOMAIN map : map[j].VirtualStart # 0 => Covered(map[j]) # {}
    /\ \A k \in DOMAIN MemoryMap : MemoryMap[k].runtime => Applied(map)[k] # 0

\* The addresses in a descriptor.
Addresses(k) == MemoryMap[k].Start .. MemoryMap[k].End

\* RtConvertPointer: a is in a descriptor, or the code stops there.
RtConvertPointer(vs, a) ==
    LET k == CHOOSE k \in DOMAIN MemoryMap : a \in Addresses(k)
    IN  a - MemoryMap[k].Start + vs[k]
====
