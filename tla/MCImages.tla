------------------------------ MODULE MCImages ------------------------------
(* An application, a boot service driver and a runtime driver.  Memory is  *)
(* runtime code with the runtime driver, runtime data, and a descriptor    *)
(* before and behind them.                                                 *)
EXTENDS Images

MCKind == [i \in Image |-> CASE i = "shell" -> "app" [] i = "rtdrv" -> "rt" [] OTHER -> "boot"]
MCBase == [i \in Runtime |-> 4]

Descriptor(start, pages, runtime) ==
    [Start |-> start, End |-> start + pages * PageSize - 1, runtime |-> runtime]
MCMemoryMap == <<Descriptor(0, 1, FALSE), Descriptor(2, 2, TRUE), Descriptor(6, 1, TRUE),
                 Descriptor(8, 1, FALSE)>>

Entry(start, pages, virt) == [PhysicalStart |-> start, NumberOfPages |-> pages, VirtualStart |-> virt]

\* Both ranges; both the other way round; not moved; one too few; one entry for
\* both; an entry that is no memory; an entry without an address.
MCVirtualMaps ==
    {<<Entry(2, 2, 20), Entry(6, 1, 40)>>, <<Entry(6, 1, 20), Entry(2, 2, 30)>>,
     <<Entry(2, 2, 2), Entry(6, 1, 6)>>, <<Entry(2, 2, 20)>>, <<Entry(2, 3, 20)>>,
     <<Entry(2, 2, 20), Entry(6, 1, 40), Entry(50, 1, 60)>>,
     <<Entry(0, 1, 0), Entry(2, 2, 20), Entry(6, 1, 40)>>}

\* The proof of PointersConverted needs it of the operating system's maps.
ASSUME MCMapsApart == MapsApart
====
