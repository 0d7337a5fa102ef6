------------------------------ MODULE MCPages ------------------------------
(* A machine with pages 1 to 6 of memory, the last two with EFI_MEMORY_RUNTIME, *)
(* and pages so small that two descriptors fill one.                            *)
EXTENDS Pages

Loader == "EfiLoaderData"
OsLoader == "OsLoaderType"

MCOther == {Loader, OsLoader}
MCOs == {OsLoader}
MCRtAligned == {RtData}
MCWatermark == [t \in {RtData, BsData} \cup MCOther |-> IF t = RtData THEN 5 ELSE 6]

Reg(a, b, t, at) == [start |-> a, end |-> b, type |-> t, attr |-> at]
MCRegion == <<Reg(1, 4, Conv, 0), Reg(5, 6, Conv, 1)>>

\* The second of the fixed requests spans the two regions.
MCPageRequest == {<<RtData, 1>>}
MCFixed == {<<Loader, 2, 3>>, <<Loader, 2, 4>>}
MCPoolRequest == {<<OsLoader, 0>>, <<BsData, 2>>}
====
