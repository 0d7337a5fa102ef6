----------------------------- MODULE MCVarStore -----------------------------
(* Small instances of VarStore. *)
EXTENDS VarStore

\* A bank with a header and the entries of log.
Formatted(seq, log) ==
    [Header |-> [Signature |-> TRUE, Sequence |-> seq, State |-> {}], Log |-> log]

\* A device that has never been used.
Erased == [b \in BankNo |-> Blank]

\* In units of sizeof(VARIABLE): an entry is that and its name and data.
EqualSizes == [n \in Name |-> [v \in Val |-> 2]]

-----------------------------------------------------------------------------
(* Two banks of the store that an operating system uses.  It holds x for    *)
(* ever, as a store in use holds the MTC variable.                          *)

OneStore == <<"NV+BS+RT", "NV+BS+RT">>

XInStore == <<Formatted(1, <<Added("x", "a", TRUE)>>), Formatted(2, <<>>)>>

SetX == {<<"x", "a", "NV+BS+RT">>, <<"x", "b", "NV+BS+RT">>}

SetXAddY == SetX \cup {<<"y", "a", "NV+BS+RT">>}

-----------------------------------------------------------------------------
(* The stores of the platforms: a volatile one and a non-volatile one.  x   *)
(* moves between them, q stays where it is.                                 *)

TwoStores == <<"BS+RT", "BS+RT", "NV+BS+RT", "NV+BS+RT">>

QInStore == <<Blank, Blank, Formatted(1, <<Added("q", "a", TRUE)>>), Formatted(2, <<>>)>>

MoveX == {<<"x", v, s>> : v \in {"a", "b"}, s \in {"BS+RT", "NV+BS+RT"}} \cup {<<"x", None, "BS+RT">>}

\* The platform saves x for its own use, an operating system for both.
BootX == {<<"x", "a", "NV+BS">>, <<"x", "b", "NV+BS+RT">>}

-----------------------------------------------------------------------------
(* Three banks: the one that x is in can become empty of live variables.   *)

ThreeBanks == <<"NV+BS+RT", "NV+BS+RT", "NV+BS+RT">>

XAndM == <<Formatted(1, <<Added("m", "a", TRUE)>>), Formatted(2, <<Added("x", "a", TRUE)>>), Formatted(3, <<>>)>>

-----------------------------------------------------------------------------
(* Values of different sizes: the new value of x is shorter than the old.  *)

BIsShort == [n \in Name |-> [v \in Val |-> IF v = "b" THEN 2 ELSE 4]]

ShrinkX == {<<"x", "b", "NV+BS+RT">>}
====
