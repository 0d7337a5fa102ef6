------------------------------ MODULE VarStore ------------------------------
(***************************************************************************)
(* The variable stores: COREFW/fw/efi/variable/*.c.                        *)
(*                                                                         *)
(* A store is a set of banks of a device whose bits can only be cleared    *)
(* until the whole bank is erased.  A bank is a header and a log of        *)
(* variables; an update appends the new value and marks the old one, and   *)
(* garbage collection moves the live variables to the store's transaction  *)
(* bank.  The firmware keeps a copy of every bank in memory.  All services *)
(* run under VariableStoreLock, so there is one thread; its state is todo, *)
(* the steps that remain of the running service.  A step is one access to  *)
(* the device or one decision, and the power may fail at any of them, also *)
(* in the middle of an access.                                             *)
(*                                                                         *)
(* No device of the repository supplies TransactionUpdate, so every store  *)
(* with a bank has TBankRequired; SizeStore (growing a store) is left out. *)
(***************************************************************************)
EXTENDS Integers, Sequences, SequencesExt, FiniteSetsExt

CONSTANTS
    Name, Val,          \* variables (name and vendor GUID) and their data
    None, NoRequest,
    VarSize,            \* VarSize[n][v]: padded size of the entry for v in n
    StoreOf,            \* StoreOf[b]: the store of bank b; banks are numbered
    Calls,              \* what callers pass to SetVariable: a variable, its new
                        \* value or None, the store its attributes select
    BankSize,
    SIZEOF_VARIABLE,    \* sizeof(VARIABLE), the fixed part of an entry
    VAR_SIZE_MASK,      \* the largest size that an entry's Size field can tell
    VARH_MAX_SEQUENCE,
    GarbledSizes,       \* what a half-written Size may read as; {} if the device
                        \* writes the two bytes of Size as one
    Factory,            \* what the device holds at first
    OsBoots,            \* an operating system calls ExitBootServices
    MaxErrors           \* bound: device errors

Store == {"BS", "NV+BS", "BS+RT", "NV+BS+RT"}
RuntimeStore == {"BS+RT", "NV+BS+RT"}
NonVolatile == {"NV+BS", "NV+BS+RT"}

\* What there is of each store, in the order in which the stores are looked at.
VariableStore(of) == of["BS"] \o of["NV+BS"] \o of["BS+RT"] \o of["NV+BS+RT"]

BankNo == DOMAIN StoreOf
NoBank == 0

FIRST_VARIABLE_OFFSET == 1

ASSUME StoreAssumption ==
    /\ StoreOf \in Seq(Store)
    /\ Calls \subseteq Name \X (Val \cup {None}) \X Store
    /\ VarSize \in [Name -> [Val -> Nat \ {0}]]
    /\ BankSize \in Nat \ {0} /\ VARH_MAX_SEQUENCE \in Nat \ {0}
    /\ SIZEOF_VARIABLE \in Nat /\ VAR_SIZE_MASK \in Nat
    /\ GarbledSizes \subseteq 1 .. VAR_SIZE_MASK
    /\ OsBoots \in BOOLEAN /\ MaxErrors \in Nat
    /\ None \notin Name \cup Val

VARIABLES
    nv,             \* nv[b]: what the device holds
    Bank,           \* Bank[b]: the memory copy of bank b, STORAGE_BANK
    Active,         \* Active[s]: the banks of the store in list order
    TBank,          \* TBank[s]: its transaction bank
    Sequence,       \* Sequence[s]: the last update sequence number
    EfiAtRuntime,
    todo,           \* the steps that remain of the running service
    request,        \* the SetVariable in progress
    status,         \* how the last one ended
    errors          \* number of device errors so far

memory == <<Bank, Active, TBank, Sequence, EfiAtRuntime>>
caller == <<request, status>>
vars == <<nv, memory, todo, caller, errors>>

-----------------------------------------------------------------------------
(* Bank headers and entries *)

BankState == {"ADD_TRANSITION", "INUSE_TRANSITION", "INUSE", "OBSOLETE_TRANSITION"}

\* An erased or zeroed header has no valid signature.
NoHeader == [Signature |-> FALSE, Sequence |-> 0, State |-> {}]
Header == [Signature : BOOLEAN, Sequence : 0 .. VARH_MAX_SEQUENCE, State : SUBSET BankState]

Blank == [Header |-> NoHeader, Log |-> <<>>]

\* size is what the Size field reads as, rounded up.
Entry == [name : Name \cup {None}, val : Val \cup {None}, rt : BOOLEAN,
          size : 1 .. VAR_SIZE_MASK, state : {"added", "trans", "dead"}]

ASSUME FactoryAssumption == Factory \in [BankNo -> [Header : Header, Log : Seq(Entry)]]

\* An entry that was not completely added reads as an obsolete one; neither
\* its name nor its data is looked at again.
Dead(size) == [name |-> None, val |-> None, rt |-> FALSE, size |-> size, state |-> "dead"]

Added(n, v, rt) ==
    [name |-> n, val |-> v, rt |-> rt, size |-> VarSize[n][v], state |-> "added"]

Valid(e) == e.state # "dead"

Total(sizes) ==
    LET Sum[i \in 0 .. Len(sizes)] == IF i = 0 THEN 0 ELSE Sum[i - 1] + sizes[i]
    IN  Sum[Len(sizes)]

Tail_(log) == FIRST_VARIABLE_OFFSET + Total([i \in DOMAIN log |-> log[i].size])

\* The part of it that valid entries take.
Live(log) ==
    FIRST_VARIABLE_OFFSET + Total([i \in DOMAIN log |-> IF Valid(log[i]) THEN log[i].size ELSE 0])

\* Bank->Tail.  Gap is what lies between the last entry that can be read and Tail:
\* nothing, but in a bank that was found corrupt.
DataTail(b) == Tail_(Bank[b].Log) + Bank[b].Gap

NewBankRecord(img) == [Header |-> img.Header, Log |-> <<>>, InUse |-> FIRST_VARIABLE_OFFSET,
                       Gap |-> 0, DeviceError |-> FALSE]

\* The size that *Bank->TSize reads: every bank of a store points to the same.
TSize(s) == IF TBank[s] = NoBank THEN 0 ELSE BankSize

\* RtVarFind: the first valid entry for n that is not in transition, in the
\* stores and for the attributes that can be seen now.
VisibleBanks ==
    VariableStore([s \in Store |-> IF EfiAtRuntime /\ s \notin RuntimeStore THEN <<>> ELSE Active[s]])

NotFound == [bank |-> NoBank, index |-> 0]

RtVarFind(n) ==
    LET In(b) == {i \in DOMAIN Bank[b].Log :
                     /\ Bank[b].Log[i].state = "added" /\ Bank[b].Log[i].name = n
                     /\ EfiAtRuntime => Bank[b].Log[i].rt}
        hits == {k \in DOMAIN VisibleBanks : In(VisibleBanks[k]) # {}}
    IN  IF hits = {} THEN NotFound
        ELSE LET b == VisibleBanks[Min(hits)] IN [bank |-> b, index |-> Min(In(b))]

EntryAt(p) == Bank[p.bank].Log[p.index]

\* What GetVariable returns.
GetVariable(n) ==
    LET p == RtVarFind(n) IN IF p = NotFound THEN None ELSE EntryAt(p).val

\* The first bank of the list that is one of banks.
FirstBank(s, banks) ==
    LET good == {k \in DOMAIN Active[s] : Active[s][k] \in banks}
    IN  IF good = {} THEN NoBank ELSE Active[s][Min(good)]

\* Mutant: garbage behind the entries is taken for space.
FreeBank_NoTail(s, size) ==
    FirstBank(s, {b \in BankNo : ~ Bank[b].DeviceError /\ Bank[b].InUse + size < TSize(s)})

FreeBank(s, size) ==
    FirstBank(s, {b \in BankNo : /\ ~ Bank[b].DeviceError
                                 /\ DataTail(b) + size < BankSize
                                 /\ Bank[b].InUse + size < TSize(s)})

\* Mutant: a bank without garbage is collected too.
Collectable_Any(s) ==
    FirstBank(s, {b \in BankNo : ~ Bank[b].DeviceError /\ Bank[b].InUse <= TSize(s)})

Collectable(s) ==
    FirstBank(s, {b \in BankNo : /\ ~ Bank[b].DeviceError
                                 /\ Bank[b].InUse < DataTail(b) /\ Bank[b].InUse <= TSize(s)})

EmptyBank(s) == FirstBank(s, {b \in BankNo : Bank[b].Log = <<>> /\ Bank[b].Gap = 0})

Without(list, b) ==
    LET Kept[i \in 0 .. Len(list)] ==
            IF i = 0 THEN <<>>
            ELSE IF list[i] = b THEN Kept[i - 1]
            ELSE Append(Kept[i - 1], list[i])
    IN  Kept[Len(list)]

-----------------------------------------------------------------------------
(* The steps of the services *)

Doing(op) == todo # <<>> /\ Head(todo)[1] = op

Arg(i) == Head(todo)[i]

\* The step is done; the steps of what it calls come first.
Then(steps) == todo' = steps \o Tail(todo)

Return(s) == << <<"Return", s>> >>

\* A write to the device, or the attempt: r is the memory copy with the new
\* contents, img the contents of the bank once they are written.
Write(b, r, img) ==
    \/ /\ Bank' = [Bank EXCEPT ![b] = r]
       /\ nv' = IF r.DeviceError \/ StoreOf[b] \notin NonVolatile THEN nv
                ELSE [nv EXCEPT ![b] = img]
       /\ UNCHANGED errors
    \/ /\ errors < MaxErrors /\ ~ r.DeviceError
       /\ Bank' = [Bank EXCEPT ![b] = [r EXCEPT !.DeviceError = TRUE]]
       /\ errors' = errors + 1
       /\ UNCHANGED nv

WriteHeader(b, h) == Write(b, [Bank[b] EXCEPT !.Header = h], [nv[b] EXCEPT !.Header = h])

-----------------------------------------------------------------------------
(* RtVarClearStore: zero the header, erase, write a new header *)

ClearStore(b) == << <<"Zero", b>> >>

NextSequence(q) == IF q < VARH_MAX_SEQUENCE THEN q + 1 ELSE q

\* Mutant: the bank is not erased.
AfterZero_NoErase(b) == << <<"NewHeader", b>> >>

AfterZero(b) == << <<"Erase", b>> >>

Zero ==
    /\ Doing("Zero")
    /\ LET b == Arg(2)
           s == StoreOf[b]
       IN  /\ Active' = [Active EXCEPT ![s] = Without(@, b)]
           /\ IF Bank[b].DeviceError THEN Then(<<>>) /\ UNCHANGED <<nv, Bank, errors>>
              ELSE IF Bank[b].Header.Signature
              THEN /\ WriteHeader(b, NoHeader)
                   /\ Then(IF Bank'[b].DeviceError THEN <<>> ELSE AfterZero(b))
              ELSE Then(AfterZero(b)) /\ UNCHANGED <<nv, Bank, errors>>
    /\ UNCHANGED <<TBank, Sequence, EfiAtRuntime, caller>>

Erase ==
    /\ Doing("Erase")
    /\ LET b == Arg(2)
       IN  /\ Write(b, Bank[b], Blank)
           /\ Then(IF Bank'[b].DeviceError THEN <<>> ELSE << <<"NewHeader", b>> >>)
    /\ UNCHANGED <<Active, TBank, Sequence, EfiAtRuntime, caller>>

NewHeader ==
    /\ Doing("NewHeader")
    /\ LET b == Arg(2)
           s == StoreOf[b]
           q == NextSequence(Sequence[s])
           h == [Signature |-> TRUE, Sequence |-> q, State |-> {}]
       IN  /\ Sequence' = [Sequence EXCEPT ![s] = q]
           /\ Write(b, NewBankRecord([Blank EXCEPT !.Header = h]), [nv[b] EXCEPT !.Header = h])
           /\ Active' = IF Bank'[b].DeviceError THEN Active
                        ELSE [Active EXCEPT ![s] = Append(@, b)]
    /\ Then(<<>>)
    /\ UNCHANGED <<TBank, EfiAtRuntime, caller>>

\* RtVarUpdateBankState
UpdateBankState ==
    /\ Doing("BankState")
    /\ WriteHeader(Arg(2), [Bank[Arg(2)].Header EXCEPT !.State = @ \cup {Arg(3)}])
    /\ Then(<<>>)
    /\ UNCHANGED <<Active, TBank, Sequence, EfiAtRuntime, caller>>

-----------------------------------------------------------------------------
(* RtVarGarbageCollectBank *)

\* RtVarMove for every valid entry: the copies are marked as added.
Moved(old, new) ==
    LET log == Bank[old].Log
        Copied[i \in 0 .. Len(log)] ==
            IF i = 0 THEN Bank[new].Log
            ELSE IF ~ Valid(log[i]) \/ Tail_(Copied[i - 1]) + log[i].size > BankSize THEN Copied[i - 1]
            ELSE Append(Copied[i - 1], [log[i] EXCEPT !.state = "added"])
    IN  Copied[Len(log)]

\* Mutant: the old bank is cleared before its entries are written to the new one.
ChangeOver_DataLast(old, new) ==
    << <<"BankState", new, "ADD_TRANSITION">>,
       <<"BankState", old, "OBSOLETE_TRANSITION">> >>
    \o ClearStore(old)
    \o << <<"Data", new>>,
          <<"BankState", new, "INUSE_TRANSITION">>,
          <<"BankState", new, "INUSE">>,
          <<"Activate", new>> >>

\* The order in which the two banks change over.
ChangeOver(old, new) ==
    << <<"BankState", new, "ADD_TRANSITION">>,
       <<"Data", new>>,
       <<"BankState", old, "OBSOLETE_TRANSITION">>,
       <<"BankState", new, "INUSE_TRANSITION">> >>
    \o ClearStore(old)
    \o << <<"BankState", new, "INUSE">>,
          <<"Activate", new>> >>

Collect ==
    /\ Doing("Collect")
    /\ LET old == Arg(2)
           s == StoreOf[old]
           new == TBank[s]
           log == Moved(old, new)
       IN  /\ TBank' = [TBank EXCEPT ![s] = NoBank]
           /\ IF new = NoBank THEN Then(<<>>) /\ UNCHANGED Bank
              ELSE /\ Bank' = [Bank EXCEPT ![new].Log = log, ![new].InUse = Tail_(log)]
                   /\ Then(ChangeOver(old, new))
    /\ UNCHANGED <<nv, Active, Sequence, EfiAtRuntime, caller, errors>>

Data ==
    /\ Doing("Data")
    /\ LET b == Arg(2)
       IN  Write(b, Bank[b], [Header |-> Bank[b].Header, Log |-> Bank[b].Log])
    /\ Then(<<>>)
    /\ UNCHANGED <<Active, TBank, Sequence, EfiAtRuntime, caller>>

\* Mutant: the new bank is not listed.
Activated_Not(s, b) == Active[s]

Activated(s, b) == Append(Active[s], b)

Activate ==
    /\ Doing("Activate")
    /\ LET s == StoreOf[Arg(2)]
       IN  /\ Active' = [Active EXCEPT ![s] = Activated(s, Arg(2))]
           /\ Then(<< <<"GetTBank", s>> >>)
    /\ UNCHANGED <<nv, Bank, TBank, Sequence, EfiAtRuntime, caller, errors>>

\* RtVarGetTransactionBank: reset the sequence numbers if they are used up,
\* then take the first empty bank from the list.
GetTBank ==
    /\ Doing("GetTBank")
    /\ LET s == Arg(2)
           best == EmptyBank(s)
       IN  IF Sequence[s] = VARH_MAX_SEQUENCE
           THEN /\ Sequence' = [Sequence EXCEPT ![s] = 0]
                /\ todo' = [k \in DOMAIN Active[s] |-> <<"ResetSequence", Active[s][k]>>] \o todo
                /\ UNCHANGED <<Active, TBank>>
           ELSE /\ TBank' = [TBank EXCEPT ![s] = best]
                /\ Active' = [Active EXCEPT ![s] = Without(@, best)]
                /\ Then(<<>>)
                /\ UNCHANGED Sequence
    /\ UNCHANGED <<nv, Bank, EfiAtRuntime, caller, errors>>

ResetSequence ==
    /\ Doing("ResetSequence")
    /\ WriteHeader(Arg(2), [Bank[Arg(2)].Header EXCEPT !.Sequence = 0])
    /\ Then(<<>>)
    /\ UNCHANGED <<Active, TBank, Sequence, EfiAtRuntime, caller>>

-----------------------------------------------------------------------------
(* RtVarFindFreeSpace, RtVarGarbageCollect: collect until there is room *)

Room ==
    /\ Doing("Room")
    /\ LET s == Arg(2)
           b == Collectable(s)
       IN  IF FreeBank(s, Arg(3)) = NoBank /\ b # NoBank
           THEN todo' = << <<"Collect", b>> >> \o todo
           ELSE Then(<<>>)
    /\ UNCHANGED <<nv, memory, caller, errors>>

\* Bank b with another entry.  Behind a gap nobody will find it.
WithEntry(b, e) ==
    IF Bank[b].Gap = 0
    THEN [Bank[b] EXCEPT !.Log = Append(@, e), !.InUse = @ + e.size]
    ELSE [Bank[b] EXCEPT !.Gap = @ + e.size, !.InUse = @ + e.size]

\* Append an entry: SetVariable's new value or RtVarMove's copy.  The model ends at
\* one whose size its Size field cannot tell: what would be read after it are bytes
\* out of the middle of its data.
AppendEntry ==
    /\ Doing("Append")
    /\ LET b == Arg(2)
           r == WithEntry(b, Arg(3))
       IN  IF Arg(3).size > VAR_SIZE_MASK
           THEN todo' = << <<"Misread", b>> >> /\ UNCHANGED <<nv, Bank, errors>>
           ELSE /\ Write(b, r, [nv[b] EXCEPT !.Log = r.Log])
                /\ IF request # NoRequest /\ Bank'[b].DeviceError
                   THEN todo' = Return("error") ELSE Then(<<>>)
    /\ UNCHANGED <<Active, TBank, Sequence, EfiAtRuntime, caller>>

\* RtVarUpdateState: mark an entry as in transition or as obsolete.  Only
\* SetVariable looks at the result.
\* Mutant: the space of an obsolete entry stays accounted for.
Freed_Not(e, state) == 0

Freed(e, state) == IF state = "dead" THEN e.size ELSE 0

Marked(e, state) == IF state = "dead" THEN Dead(e.size) ELSE [e EXCEPT !.state = state]

Mark ==
    /\ Doing("Mark")
    /\ LET b == Arg(2)
           e == Bank[b].Log[Arg(3)]
           log == [Bank[b].Log EXCEPT ![Arg(3)] = Marked(e, Arg(4))]
           used == Bank[b].InUse - Freed(e, Arg(4))
       IN  /\ Write(b, [Bank[b] EXCEPT !.Log = log, !.InUse = used], [nv[b] EXCEPT !.Log = log])
           /\ IF request # NoRequest /\ Bank'[b].DeviceError
              THEN todo' = Return("error") ELSE Then(<<>>)
    /\ UNCHANGED <<Active, TBank, Sequence, EfiAtRuntime, caller>>

-----------------------------------------------------------------------------
(* FwNvStoreInstalled: add every bank, repair the stores, then the variables *)

\* The loops over the stores do nothing for a store without banks.
Boot ==
    LET InUse(s) == \E b \in BankNo : StoreOf[b] = s
        CheckBanks == [s \in Store |-> IF InUse(s) THEN << <<"GetTBank", s>>, <<"Repair", s>> >> ELSE <<>>]
        CheckBank == [s \in Store |-> IF InUse(s) THEN << <<"Check", s, 1, 1>> >> ELSE <<>>]
    IN  [b \in BankNo |-> <<"AddBank", b>>] \o VariableStore(CheckBanks) \o VariableStore(CheckBank)

\* VarStoreAddBank: what is not a bank, or was never committed, is cleared.
Uncommitted(h) ==
    \/ ~ h.Signature
    \/ "ADD_TRANSITION" \in h.State /\ "INUSE_TRANSITION" \notin h.State

AddBank ==
    /\ Doing("AddBank")
    /\ LET b == Arg(2)
           s == StoreOf[b]
           h == nv[b].Header
       IN  /\ Bank' = [Bank EXCEPT ![b] = NewBankRecord(nv[b])]
           /\ IF Uncommitted(h)
              THEN /\ Then(ClearStore(b) \o << <<"Scan", b>> >>)
                   /\ UNCHANGED <<Active, Sequence>>
              ELSE /\ Then(<< <<"Scan", b>> >>)
                   /\ IF h.Sequence >= Sequence[s]
                      THEN /\ Active' = [Active EXCEPT ![s] = Append(@, b)]
                           /\ Sequence' = [Sequence EXCEPT ![s] = h.Sequence]
                      ELSE /\ Active' = [Active EXCEPT ![s] = <<b>> \o @]
                           /\ UNCHANGED Sequence
    /\ UNCHANGED <<nv, TBank, EfiAtRuntime, caller, errors>>

\* The first entry that reaches too far beyond its bank, or 0.  The test leaves
\* sizeof(VARIABLE) out.
Upto(log, i) == Tail_(SubSeq(log, 1, i))

CorruptEntry(log) ==
    LET bad == {i \in DOMAIN log : Upto(log, i) - SIZEOF_VARIABLE > BankSize}
    IN  IF bad = {} THEN 0 ELSE Min(bad)

\* The rest of VarStoreAddBank reads the entries.  A bank with an error is
\* removed, a corrupt one is erased; but its Tail is set to where the corrupt
\* entry began.
Scan ==
    /\ Doing("Scan")
    /\ LET b == Arg(2)
           s == StoreOf[b]
           log == nv[b].Log
           Lost == Active' = [Active EXCEPT ![s] = Without(@, b)] /\ Then(<<>>) /\ UNCHANGED Bank
       IN  \/ Bank[b].DeviceError /\ Lost /\ UNCHANGED errors
           \/ ~ Bank[b].DeviceError /\ errors < MaxErrors /\ Lost /\ errors' = errors + 1
           \/ /\ ~ Bank[b].DeviceError
              /\ IF CorruptEntry(log) # 0
                 THEN /\ Then(ClearStore(b) \o << <<"Truncate", b, Upto(log, CorruptEntry(log) - 1)>> >>)
                      /\ UNCHANGED Bank
                 ELSE /\ Bank' = [Bank EXCEPT ![b].Log = log,
                                            ![b].InUse = Live(log)]
                      /\ Then(<<>>)
              /\ UNCHANGED <<Active, errors>>
    /\ UNCHANGED <<nv, TBank, Sequence, EfiAtRuntime, caller>>

\* ... after its new header was written once more.
Truncate ==
    /\ Doing("Truncate")
    /\ LET b == Arg(2)
           s == StoreOf[b]
       IN  /\ Write(b, [Bank[b] EXCEPT !.Gap = Arg(3) - FIRST_VARIABLE_OFFSET],
                       [nv[b] EXCEPT !.Header = Bank[b].Header])
           /\ Active' = IF Bank'[b].DeviceError THEN [Active EXCEPT ![s] = Without(@, b)] ELSE Active
    /\ Then(<<>>)
    /\ UNCHANGED <<TBank, Sequence, EfiAtRuntime, caller>>

\* VarCheckBanks, first half: complete a change-over that was interrupted.
Obsoleted(s) == {b \in Range(Active[s]) : "OBSOLETE_TRANSITION" \in Bank[b].Header.State}

Arriving(s) == {b \in Range(Active[s]) : /\ "INUSE_TRANSITION" \in Bank[b].Header.State
                                         /\ "INUSE" \notin Bank[b].Header.State}

\* Mutant: the new bank is not marked once the old one is cleared.
CommitArriving_Not(b) == <<>>

CommitArriving(b) == << <<"BankState", b, "INUSE">> >>

Repair ==
    /\ Doing("Repair")
    /\ LET s == Arg(2)
           old == CHOOSE b \in Obsoleted(s) : TRUE
           new == CHOOSE b \in Arriving(s) : TRUE
       IN  CASE Arriving(s) = {} /\ Obsoleted(s) # {} -> Then(<< <<"Collect", old>> >>)
             [] Arriving(s) # {} /\ Obsoleted(s) # {} ->
                    Then(ClearStore(old) \o CommitArriving(new))
             [] Arriving(s) # {} /\ Obsoleted(s) = {} -> Then(CommitArriving(new))
             [] OTHER -> Then(<<>>)
    /\ UNCHANGED <<nv, memory, caller, errors>>

\* VarCheckBank: entries in transition, and second copies of a variable.
Suspect(b, i) ==
    LET e == Bank[b].Log[i]
    IN  Valid(e) /\ (e.state = "trans" \/ RtVarFind(e.name) # [bank |-> b, index |-> i])

Check ==
    /\ Doing("Check")
    /\ LET s == Arg(2)
           k == Arg(3)
           b == Active[s][k]
           bad == {i \in Arg(4) .. Len(Bank[b].Log) : Suspect(b, i)}
           i == Min(bad)
           e == Bank[b].Log[i]
           free == FreeBank(s, e.size)
           remove == << <<"Mark", b, i, "dead">>, <<"Check", s, k, i + 1>> >>
       IN  IF k > Len(Active[s]) THEN Then(<<>>)
           ELSE IF bad = {} THEN Then(<< <<"Check", s, k + 1, 1>> >>)
           ELSE IF e.state = "added" \/ RtVarFind(e.name) # NotFound THEN Then(remove)
           ELSE IF free # NoBank
           THEN Then(<< <<"Append", free, [e EXCEPT !.state = "added"]>> >> \o remove)
           ELSE IF Collectable(s) # NoBank
           THEN Then(<< <<"Room", s, e.size>>, <<"Check", s, 1, 1>> >>)
           ELSE Then(remove)
    /\ UNCHANGED <<nv, memory, caller, errors>>

-----------------------------------------------------------------------------
(* The services *)

\* The store that SetVariable writes to.
StoreFor(attr) ==
    IF Active[attr] = <<>> /\ attr \notin RuntimeStore
    THEN IF attr \in NonVolatile THEN "NV+BS+RT" ELSE "BS+RT"
    ELSE attr

SetVariable(n, v, attr) ==
    LET s == StoreFor(attr)
    IN  /\ todo = <<>>
        /\ EfiAtRuntime => v = None \/ s = "NV+BS+RT"
        /\ request' = [name |-> n, val |-> v, kept |-> IF s \in NonVolatile THEN v ELSE None]
        /\ todo' = IF v = None THEN << <<"Delete">> >>
                   ELSE << <<"Room", s, VarSize[n][v]>>, <<"Replace", s, attr \in RuntimeStore>> >>
        /\ UNCHANGED <<nv, memory, status, errors>>

Delete ==
    /\ Doing("Delete")
    /\ LET old == RtVarFind(request.name)
       IN  todo' = IF old = NotFound THEN Return("error")
                   ELSE << <<"Mark", old.bank, old.index, "dead">> >> \o Return("success")
    /\ UNCHANGED <<nv, memory, caller, errors>>

\* Mutant: the stores are not compared.
SameValue_AnyStore(old, s, v) == EntryAt(old).val = v

\* The store already holds this value.
SameValue(old, s, v) == StoreOf[old.bank] = s /\ EntryAt(old).val = v

Supersede(old) == << <<"Mark", old.bank, old.index, "dead">> >>

Replace ==
    /\ Doing("Replace")
    /\ LET n == request.name
           v == request.val
           s == Arg(2)
           free == FreeBank(s, VarSize[n][v])
           old == RtVarFind(n)
           add == << <<"Append", free, Added(n, v, Arg(3))>> >>
       IN  todo' = IF free = NoBank THEN Return("error")
                   ELSE IF old = NotFound THEN add \o Return("success")
                   ELSE IF SameValue(old, s, v) THEN Return("success")
                   ELSE << <<"Mark", old.bank, old.index, "trans">> >> \o add
                        \o Supersede(old) \o Return("success")
    /\ UNCHANGED <<nv, memory, caller, errors>>

ReturnStatus ==
    /\ Doing("Return")
    /\ todo' = <<>> /\ request' = NoRequest /\ status' = Arg(2)
    /\ UNCHANGED <<nv, memory, errors>>

ExitBootServices ==
    /\ OsBoots /\ todo = <<>> /\ ~ EfiAtRuntime
    /\ EfiAtRuntime' = TRUE
    /\ UNCHANGED <<nv, Bank, Active, TBank, Sequence, todo, caller, errors>>

-----------------------------------------------------------------------------
(* Power failures *)

\* What a write that is under way may leave on the device.  Updates are made
\* in LSb to MSb order, so the state byte of an entry comes last, and the
\* transition bit of a state before its obsolete bit.
Torn(b) ==
    LET Log(log) == [nv EXCEPT ![b].Log = log]
    IN  IF Bank[b].DeviceError \/ StoreOf[b] \notin NonVolatile THEN {}
        ELSE CASE Doing("Append") /\ Bank[b].Gap = 0 ->
                      {Log(Append(nv[b].Log, Dead(size))) : size \in GarbledSizes \cup {Arg(3).size}}
               [] Doing("Mark") -> IF Arg(4) = "dead"
                                   THEN {Log([nv[b].Log EXCEPT ![Arg(3)] = Marked(@, "trans")])}
                                   ELSE {}
               [] Doing("Data") -> {Log(SubSeq(Bank[b].Log, 1, k)) : k \in DOMAIN Bank[b].Log}
               [] OTHER -> {}

\* An entry was written behind a gap, or one that cannot be read.  The model does not
\* follow a power failure then: recovery would write over what it takes for empty.
Hidden ==
    \/ \E b \in BankNo : Bank[b].Gap # 0 /\ Bank[b].InUse # FIRST_VARIABLE_OFFSET
    \/ Doing("Misread")

PowerLoss ==
    /\ ~ Hidden
    /\ nv' \in {nv} \cup (IF Doing("Append") \/ Doing("Mark") \/ Doing("Data")
                          THEN Torn(Arg(2)) ELSE {})
    /\ Bank' = [b \in BankNo |-> NewBankRecord(Blank)]
    /\ Active' = [s \in Store |-> <<>>]
    /\ TBank' = [s \in Store |-> NoBank]
    /\ Sequence' = [s \in Store |-> 0]
    /\ EfiAtRuntime' = FALSE
    /\ todo' = Boot
    /\ request' = NoRequest /\ status' = "none"
    /\ UNCHANGED errors

-----------------------------------------------------------------------------
Init ==
    /\ nv = Factory
    /\ Bank = [b \in BankNo |-> NewBankRecord(Blank)]
    /\ Active = [s \in Store |-> <<>>]
    /\ TBank = [s \in Store |-> NoBank]
    /\ Sequence = [s \in Store |-> 0]
    /\ EfiAtRuntime = FALSE
    /\ todo = Boot
    /\ request = NoRequest /\ status = "none"
    /\ errors = 0

Step ==
    \/ Zero \/ Erase \/ NewHeader \/ UpdateBankState
    \/ Collect \/ Data \/ Activate \/ GetTBank \/ ResetSequence
    \/ Room \/ AppendEntry \/ Mark
    \/ AddBank \/ Scan \/ Truncate \/ Repair \/ Check
    \/ Delete \/ Replace \/ ReturnStatus

Call ==
    \/ \E c \in Calls : SetVariable(c[1], c[2], c[3])
    \/ ExitBootServices

Next == Step \/ Call \/ PowerLoss

Spec == Init /\ [][Next]_vars

-----------------------------------------------------------------------------
(* Properties *)

\* The value of n that recovery makes of what the device holds: the first
\* copy that is not marked, or else the copy in transition.  A bank that a
\* collection has not committed does not count, nor one whose replacement is
\* committed.
Committed(b) ==
    /\ ~ Uncommitted(nv[b].Header)
    /\ ~ ("OBSOLETE_TRANSITION" \in nv[b].Header.State
          /\ \E c \in BankNo : /\ StoreOf[c] = StoreOf[b]
                               /\ "INUSE_TRANSITION" \in nv[c].Header.State
                               /\ "INUSE" \notin nv[c].Header.State)

Copies(n, state) ==
    UNION {{<<b, i>> : i \in {j \in DOMAIN nv[b].Log : nv[b].Log[j].name = n /\ nv[b].Log[j].state = state}} :
              b \in {c \in BankNo : Committed(c)}}

Stored(n) ==
    LET copies == IF Copies(n, "added") # {} THEN Copies(n, "added") ELSE Copies(n, "trans")
        p == CHOOSE x \in copies : \A y \in copies :
                x[1] < y[1] \/ (x[1] = y[1] /\ x[2] <= y[2])
    IN  IF copies = {} THEN None ELSE nv[p[1]].Log[p[2]].val

Map == INSTANCE VariableMap WITH
    value <- [n \in Name |-> Stored(n)],
    request <- IF request = NoRequest THEN NoRequest
               ELSE [name |-> request.name, val |-> request.kept],
    done <- request # NoRequest /\ Stored(request.name) = request.kept

\* The store implements the atomic map of the non-volatile variables, wherever
\* the power fails in SetVariable, garbage collection or recovery itself.
Atomic == Map!Spec

\* Between services GetVariable returns what the device holds, and a variable
\* that was made volatile has left no copy there.
ReadsBack ==
    todo = <<>> => \A n \in Name :
        LET p == RtVarFind(n)
        IN  Stored(n) = IF p # NotFound /\ StoreOf[p.bank] \in NonVolatile THEN GetVariable(n)
                        ELSE None

\* InUse counts the entries of a bank that can be found, which is what the tests for
\* free space and for garbage rely on (varapi.c, vgarbage.c), and no entry reaches beyond
\* the end of its bank: not while an update marks and appends, nor after collections and
\* recoveries.  Does not hold for a bank that was found corrupt: behind the gap entries
\* are counted and cannot be found.
SpaceKept == \A b \in BankNo : Bank[b].InUse = Live(Bank[b].Log) /\ DataTail(b) <= BankSize

\* Three assertions, of VarCheckBanks (varinit.c:366 and 371) and of
\* RtVarGetTransactionBank (vgarbage.c:303): a store never has two banks of the same kind
\* in transition, nor a second transaction bank.  The first two for stores of at most two
\* banks: with three banks and a device error they fail.
BanksOf(s) == {b \in BankNo : StoreOf[b] = s}

OneTransition ==
    /\ Doing("Repair") /\ Cardinality(BanksOf(Arg(2))) <= 2 =>
           /\ Cardinality(Obsoleted(Arg(2))) <= 1
           /\ Cardinality(Arriving(Arg(2))) <= 1
    /\ Doing("GetTBank") => TBank[Arg(2)] = NoBank

\* After recovery a store with two good banks has a transaction bank; without
\* one SetVariable finds no space until the next boot.  Does not hold: VarCheckBanks
\* takes the transaction bank before it finishes a change-over.
HasTBank ==
    todo = <<>> /\ errors = 0 =>
        \A s \in Store : Cardinality(BanksOf(s)) >= 2 => TBank[s] # NoBank

\* Between services the transaction bank is a clear one: a collection that is
\* interrupted must not find it committed already.
TBankClear ==
    todo = <<>> => \A s \in Store : TBank[s] # NoBank => nv[TBank[s]].Header.State = {}

\* While a bank is erased, another one holds what was valid in it.
OldCopyKept ==
    Doing("Erase") => \A e \in Range(nv[Arg(2)].Log) : Valid(e) =>
        \E c \in BankNo \ {Arg(2)} : \E f \in Range(nv[c].Log) :
            Valid(f) /\ f.name = e.name /\ f.val = e.val

\* Nothing is lost in a collection, and none starts that could lose something when it
\* is interrupted.
CollectionsSafe == TBankClear /\ OldCopyKept

\* "Due to the way data is written to the banks, a bank should never become corrupt"
\* (varinit.c:712): wherever the power fails, the entries that recovery finds in a bank
\* end within it.  Needs a device that writes the two bytes of an entry's size as one.
NeverCorrupt == Doing("Scan") => Tail_(nv[Arg(2)].Log) <= BankSize

\* What the callers of SetVariable owe: names short enough for the Size field, since only
\* the data is bounded (varapi.c:405).
SizesTold == \A n \in Name : \A v \in Val : VarSize[n][v] <= VAR_SIZE_MASK

\* What is on the device at first lies within the banks.
FactoryFits == \A b \in BankNo : Tail_(Factory[b].Log) <= BankSize

\* The contract of UpdateStore: apart from erasing a bank, the firmware only
\* clears bits.
OnlyClears(old, new) ==
    \/ new = Blank
    \/ new.Header = NoHeader /\ new.Log = old.Log
    \/ /\ \/ old.Header = NoHeader /\ old.Log = <<>>
          \/ /\ old.Header.Signature = new.Header.Signature
             /\ old.Header.State \subseteq new.Header.State
             /\ new.Header.Sequence \in {0, old.Header.Sequence}
       /\ Len(old.Log) <= Len(new.Log)
       /\ \A i \in DOMAIN old.Log :
             \/ new.Log[i] = Dead(old.Log[i].size)
             \/ new.Log[i] \in {old.Log[i], Marked(old.Log[i], "trans")}

BitsCleared == [][\A b \in BankNo : OnlyClears(nv[b], nv'[b])]_nv

\* The thread goes on as long as there is power, and in the end there is.
FairSpec == Spec /\ WF_vars(Step) /\ <>[][~ PowerLoss]_vars

\* RtSetVariable, garbage collection and the recovery of FwNvStoreInstalled
\* never loop for ever, however often they collect and start over.
ServiceEnds == (todo # <<>>) ~> (todo = <<>>)

\* Type invariant of the device, of VARIABLE_STORE and of STORAGE_BANK.
TypeOK ==
    /\ nv \in [BankNo -> [Header : Header, Log : Seq(Entry)]]
    /\ Bank \in [BankNo -> [Header : Header, Log : Seq(Entry), InUse : Nat, Gap : Nat,
                            DeviceError : BOOLEAN]]
    /\ Active \in [Store -> Seq(BankNo)]
    /\ TBank \in [Store -> BankNo \cup {NoBank}]
    /\ Sequence \in [Store -> 0 .. VARH_MAX_SEQUENCE]
    /\ EfiAtRuntime \in BOOLEAN
    /\ request \in [name : Name, val : Val \cup {None}, kept : Val \cup {None}] \cup {NoRequest}
    /\ status \in {"none", "success", "error"}
    /\ errors \in 0 .. MaxErrors

\* Of what the store code asserts, the three assertions of OneTransition hold with two
\* banks, also after device errors, torn sizes and in every recovery.  Not among them is
\* ASSERT(FALSE) at varinit.c:399, "need to test", which recovery reaches.
Asserted == TypeOK /\ OneTransition
====
