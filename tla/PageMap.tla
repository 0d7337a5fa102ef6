------------------------------ MODULE PageMap ------------------------------
(***************************************************************************)
(* What the memory services promise about the memory of the machine: every *)
(* page the platform reported has one type, only an allocation or a free   *)
(* changes it, and only from conventional memory to something else or      *)
(* back; a page keeps the attribute it was reported with.                  *)
(***************************************************************************)
EXTENDS Integers

CONSTANTS Page, MemType, Conv, Absent, Attr

VARIABLES
    pages       \* pages[p]: the type and the attribute of page p

Init == pages = [p \in Page |-> [type |-> Absent, attr |-> 0]]

\* The pages a step changes are a range.
Changed == {p \in Page : pages'[p] # pages[p]}

OneRange == \A p, q \in Changed, r \in Page : p <= r /\ r <= q => r \in Changed

\* The platform reports them.
Report ==
    \E t \in MemType, at \in Attr : \A p \in Changed :
        pages[p].type = Absent /\ pages'[p] = [type |-> t, attr |-> at]

\* They are taken from, or given back to, conventional memory.
Convert ==
    \E t \in MemType : \A p \in Changed :
        /\ pages[p].type # Absent
        /\ (t = Conv) # (pages[p].type = Conv)
        /\ pages'[p] = [type |-> t, attr |-> pages[p].attr]

Next ==
    /\ DOMAIN pages' = Page
    /\ OneRange
    /\ Report \/ Convert

Spec == Init /\ [][Next]_pages
====
