------------------------------- MODULE MCExec -------------------------------
(* Small instances of Exec: the levels are TPL_APPLICATION = 1, TPL_CALLBACK *)
(* = 2, TPL_NOTIFY = 3, the check-timer level 4 and TPL_HIGH_LEVEL = 5.      *)
EXTENDS Exec, TLC

CONSTANTS chk, cb, nt, hi, wt, pl, ex, bad

Arg(flags, sig, tpl) == [flags |-> flags, sig |-> sig, tpl |-> tpl, fn |-> TRUE]

AllArgs ==
    (chk :> Arg({"NOTIFY_SIGNAL"}, 0, 4)) @@
    (cb  :> Arg({"NOTIFY_SIGNAL"}, 0, 2)) @@
    (nt  :> Arg({"NOTIFY_SIGNAL"}, 0, 3)) @@
    (hi  :> Arg({"NOTIFY_SIGNAL"}, 0, 5)) @@
    (wt  :> Arg({"TIMER", "NOTIFY_WAIT"}, 0, 3)) @@
    (pl  :> Arg({"TIMER"}, 0, 0)) @@
    (ex  :> Arg({"NOTIFY_SIGNAL"}, 1, 2)) @@
    (bad :> Arg({"TIMER"}, 3, 0))

MCArgs == [e \in Event |-> AllArgs[e]]
WaitPlain == <<pl>>
WaitNotify == <<wt>>
WaitNone == <<>>
====
