---------------------------- MODULE VariableMap ----------------------------
(***************************************************************************)
(* What SetVariable promises about the non-volatile variables              *)
(* (INC/protocol/efivar.h, "By default the FW will update variables and    *)
(* storage banks in an atomic manner"): a request takes effect at once or  *)
(* not at all, also when the power fails; a request that returns success   *)
(* has taken effect; and nothing else changes a variable, whatever else    *)
(* the store does to its banks.                                            *)
(***************************************************************************)
CONSTANTS Name, Val, None, NoRequest

VARIABLES
    value,      \* value[n]: the value of variable n, or None
    request,    \* the SetVariable in progress: a name and its new value
    done,       \* the request has taken effect
    status      \* how the last request ended

vars == <<value, request, done, status>>

Init ==
    /\ value \in [Name -> Val \cup {None}]
    /\ request = NoRequest
    /\ done = FALSE
    /\ status = "none"

\* A call of SetVariable; v = None deletes the variable.
Begin(n, v) ==
    /\ request = NoRequest
    /\ request' = [name |-> n, val |-> v]
    /\ done' = (value[n] = v)
    /\ UNCHANGED <<value, status>>

Commit ==
    /\ request # NoRequest /\ ~ done
    /\ value' = [value EXCEPT ![request.name] = request.val]
    /\ done' = TRUE
    /\ UNCHANGED <<request, status>>

\* The call returns EFI_SUCCESS.
Succeed ==
    /\ request # NoRequest /\ done
    /\ request' = NoRequest /\ done' = FALSE /\ status' = "success"
    /\ UNCHANGED value

\* The call returns an error.
Fail ==
    /\ request # NoRequest
    /\ request' = NoRequest /\ done' = FALSE /\ status' = "error"
    /\ UNCHANGED value

\* The power fails, during a call or not.
PowerLoss ==
    /\ request' = NoRequest /\ done' = FALSE /\ status' = "none"
    /\ UNCHANGED value

Next ==
    \/ \E n \in Name, v \in Val \cup {None} : Begin(n, v)
    \/ Commit \/ Succeed \/ Fail \/ PowerLoss

Spec == Init /\ [][Next]_vars
====
