----------------------------- MODULE MCHandles -----------------------------
(* A root handle with a bus driver, and a child with a driver of its own. *)
EXTENDS Handles

MCProtocol == {"bus", "dev", "tag"}
MCDriver == <<"busdrv", "devdrv", "olddrv">>
MCBinds == [d \in Range(MCDriver) |-> IF d = "busdrv" THEN "bus" ELSE "dev"]
MCMakes == [d \in Range(MCDriver) |-> IF d = "busdrv" THEN "dev" ELSE None]

\* The application works with the bus and with a device on it.
MCApp == {DoInstall(New, "bus", "i1"), DoInstallMultiple(New, <<<<"bus", "i1">>, <<"tag", "i1">>>>)}
    \cup {DoDisconnect(x[1], "busdrv", x[2]) : x \in {y \in Handle \X Handle : y[1] # y[2]}}
    \cup UNION {{DoConnectWith(h, <<>>), DoConnectWith(h, <<"olddrv">>),
                 DoReinstall(h, "dev", "i1", "i1"),
                 DoInstallMultiple(h, <<<<"tag", "i1">>, <<"tag", "i1">>>>),
                 DoUninstallMultiple(h, <<<<"tag", "i1">>, <<"bus", "i1">>>>),
                 DoOpen(h, "dev", "app", None, GET), DoOpen(h, "dev", "app", None, EXCLUSIVE),
                 DoOpen(h, "dev", "app", h, DRIVER_EXCLUSIVE),
                 DoClose(h, "dev", "app", None), DoClose(h, "dev", "app", h)} : h \in Handle}

MCCallback ==
    {DoDisconnect(h, None, None) : h \in Handle}
====
