------------------------- MODULE MCMigrationDispatch -------------------------
(***************************************************************************)
(* Two writers, a line each, and five scripts: a1 then a2 on one line, b1  *)
(* then b2 on the other, a2 waiting on b1 and b2 on a2, and a sibling of   *)
(* b2 written onto the same head.                                          *)
(***************************************************************************)
EXTENDS MigrationDispatch

CONSTANTS wa, wb, n, a1, a2, b1, b2, sib

MCScripts == {a1, a2, b1, b2, sib}

Script(writer, migration, predecessor, waits) ==
    [sender |-> writer, writer |-> writer, namespace |-> n, migration |-> migration,
     prerequisites |-> <<Registry!Key(writer, n, predecessor)>> \o waits]

MCPlan ==
    [s \in MCScripts |->
        CASE s = a1 -> Script(wa, a1, Genesis, <<>>)
          [] s = a2 -> Script(wa, a2, a1, <<Registry!Key(wb, n, b1)>>)
          [] s = b1 -> Script(wb, b1, Genesis, <<>>)
          [] s = b2 -> Script(wb, b2, b1, <<Registry!Key(wa, n, a2)>>)
          [] OTHER  -> Script(wb, sib, b1, <<>>)]
=============================================================================
