------------------------- MODULE MCMigrationRegistry -------------------------
(***************************************************************************)
(* MigrationRegistry with one writer, the line of two migrations it keeps  *)
(* in n1, the line of one migration it keeps in n2, and one delegate.      *)
(***************************************************************************)
EXTENDS MigrationRegistryLog, TLC

CONSTANTS w, d, n1, n2, m1, m2

Call(writer, namespace, migration, prerequisites) ==
    [writer |-> writer, namespace |-> namespace, migration |-> migration,
     prerequisites |-> prerequisites]

\* The lists a call names: a head of its line, alone or with a record it
\* waits on, which may be one of its own line.
ListsFor(namespace, heads) ==
    LET waits == {Key(w, n1, m1), Key(w, n1, m2), Key(w, n2, m1)} IN
    {<<Key(w, namespace, h)>> : h \in heads}
    \cup {<<Key(w, namespace, h), wait>> : h \in heads, wait \in waits}

WellFormedCalls ==
    {Call(w, n1, m, list) : m \in {m1, m2}, list \in ListsFor(n1, {Genesis, m1, m2})}
    \cup {Call(w, n2, m1, list) : list \in ListsFor(n2, {Genesis, m1})}

\* One call for each mistake a caller can make.
MalformedCalls ==
    LET genesis == Key(w, n1, Genesis) IN
    {Call(ZeroAddress, n1, m1, <<genesis>>),
     Call(w, ZeroBytes32, m1, <<Key(w, ZeroBytes32, Genesis)>>),
     Call(w, n1, ZeroBytes32, <<genesis>>),
     Call(w, n1, Genesis, <<genesis>>),
     Call(w, n1, m1, <<>>),
     Call(w, n1, m1, <<Key(w, n1, ZeroBytes32)>>),
     Call(w, n1, m1, <<Key(w, n2, Genesis)>>),
     Call(w, n1, m1, <<Key(d, n1, Genesis)>>),
     Call(w, n1, m1, <<genesis, Key(ZeroAddress, n1, m1)>>),
     Call(w, n1, m1, <<genesis, Key(w, ZeroBytes32, m1)>>),
     Call(w, n1, m1, <<genesis, Key(w, n2, ZeroBytes32)>>),
     Call(w, n1, m1, <<genesis, Key(w, n2, Genesis)>>)}

MCCalls == WellFormedCalls \cup MalformedCalls

MCDelegations == {<<w, d>>, <<w, ZeroAddress>>}

=============================================================================
