----------------------------- MODULE MCIndexer ------------------------------
(***************************************************************************)
(* One account that binds one name, as one type and another that decodes   *)
(* lossily, and writes one line of two migrations, with a delegate of it   *)
(* and metas that claim the right preimages and others.                    *)
(***************************************************************************)
EXTENDS Indexer

CONSTANTS a, d, x, v, t1, t2, n, m1, m2

Bind(name, valueType) == [authority |-> a, name |-> name, valueType |-> valueType, value |-> v]

MCConfigCalls == {Bind(x, t1), Bind(x, t2)}

Apply(migration, head) ==
    [writer |-> a, namespace |-> n, migration |-> migration,
     prerequisites |-> <<[writer |-> a, namespace |-> n, migration |-> head]>>]

MCMigrationCalls == {Apply(m1, Genesis), Apply(m2, m1)}

MCDelegations == {<<a, d>>}

MCClaims == {<<x, t1>>, <<n, m1>>}
=============================================================================
