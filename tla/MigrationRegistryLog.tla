------------------------ MODULE MigrationRegistryLog ------------------------
(***************************************************************************)
(* MigrationRegistry implements MigrationLog: the log of a line is the     *)
(* chain that its head and appliedOntoV5 spell, read from genesis up.      *)
(***************************************************************************)
EXTENDS MigrationRegistry

\* `chain' is all of `applied', each onto the one before it, up to `head'.
IsChain(applied, onto, head, chain) ==
    /\ \A m \in applied : \E i \in DOMAIN chain : chain[i] = m
    /\ \A i \in DOMAIN chain : onto[chain[i]] = IF i = 1 THEN Genesis ELSE chain[i - 1]
    /\ head = IF applied = {} THEN Genesis ELSE chain[Cardinality(applied)]

\* There is one at most.
Chains(applied, onto, head) ==
    {chain \in [1..Cardinality(applied) -> applied] : IsChain(applied, onto, head, chain)}

OntoIn(line) == [m \in AppliedIn(line) |-> appliedOntoV5(Key(line[1], line[2], m))]

WaitsOf(list) == {<<LineOf(list[i]), list[i].migration>> : i \in 2..Len(list)}

\* What a record says, its place in the chain left out.
Entry(key) ==
    [migration |-> key.migration, at |-> appliedV5(key),
     waits |-> WaitsOf(appliedAfterV5(key)), by |-> appliedByV5(key)]

LogsOf(line) ==
    {[i \in DOMAIN chain |-> Entry(Key(line[1], line[2], chain[i]))] :
         chain \in Chains(AppliedIn(line), OntoIn(line), HeadOf(line))}

\* A line that were no chain would have lost its log.
LogOf(line) == IF LogsOf(line) = {} THEN <<>> ELSE CHOOSE log \in LogsOf(line) : TRUE

\* A line that can be written is one of an account and a namespace.
Log == INSTANCE MigrationLog WITH
    Lines <- Accounts \X Namespaces,
    Authors <- Accounts,
    logs <- [line \in Accounts \X Namespaces |-> LogOf(line)]

\* To its readers the registry is a log per line: whatever is called, all that
\* ever happens is that one line gets one more entry at its end, of a migration
\* it has not had, dated no earlier than its last and no later than the block,
\* after entries of other lines that are there; every earlier entry stays, in
\* its place.  (applyMigrationRecord, with the two passes of checkPrerequisites
\* and the one word of storage that is a line's head.)
ImplementsLog == Log!Spec
=============================================================================
