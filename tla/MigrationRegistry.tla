-------------------------- MODULE MigrationRegistry --------------------------
(***************************************************************************)
(* src/concrete/MigrationRegistry.sol on one chain: the records each line  *)
(* (a writer and a namespace under it) has applied, the head of each line, *)
(* and the delegates that may write it.                                    *)
(*                                                                         *)
(* The storage is modelled as Solidity has it: every mapping is total and  *)
(* an unwritten slot reads zero.  A record key is the code's Prerequisite  *)
(* struct.  A call the code refuses reverts and leaves no trace, so it is  *)
(* a step that is not enabled; metadata is emitted, never stored, and a    *)
(* revert in it undoes the call, so it is left out.                        *)
(*                                                                         *)
(* Multicall runs a sequence of these calls as one transaction at one      *)
(* block: every state it passes through is one the calls reach one by one. *)
(***************************************************************************)
EXTENDS Naturals, Sequences, FiniteSets

CONSTANTS
    Accounts,           \* the addresses that can send a transaction
    ZeroAddress,        \* address(0)
    Namespaces,         \* the nonzero namespaces
    Migrations,         \* the migration ids, neither zero nor genesis
    ZeroBytes32,        \* bytes32(0)
    Genesis,            \* MIGRATION_HEAD_GENESIS
    Calls,              \* the writes a caller may send, malformed ones included
    Delegations,        \* the <<account, delegate>> pairs it may approve or revoke
    MaxTime             \* bound on block.timestamp

VARIABLES
    sApproved,          \* the scoped delegates (RegistryDelegates)
    sApprovedUnscoped,  \* the unscoped delegates (RegistryDelegates)
    sRecords,           \* writer -> namespace -> migration -> the record
    sHead,              \* writer -> namespace -> the stored head, zero if empty
    now                 \* block.timestamp

registryVars == <<sRecords, sHead>>
vars == <<sApproved, sApprovedUnscoped, sRecords, sHead, now>>

Addresses == Accounts \cup {ZeroAddress}
Words == Namespaces \cup {ZeroBytes32}
MigrationWords == Migrations \cup {ZeroBytes32, Genesis}
Prerequisite == [writer : Addresses, namespace : Words, migration : MigrationWords]
Lines == Addresses \X Words
Times == 0..(MaxTime + 1)

ASSUME ConstantsAssumption ==
    /\ ZeroAddress \notin Accounts
    /\ ZeroBytes32 \notin Namespaces \cup Migrations
    /\ Genesis \notin Migrations \cup {ZeroBytes32}
    /\ Calls \subseteq [writer : Addresses, namespace : Words,
                        migration : MigrationWords, prerequisites : Seq(Prerequisite)]
    /\ Delegations \subseteq Accounts \X Addresses
    /\ MaxTime \in Nat

Delegates == INSTANCE RegistryDelegates WITH
    Scopes <- Words,
    KeyedAccounts <- Accounts,
    KeyedScopes <- Namespaces

-----------------------------------------------------------------------------
(* The state.                                                              *)

MigrationRecord ==
    [appliedAt : Nat, appliedAfter : Seq(Prerequisite), writtenBy : Addresses]

NoRecord == [appliedAt |-> 0, appliedAfter |-> <<>>, writtenBy |-> ZeroAddress]

Key(writer, namespace, migration) ==
    [writer |-> writer, namespace |-> namespace, migration |-> migration]

LineOf(key) == <<key.writer, key.namespace>>

record(key) == sRecords[key.writer][key.namespace][key.migration]

\* A contract is deployed with empty storage, in some block.
Init ==
    /\ Delegates!DelegatesInit
    /\ sRecords = [writer \in Addresses |-> [namespace \in Words |->
                      [migration \in MigrationWords |-> NoRecord]]]
    /\ sHead = [writer \in Addresses |-> [namespace \in Words |-> ZeroBytes32]]
    /\ now = 0

-----------------------------------------------------------------------------
(* The readers.                                                            *)

checkLineKey(writer, namespace) ==
    /\ writer # ZeroAddress
    /\ namespace # ZeroBytes32

checkRecordKey(key) ==
    /\ checkLineKey(key.writer, key.namespace)
    /\ key.migration \notin {ZeroBytes32, Genesis}

appliedV5(key) == record(key).appliedAt

appliedAfterV5(key) == record(key).appliedAfter

appliedOntoV5(key) ==
    IF record(key).appliedAfter = <<>>
    THEN ZeroBytes32
    ELSE Head(record(key).appliedAfter).migration

appliedByV5(key) == record(key).writtenBy

\* Mutant: the zero of an empty line is answered as it is stored.
headV5Untranslated(writer, namespace) == sHead[writer][namespace]

headV5(writer, namespace) ==
    IF sHead[writer][namespace] = ZeroBytes32
    THEN Genesis
    ELSE sHead[writer][namespace]

HeadOf(line) == headV5(line[1], line[2])

-----------------------------------------------------------------------------
(* The checks every write makes, in the order the code makes them.         *)

\* Mutant: GenesisMigration and ZeroTimestamp are not refused.
checkMigrationArgumentsUnchecked(namespace, migration, appliedAt) ==
    /\ namespace # ZeroBytes32
    /\ migration # ZeroBytes32

checkMigrationArguments(namespace, migration, appliedAt) ==
    /\ namespace # ZeroBytes32
    /\ migration \notin {ZeroBytes32, Genesis}
    /\ appliedAt # 0

\* Mutant: the head is compared by its migration alone, the rest of the list
\* is checked.
checkHeadSkipped(writer, namespace, prerequisites) ==
    /\ prerequisites # <<>>
    /\ Head(prerequisites).writer = writer
    /\ Head(prerequisites).namespace = namespace
    /\ \/ Head(prerequisites).migration = Genesis
       \/ checkRecordKey(Head(prerequisites)) /\ appliedV5(Head(prerequisites)) # 0

\* The first entry is this line at the head it really is at.
checkHead(writer, namespace, prerequisites) ==
    /\ prerequisites # <<>>
    /\ Head(prerequisites) = Key(writer, namespace, headV5(writer, namespace))

\* Mutant: the second pass, PrerequisiteNotApplied, is lost.
checkWaitsExistenceLost(writer, namespace, prerequisites) ==
    \A i \in 2..Len(prerequisites) :
        /\ checkRecordKey(prerequisites[i])
        /\ LineOf(prerequisites[i]) # <<writer, namespace>>

\* Every later entry is a record of another line, and it exists.
checkWaits(writer, namespace, prerequisites) ==
    \A i \in 2..Len(prerequisites) :
        /\ checkRecordKey(prerequisites[i])
        /\ LineOf(prerequisites[i]) # <<writer, namespace>>
        /\ appliedV5(prerequisites[i]) # 0

checkPrerequisites(writer, namespace, prerequisites) ==
    /\ checkHead(writer, namespace, prerequisites)
    /\ checkWaits(writer, namespace, prerequisites)

\* Mutant: the moment is bounded by the block only.
checkMomentHeadLost(writer, namespace, prerequisites, appliedAt) ==
    appliedAt <= now

\* TimestampBeforeHead and FutureTimestamp.  Genesis reads a zero moment.
checkMoment(writer, namespace, prerequisites, appliedAt) ==
    /\ appliedAt >= appliedV5(Key(writer, namespace, Head(prerequisites).migration))
    /\ appliedAt <= now

\* Mutant: the head check is taken to make MigrationAlreadyApplied redundant.
checkNotAppliedLost(key) == TRUE

\* MigrationAlreadyApplied.
checkNotApplied(key) == appliedV5(key) = 0

-----------------------------------------------------------------------------
(* The writes.                                                             *)

\* Mutant: the line's head is left where it was.
writeMigrationRecordHeadLost(sender, writer, namespace, migration, appliedAt, prerequisites) ==
    LET key == Key(writer, namespace, migration) IN
    /\ checkNotApplied(key)
    /\ checkMoment(writer, namespace, prerequisites, appliedAt)
    /\ sRecords' = [sRecords EXCEPT ![writer][namespace][migration] =
           [appliedAt |-> appliedAt, appliedAfter |-> prerequisites, writtenBy |-> sender]]
    /\ UNCHANGED sHead

writeMigrationRecord(sender, writer, namespace, migration, appliedAt, prerequisites) ==
    LET key == Key(writer, namespace, migration) IN
    /\ checkNotApplied(key)
    /\ checkMoment(writer, namespace, prerequisites, appliedAt)
    /\ sRecords' = [sRecords EXCEPT ![writer][namespace][migration] =
           [appliedAt |-> appliedAt, appliedAfter |-> prerequisites, writtenBy |-> sender]]
    /\ sHead' = [sHead EXCEPT ![writer][namespace] = migration]

applyMigrationRecord(sender, writer, namespace, migration, appliedAt, prerequisites) ==
    /\ Delegates!checkWrite(sender, writer, namespace)
    /\ checkMigrationArguments(namespace, migration, appliedAt)
    /\ checkPrerequisites(writer, namespace, prerequisites)
    /\ writeMigrationRecord(sender, writer, namespace, migration, appliedAt, prerequisites)
    /\ UNCHANGED <<sApproved, sApprovedUnscoped, now>>

\* The block is the moment.
applyMigrationV5(sender, writer, namespace, migration, prerequisites) ==
    applyMigrationRecord(sender, writer, namespace, migration, now, prerequisites)

\* The caller supplies the moment.
applyMigrationHistoryV5(sender, writer, namespace, migration, appliedAt, prerequisites) ==
    applyMigrationRecord(sender, writer, namespace, migration, appliedAt, prerequisites)

\* Some account applies a migration, now or at a moment it supplies.
ApplyStep ==
    \E sender \in Accounts, call \in Calls :
        \/ applyMigrationV5(sender, call.writer, call.namespace, call.migration,
                            call.prerequisites)
        \/ \E appliedAt \in Times :
               applyMigrationHistoryV5(sender, call.writer, call.namespace, call.migration,
                                       appliedAt, call.prerequisites)

\* Some account changes its own approvals.
DelegationStep ==
    /\ Delegates!DelegationStep
    /\ UNCHANGED <<sRecords, sHead, now>>

\* A later block.  Several calls may land in one block.
Tick ==
    /\ now < MaxTime
    /\ now' = now + 1
    /\ UNCHANGED <<sApproved, sApprovedUnscoped, sRecords, sHead>>

Next == ApplyStep \/ DelegationStep \/ Tick

Spec == Init /\ [][Next]_vars

-----------------------------------------------------------------------------
(* What the registry promises.                                             *)

\* Every variable holds a value of the storage's type.  (The storage layout,
\* src/concrete/MigrationRegistry.sol:12-22 and :93-104.)
TypeOK ==
    /\ Delegates!DelegatesTypeOK
    /\ sRecords \in [Addresses -> [Words -> [MigrationWords -> MigrationRecord]]]
    /\ sHead \in [Addresses -> [Words -> Migrations \cup {ZeroBytes32}]]
    /\ now \in Nat

\* The keys that hold a record, and the migrations a line has applied.
Recorded == {key \in Prerequisite : appliedV5(key) # 0}

AppliedIn(line) == {m \in MigrationWords : appliedV5(Key(line[1], line[2], m)) # 0}

\* A record exists only under a key a reader accepts: never under the zero
\* writer, namespace or migration, and never under genesis.
RecordsAreReadable == \A key \in Recorded : checkRecordKey(key)

\* A record's list begins with its own line, at genesis or at a record.
RecordsJoinTheirLine ==
    \A key \in Recorded :
        LET list == appliedAfterV5(key) IN
        /\ list # <<>>
        /\ list[1] = Key(key.writer, key.namespace, appliedOntoV5(key))
        /\ list[1].migration = Genesis \/ list[1] \in Recorded

\* The rest of its list are records, of other lines.
PrerequisitesExist ==
    \A key \in Recorded : \A i \in 2..Len(appliedAfterV5(key)) :
        /\ appliedAfterV5(key)[i] \in Recorded
        /\ LineOf(appliedAfterV5(key)[i]) # LineOf(key)

\* A line's head is one of its records, or genesis while it has none.
HeadsAreRecorded ==
    \A line \in Lines :
        \/ HeadOf(line) \in AppliedIn(line)
        \/ HeadOf(line) = Genesis /\ AppliedIn(line) = {}

\* The inductive invariant that what follows rests on: storage is typed, and
\* everything a record or a head names is there.  (What checkPrerequisites
\* and writeMigrationRecord keep true, src/concrete/MigrationRegistry.sol.)
StorageIsConsistent ==
    /\ TypeOK
    /\ RecordsAreReadable
    /\ RecordsJoinTheirLine
    /\ PrerequisitesExist
    /\ HeadsAreRecorded

\* From a line's head, each appliedOntoV5 leads through every record of the
\* line down to genesis: whatever contains the head and the predecessor of
\* each record it contains, contains them all.  (IMigrationRegistryV5, "That
\* chain IS the order the migrations ran in".)
HeadReachesEveryRecord ==
    \A line \in {LineOf(key) : key \in Recorded} : \A reached \in SUBSET MigrationWords :
        (/\ HeadOf(line) \in reached
         /\ \A m \in reached \cap AppliedIn(line) :
                appliedOntoV5(Key(line[1], line[2], m)) \in reached)
        => AppliedIn(line) \cup {Genesis} \subseteq reached

\* A line is one sequence: no two of its records were applied onto the same
\* head and none onto the head the line is at, so two scripts that read the
\* same head never both land.
LineNeverForks ==
    \A line \in Lines : \A m \in AppliedIn(line) :
        LET onto == appliedOntoV5(Key(line[1], line[2], m)) IN
        /\ onto # HeadOf(line)
        /\ onto \in AppliedIn(line) \cup {Genesis}
        /\ \A other \in AppliedIn(line) \ {m} :
               appliedOntoV5(Key(line[1], line[2], other)) # onto

\* Along a line's chain the moments never go backwards, and none is later
\* than the block: a consumer subtracts them, or subtracts one from the
\* block, without underflow.
MomentsFollowTheChain ==
    \A key \in Recorded :
        /\ appliedV5(key) <= now
        /\ appliedV5(Key(key.writer, key.namespace, appliedOntoV5(key))) <= appliedV5(key)

\* The records a record was applied after, its predecessor included.
AppliedAfter(key) ==
    {appliedAfterV5(key)[i] : i \in DOMAIN appliedAfterV5(key)}

\* The order across lines is an order: no set of records each waited on
\* another of the same set, however moments were backfilled.
OrderAcrossLinesIsAcyclic ==
    \A cycle \in SUBSET Recorded :
        (\A key \in cycle : AppliedAfter(key) \cap cycle # {}) => cycle = {}

\* A record, once written, never changes: not its moment, its list or its
\* writer, whatever the line applies later and whoever is revoked.
RecordsNeverChange ==
    [][\A key \in Recorded : record(key)' = record(key)]_vars

\* A step moves at most one line, from its head onto a migration the line has
\* never been at, and the new head remembers the old one: a stale or skipped
\* head is refused and a head never returns.
HeadsOnlyAdvance ==
    [][\A line \in Lines : HeadOf(line)' # HeadOf(line) =>
          /\ \E m \in MigrationWords \ AppliedIn(line) :
                 /\ HeadOf(line)' = m
                 /\ appliedOntoV5(Key(line[1], line[2], m))' = HeadOf(line)
          /\ \A other \in Lines \ {line} : HeadOf(other)' = HeadOf(other)]_vars

\* A record appears only in a line its author may write at that moment: its
\* own, one it holds that line's scoped approval for, or one whose writer
\* approved it unscoped.  No other line's approval counts.
RecordsAreAuthorised ==
    [][\A key \in Recorded' \ Recorded :
          \/ appliedByV5(key)' = key.writer
          \/ appliedByV5(key)' \in sApproved[key.writer][key.namespace]
          \/ appliedByV5(key)' \in sApprovedUnscoped[key.writer]]_vars
=============================================================================
