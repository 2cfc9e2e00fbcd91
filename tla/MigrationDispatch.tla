-------------------------- MODULE MigrationDispatch --------------------------
(***************************************************************************)
(* Migration scripts dispatched against one chain's MigrationRegistry, the *)
(* use src/lib/LibMigrationRegistry.sol is written for.  A script is fixed *)
(* when it is written: the account that executes its batch, the line it    *)
(* writes, its migration, and the list it is applied after.  Its batch is  *)
(* the migration's own effects followed, as the LAST call, by the registry *)
(* write that applyMigrationV4Call built, so both land or neither does.    *)
(*                                                                         *)
(* Between building and landing a batch is with signers or in a mempool:   *)
(* it may be dispatched again, land in any order, land late, or be lost.   *)
(***************************************************************************)
EXTENDS Naturals, Sequences, SequencesExt, FiniteSets

CONSTANTS
    Accounts, ZeroAddress, Namespaces, Migrations, ZeroBytes32, Genesis, MaxTime,
    Scripts,    \* the scripts
    Plan,       \* script -> [sender, writer, namespace, migration, prerequisites]
    MaxCopies   \* bound on the copies of one batch outstanding at once

VARIABLES
    sApproved, sApprovedUnscoped, sRecords, sHead, now,     \* MigrationRegistry
    registryLive,   \* the registry's code is at its pinned address
    outstanding,    \* script -> copies of its batch built and not yet executed
    ran             \* the scripts whose effects took place, in order

registryState == <<sApproved, sApprovedUnscoped, sRecords, sHead, now>>
vars == <<sApproved, sApprovedUnscoped, sRecords, sHead, now,
          registryLive, outstanding, ran>>

Registry == INSTANCE MigrationRegistry WITH
    Calls <- {}, Delegations <- {}

ASSUME DispatchAssumption ==
    /\ Genesis \notin Migrations \cup {ZeroBytes32}
    /\ ZeroBytes32 \notin Migrations
    /\ Plan \in [Scripts -> [sender : Accounts, writer : Registry!Addresses,
                            namespace : Registry!Words, migration : Registry!MigrationWords,
                            prerequisites : Seq(Registry!Prerequisite)]]

\* The registry and the scripts' effects start from nothing.
Init ==
    /\ Registry!Init
    /\ registryLive = FALSE
    /\ outstanding = [s \in Scripts |-> 0]
    /\ ran = <<>>

-----------------------------------------------------------------------------

\* The registry reaches the chain: the same contract at the same address.
DeployRegistry ==
    /\ ~registryLive
    /\ registryLive' = TRUE
    /\ UNCHANGED <<registryState, outstanding, ran>>

\* Mutant: the call is built without looking at the chain.
checkCodeHashLost == TRUE

\* An absent registry, or any other code at the address, is refused.
checkCodeHash == registryLive

\* A script builds its batch: the first time, or again by an operator who
\* cannot tell a late batch from a lost one.
Dispatch(s) ==
    /\ checkCodeHash
    /\ outstanding[s] < MaxCopies
    /\ outstanding' = [outstanding EXCEPT ![s] = @ + 1]
    /\ UNCHANGED <<registryState, registryLive, ran>>

\* The batch's last call: the write the script named.
RegistryWrite(s) ==
    Registry!applyMigrationV5(Plan[s].sender, Plan[s].writer, Plan[s].namespace,
                              Plan[s].migration, Plan[s].prerequisites)

\* Mutant: the effects and the write are sent as two transactions.
LandInTwo(s) ==
    /\ outstanding[s] > 0
    /\ RegistryWrite(s) \/ UNCHANGED registryState
    /\ outstanding' = [outstanding EXCEPT ![s] = @ - 1]
    /\ ran' = Append(ran, s)
    /\ UNCHANGED registryLive

\* A batch executes.  A low-level call into an empty account succeeds and
\* does nothing; the registry's refusal reverts the whole batch.
Land(s) ==
    /\ outstanding[s] > 0
    /\ IF registryLive THEN RegistryWrite(s) ELSE UNCHANGED registryState
    /\ outstanding' = [outstanding EXCEPT ![s] = @ - 1]
    /\ ran' = Append(ran, s)
    /\ UNCHANGED registryLive

\* A batch is lost, or executes and reverts: either way it is gone.
Drop(s) ==
    /\ outstanding[s] > 0
    /\ outstanding' = [outstanding EXCEPT ![s] = @ - 1]
    /\ UNCHANGED <<registryState, registryLive, ran>>

\* A later block.
Tick ==
    /\ Registry!Tick
    /\ UNCHANGED <<registryLive, outstanding, ran>>

Next ==
    \/ DeployRegistry
    \/ Tick
    \/ \E s \in Scripts : Dispatch(s) \/ Land(s) \/ Drop(s)

\* The registry is deployed, time passes, an operator keeps dispatching a
\* script, and a batch that keeps coming back while it would succeed is not
\* lost for ever.
Fairness ==
    /\ WF_vars(DeployRegistry)
    /\ WF_vars(Tick)
    /\ \A s \in Scripts : WF_vars(Dispatch(s)) /\ SF_vars(Land(s))

Spec == Init /\ [][Next]_vars /\ Fairness

-----------------------------------------------------------------------------
(* What the dispatch promises.                                             *)

Ran == {ran[i] : i \in DOMAIN ran}

KeyOf(s) == Registry!Key(Plan[s].writer, Plan[s].namespace, Plan[s].migration)

\* The variables hold values of their types.
TypeOK ==
    /\ Registry!TypeOK
    /\ registryLive \in BOOLEAN
    /\ outstanding \in [Scripts -> Nat]
    /\ ran \in Seq(Scripts)

\* However often a batch is dispatched, its effects take place once.
\* (IMigrationRegistryV5, MigrationAlreadyApplied.)
EffectsHappenOnce == IsInjective(ran)

\* Effects and record are one fact: a reader that branches on appliedV5 is
\* in the branch of what really ran.
EffectsAreRecorded ==
    {KeyOf(s) : s \in Ran} = Registry!Recorded

\* Whatever order batches land in, a script's effects follow those of every
\* script whose record its list names: its predecessor's and those it waits
\* on in other lines.
EffectsFollowTheirPrerequisites ==
    \A i \in DOMAIN ran : \A j \in DOMAIN Plan[ran[i]].prerequisites :
        LET named == Plan[ran[i]].prerequisites[j] IN
        named.migration # Genesis => \E k \in 1..(i - 1) : KeyOf(ran[k]) = named

\* The history that a dispatch comes to.
History == INSTANCE MigrationHistory WITH
    Line <- [s \in Scripts |-> <<Plan[s].writer, Plan[s].namespace>>],
    Target <- [s \in Scripts |-> KeyOf(s)],
    After <- [s \in Scripts |-> Plan[s].prerequisites],
    Starts <- {key \in Registry!Prerequisite : key.migration = Genesis},
    history <- ran

\* Batches built early, dispatched twice, landing late or out of order and
\* lost come to nothing but a history in which every script continues its
\* line from where the line really is, once, after all it waits on: in every
\* step effects take place as MigrationHistory allows, or none do.
\* (LibMigrationRegistry and the checks of applyMigrationV5.)
ImplementsHistory == History!Spec

\* Some other script has been applied onto the head s was written for.
Overtaken(s) ==
    \E t \in Ran \ {s} : Head(Plan[t].prerequisites) = Head(Plan[s].prerequisites)

\* Retried for ever, every script takes effect or is found to have lost its
\* head to a sibling: prerequisites across lines never leave two lines
\* waiting on each other.
EveryScriptSettles == \A s \in Scripts : <>(s \in Ran \/ Overtaken(s))

=============================================================================
