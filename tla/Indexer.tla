------------------------------- MODULE Indexer -------------------------------
(***************************************************************************)
(* The subgraph (subgraph/src) over the events of a ConfigRegistry and a   *)
(* MigrationRegistry on one chain.                                         *)
(*                                                                         *)
(* The chain is the two registries, the blocks their calls land in and the *)
(* events those emit.  The indexer is handed the events of finished blocks *)
(* in order, and may be handed an old one again.  A handler runs to its    *)
(* end against the store, and its contract calls are answered as of the    *)
(* END of the event's block.  A hash stands for what it is the hash of, so *)
(* a meta's subject is the key of the write it is about.  How metas and    *)
(* values are decoded is left out: a meta stands for the two preimages it  *)
(* claims, and a type the node decodes lossily for a type it cannot name.  *)
(***************************************************************************)
EXTENDS Naturals, Sequences, FiniteSets, SequencesExt

CONSTANTS
    Accounts, ZeroAddress, ConfigDelegations, MigrationDelegations, MaxTime,
    Names, Values, EmptyValue, Types, EmptyType, ConfigCalls,
    Namespaces, Migrations, ZeroBytes32, Genesis, MigrationCalls,
    LossyTypes,     \* the value types whose bytes are not what they decode to
    Claims,         \* the pairs of preimages a meta may claim
    NoMeta,         \* the meta of no bytes
    NotSet,         \* an entity's field that is not set
    MaxBlocks,      \* bound on the blocks
    MaxEvents       \* bound on the event log, passed by at most one meta

VARIABLES
    cApproved, cApprovedUnscoped, sBindings, registers, \* ConfigRegistry
    mApproved, mApprovedUnscoped, sRecords, sHead,      \* MigrationRegistry
    now,        \* block.timestamp
    ends,       \* the bindings as each finished block left them
    log,        \* the events, oldest first
    store,      \* the indexer's entities
    indexed     \* the position in the log it has reached

configVars == <<cApproved, cApprovedUnscoped, sBindings, registers>>
migrationVars == <<mApproved, mApprovedUnscoped, sRecords, sHead>>
vars == <<configVars, migrationVars, now, ends, log, store, indexed>>

Config == INSTANCE ConfigRegistry WITH
    sApproved <- cApproved, sApprovedUnscoped <- cApprovedUnscoped,
    Calls <- ConfigCalls, Delegations <- ConfigDelegations, MaxRegisters <- MaxEvents

Migration == INSTANCE MigrationRegistry WITH
    sApproved <- mApproved, sApprovedUnscoped <- mApprovedUnscoped,
    Calls <- MigrationCalls, Delegations <- MigrationDelegations

Addresses == Accounts \cup {ZeroAddress}
Registries == {"config", "migration"}

ASSUME ConstantsAssumption ==
    /\ ZeroAddress \notin Accounts
    /\ EmptyValue \notin Values
    /\ EmptyType \notin Types
    /\ ConfigCalls \subseteq [authority : Addresses, name : Names,
                              valueType : Types \cup {EmptyType}, value : Values \cup {EmptyValue}]
    /\ ConfigDelegations \subseteq Accounts \X Addresses
    /\ ZeroBytes32 \notin Namespaces \cup Migrations
    /\ Genesis \notin Migrations \cup {ZeroBytes32}
    /\ MigrationCalls \subseteq
           [writer : Addresses, namespace : Migration!Words, migration : Migration!MigrationWords,
            prerequisites : Seq(Migration!Prerequisite)]
    /\ MigrationDelegations \subseteq Accounts \X Addresses
    /\ LossyTypes \subseteq Types
    /\ NotSet \notin Types \cup (Names \X Types) \cup (Nat \X Nat)
    /\ NoMeta \notin Claims
    /\ MaxTime \in Nat
    /\ MaxBlocks \in Nat
    /\ MaxEvents \in Nat

-----------------------------------------------------------------------------
(* The chain.                                                              *)

block == Len(ends) + 1

Register(sender, authority, name, valueType, value) ==
    [event |-> "Register", sender |-> sender, authority |-> authority, name |-> name,
     valueType |-> valueType, value |-> value]

Migrated(sender, writer, namespace, migration, appliedAt) ==
    [event |-> "Migrated", sender |-> sender, writer |-> writer, namespace |-> namespace,
     migration |-> migration, appliedAt |-> appliedAt]

DelegateChange(event, sender, scope, delegate) ==
    [event |-> event, sender |-> sender, scope |-> scope, delegate |-> delegate]

UnscopedDelegateChange(event, sender, delegate) ==
    [event |-> event, sender |-> sender, delegate |-> delegate]

\* A write emits its meta, if it has one, straight after its own event.
WithMeta(params, subject, meta) ==
    IF meta = NoMeta
    THEN <<params>>
    ELSE <<params, [event |-> "MetaV1_2", sender |-> params.sender,
                    subject |-> subject, meta |-> meta]>>

\* The call lands in a transaction of its own, or in the one before it when
\* that is of this block: a multicall, or a wallet's batch.
Transactions ==
    IF log # <<>> /\ Last(log).block = block
    THEN {Last(log).transaction, Last(log).transaction + 1}
    ELSE {IF log = <<>> THEN 1 ELSE Last(log).transaction + 1}

Emit(registry, list) ==
    \E transaction \in Transactions :
        log' = log \o [i \in DOMAIN list |->
            [address |-> registry, block |-> block, transaction |-> transaction,
             logIndex |-> Cardinality({j \in DOMAIN log : log[j].block = block}) + i - 1,
             params |-> list[i]]]

Room == Len(log) < MaxEvents

Binds ==
    /\ Room
    /\ \E sender \in Accounts, call \in ConfigCalls, meta \in Claims \cup {NoMeta} :
           /\ Config!registerV5(sender, call.authority, call.name, call.valueType, call.value)
           /\ Emit("config", WithMeta(
                  Register(sender, call.authority, call.name, call.valueType, call.value),
                  <<call.authority, call.name>>, meta))
    /\ UNCHANGED <<migrationVars, ends, store, indexed>>

Applies ==
    /\ Room
    /\ \E sender \in Accounts, call \in MigrationCalls, appliedAt \in 0..now,
          meta \in Claims \cup {NoMeta} :
           /\ Migration!applyMigrationRecord(sender, call.writer, call.namespace,
                  call.migration, appliedAt, call.prerequisites)
           /\ Emit("migration", WithMeta(
                  Migrated(sender, call.writer, call.namespace, call.migration, appliedAt),
                  <<call.writer, call.namespace, call.migration>>, meta))
    /\ UNCHANGED <<configVars, ends, store, indexed>>

ConfigDelegates ==
    /\ Room
    /\ \E pair \in ConfigDelegations :
           \/ \E scope \in Names :
                  \/ /\ Config!Delegates!approveV5(pair[1], scope, pair[2])
                     /\ Emit("config", <<DelegateChange("Approved", pair[1], scope, pair[2])>>)
                  \/ /\ Config!Delegates!revokeV5(pair[1], scope, pair[2])
                     /\ Emit("config", <<DelegateChange("Revoked", pair[1], scope, pair[2])>>)
           \/ /\ Config!Delegates!approveUnscopedV5(pair[1], pair[2])
              /\ Emit("config", <<UnscopedDelegateChange("ApprovedUnscoped", pair[1], pair[2])>>)
           \/ /\ Config!Delegates!revokeUnscopedV5(pair[1], pair[2])
              /\ Emit("config", <<UnscopedDelegateChange("RevokedUnscoped", pair[1], pair[2])>>)
    /\ UNCHANGED <<sBindings, registers, migrationVars, now, ends, store, indexed>>

MigrationDelegates ==
    /\ Room
    /\ \E pair \in MigrationDelegations :
           \/ \E scope \in Namespaces :
                  \/ /\ Migration!Delegates!approveV5(pair[1], scope, pair[2])
                     /\ Emit("migration", <<DelegateChange("Approved", pair[1], scope, pair[2])>>)
                  \/ /\ Migration!Delegates!revokeV5(pair[1], scope, pair[2])
                     /\ Emit("migration", <<DelegateChange("Revoked", pair[1], scope, pair[2])>>)
           \/ /\ Migration!Delegates!approveUnscopedV5(pair[1], pair[2])
              /\ Emit("migration",
                     <<UnscopedDelegateChange("ApprovedUnscoped", pair[1], pair[2])>>)
           \/ /\ Migration!Delegates!revokeUnscopedV5(pair[1], pair[2])
              /\ Emit("migration",
                     <<UnscopedDelegateChange("RevokedUnscoped", pair[1], pair[2])>>)
    /\ UNCHANGED <<configVars, sRecords, sHead, now, ends, store, indexed>>

\* The block is finished.  The next may have its timestamp.
NextBlock ==
    /\ block < MaxBlocks
    /\ ends' = Append(ends, sBindings)
    /\ now' \in {now, now + 1} \cap 0..MaxTime
    /\ UNCHANGED <<configVars, migrationVars, log, store, indexed>>

-----------------------------------------------------------------------------
(* The store.                                                              *)

NoRows == <<>>

EmptyStore ==
    [contracts |-> NoRows,
     configBindings |-> NoRows, configRegisters |-> NoRows,
     lines |-> NoRows, records |-> NoRows,
     delegates |-> NoRows, delegateChanges |-> NoRows,
     unscopedDelegates |-> NoRows, unscopedDelegateChanges |-> NoRows,
     metaSubjects |-> NoRows, metas |-> NoRows]

\* entity.save()
Save(rows, id, row) == [key \in DOMAIN rows \cup {id} |-> IF key = id THEN row ELSE rows[key]]

\* Mutant: the id of a row leaves out which log of its transaction it is.
logRowIdOfTransaction(e) == <<e.transaction, 0>>

logRowId(e) == <<e.transaction, e.logIndex>>

getOrCreateContract(s, e) ==
    IF e.address \in DOMAIN s.contracts THEN s.contracts ELSE Save(s.contracts, e.address, e.block)

\* A type as graph-node decodes its bytes.
decoded(valueType) == IF valueType \in LossyTypes THEN NotSet ELSE valueType

\* Mutant: the subject stays with the first Register of its binding.
recordMetaSubjectBindingFirst(s, e, subject, register) ==
    LET id == <<e.address, subject>> IN
    IF id \in DOMAIN s.metaSubjects THEN s.metaSubjects
    ELSE Save(s.metaSubjects, id,
             [configBinding |-> subject, configRegister |-> register, migrationRecord |-> NotSet])

recordMetaSubjectBinding(s, e, subject, register) ==
    Save(s.metaSubjects, <<e.address, subject>>,
        [configBinding |-> subject, configRegister |-> register, migrationRecord |-> NotSet])

recordMetaSubjectRecord(s, e, subject, record) ==
    Save(s.metaSubjects, <<e.address, subject>>,
        [configBinding |-> NotSet, configRegister |-> NotSet, migrationRecord |-> record])

\* valueTypeHash is what getV5 answers for the event's block.
handleRegister(s, e, valueTypeHash) ==
    LET p == e.params
        rowId == logRowId(e)
        id == <<p.authority, p.name>>
        valueType == IF decoded(p.valueType) = valueTypeHash THEN valueTypeHash ELSE NotSet
        registerCount == IF id \in DOMAIN s.configBindings
                         THEN s.configBindings[id].registerCount ELSE 0
    IN
    [s EXCEPT
        !.contracts = getOrCreateContract(s, e),
        !.configBindings = Save(@, id,
            [value |-> p.value, valueType |-> valueType, valueTypeHash |-> valueTypeHash,
             sender |-> p.sender, boundAtBlock |-> e.block, registerCount |-> registerCount + 1]),
        !.configRegisters = Save(@, rowId,
            [binding |-> id, sender |-> p.sender, value |-> p.value, valueType |-> valueType,
             valueTypeHash |-> valueTypeHash, transaction |-> e.transaction]),
        !.metaSubjects = recordMetaSubjectBinding(s, e, id, rowId)]

handleMigrated(s, e) ==
    LET p == e.params
        rowId == logRowId(e)
        id == <<p.writer, p.namespace>>
        known == id \in DOMAIN s.lines
        index == IF known THEN s.lines[id].recordCount ELSE 0
    IN
    [s EXCEPT
        !.contracts = getOrCreateContract(s, e),
        !.records = Save(@, rowId,
            [line |-> id, index |-> index, migration |-> p.migration,
             appliedOnto |-> IF known THEN s.lines[id].head ELSE Genesis,
             appliedAt |-> p.appliedAt, sender |-> p.sender]),
        !.lines = Save(@, id,
            [head |-> p.migration, headRecord |-> rowId, recordCount |-> index + 1]),
        !.metaSubjects = recordMetaSubjectRecord(s, e, <<p.writer, p.namespace, p.migration>>, rowId)]

\* Mutant: a delegate that is known keeps its first answer.
recordDelegateChangeOnce(s, e, approved) ==
    LET id == <<e.address, e.params.sender, e.params.scope, e.params.delegate>> IN
    [s EXCEPT
        !.contracts = getOrCreateContract(s, e),
        !.delegates = IF id \in DOMAIN s.delegates THEN @ ELSE Save(@, id, approved),
        !.delegateChanges = Save(@, logRowId(e), [registryDelegate |-> id, approved |-> approved])]

recordDelegateChange(s, e, approved) ==
    LET id == <<e.address, e.params.sender, e.params.scope, e.params.delegate>> IN
    [s EXCEPT
        !.contracts = getOrCreateContract(s, e),
        !.delegates = Save(@, id, approved),
        !.delegateChanges = Save(@, logRowId(e), [registryDelegate |-> id, approved |-> approved])]

recordUnscopedDelegateChange(s, e, approved) ==
    LET id == <<e.address, e.params.sender, e.params.delegate>> IN
    [s EXCEPT
        !.contracts = getOrCreateContract(s, e),
        !.unscopedDelegates = Save(@, id, approved),
        !.unscopedDelegateChanges =
            Save(@, logRowId(e), [registryDelegate |-> id, approved |-> approved])]

\* The keys of the write a meta is linked to, which its claims must name.
preimageChecks(s, link) ==
    IF link.configRegister # NotSet
    THEN LET register == s.configRegisters[link.configRegister] IN
         <<register.binding[2], register.valueTypeHash>>
    ELSE IF link.migrationRecord # NotSet
    THEN LET record == s.records[link.migrationRecord] IN
         <<record.line[2], record.migration>>
    ELSE NotSet

recordRegistryMeta(s, e) ==
    LET p == e.params
        subject == <<e.address, p.subject>>
        unlinked == [configBinding |-> NotSet, configRegister |-> NotSet, migrationRecord |-> NotSet]
        entity == IF subject \in DOMAIN s.metaSubjects THEN s.metaSubjects[subject] ELSE unlinked
        sameTransaction ==
            /\ entity.configRegister # NotSet
            /\ s.configRegisters[entity.configRegister].transaction = e.transaction
        link == IF sameTransaction THEN entity ELSE [entity EXCEPT !.configRegister = NotSet]
    IN
    [s EXCEPT
        !.contracts = getOrCreateContract(s, e),
        !.metas = Save(@, logRowId(e),
            [registry |-> e.address, sender |-> p.sender, subject |-> p.subject, meta |-> p.meta,
             configBinding |-> link.configBinding, configRegister |-> link.configRegister,
             migrationRecord |-> link.migrationRecord,
             verified |-> p.meta = preimageChecks(s, link)])]

\* The rows the handler of an event would find it in.
rowsOf(s, e) ==
    CASE e.params.event = "Register" -> s.configRegisters
      [] e.params.event = "Migrated" -> s.records
      [] e.params.event \in {"Approved", "Revoked"} -> s.delegateChanges
      [] e.params.event \in {"ApprovedUnscoped", "RevokedUnscoped"} -> s.unscopedDelegateChanges
      [] e.params.event = "MetaV1_2" -> s.metas

\* Every handler returns at once when its row is there.
isRecorded(s, e) == logRowId(e) \in DOMAIN rowsOf(s, e)

handle(s, e) ==
    IF isRecorded(s, e) THEN s ELSE
    CASE e.params.event = "Register" ->
            handleRegister(s, e, ends[e.block][e.params.authority][e.params.name].valueTypeHash)
      [] e.params.event = "Migrated" -> handleMigrated(s, e)
      [] e.params.event = "Approved" -> recordDelegateChange(s, e, TRUE)
      [] e.params.event = "Revoked" -> recordDelegateChange(s, e, FALSE)
      [] e.params.event = "ApprovedUnscoped" -> recordUnscopedDelegateChange(s, e, TRUE)
      [] e.params.event = "RevokedUnscoped" -> recordUnscopedDelegateChange(s, e, FALSE)
      [] e.params.event = "MetaV1_2" -> recordRegistryMeta(s, e)

\* graph-node hands over the next event of a finished block, or one the
\* indexer has had.
Deliver ==
    /\ \E i \in DOMAIN log :
           /\ i <= indexed + 1
           /\ log[i].block < block
           /\ store' = handle(store, log[i])
           /\ indexed' = IF i > indexed THEN i ELSE indexed
    /\ UNCHANGED <<configVars, migrationVars, now, ends, log>>

Init ==
    /\ Config!Init
    /\ Migration!Init
    /\ ends = <<>>
    /\ log = <<>>
    /\ store = EmptyStore
    /\ indexed = 0

Next ==
    \/ Binds \/ Applies \/ ConfigDelegates \/ MigrationDelegates \/ NextBlock
    \/ Deliver

Spec == Init /\ [][Next]_vars

-----------------------------------------------------------------------------
(* What the index promises.                                                *)

\* What an event's own row says of it.
rowOf(i) == rowsOf(store, log[i])[logRowId(log[i])]

Earlier(i) == {j \in 1..i : log[j].params.event = log[i].params.event}

\* An event has a row exactly when the indexer has reached it, however often
\* it was handed over, and the row says what the registry did in that call
\* although the handler asks the registry about the whole block or not at all:
\* a Register row has the hash of its own type, and the type itself only when
\* it survives decoding; a record has its own place in its line and the head
\* it was really applied onto.  (handleConfigRegistryV5Register and
\* handleMigrationRegistryV5Migrated.)
RowsSayWhatHappened ==
    \A i \in DOMAIN log :
        LET p == log[i].params IN
        /\ isRecorded(store, log[i]) <=> i <= indexed
        /\ (i <= indexed /\ p.event = "Register") =>
               /\ rowOf(i).valueTypeHash = p.valueType
               /\ rowOf(i).valueType = decoded(p.valueType)
               /\ rowOf(i).value = p.value
        /\ (i <= indexed /\ p.event = "Migrated") =>
               LET key == Migration!Key(p.writer, p.namespace, p.migration) IN
               /\ rowOf(i).appliedOnto = Migration!appliedOntoV5(key)
               /\ rowOf(i).appliedAt = Migration!appliedV5(key)
               /\ rowOf(i).index = Cardinality({j \in Earlier(i) :
                      /\ log[j].params.writer = p.writer
                      /\ log[j].params.namespace = p.namespace}) - 1

\* An indexer that has had every event answers as the registries do: the same
\* names bound to the same values and types as often as they were bound, the
\* same heads over lines of the same length, the same delegates.
IndexMirrorsRegistries ==
    indexed = Len(log) =>
        /\ \A key \in Addresses \X Names :
               LET binding == Config!getV5(key[1], key[2]) IN
               /\ key \in DOMAIN store.configBindings <=> Config!isRegistered(key[1], key[2])
               /\ key \in DOMAIN store.configBindings =>
                      /\ store.configBindings[key].value = binding.value
                      /\ store.configBindings[key].valueTypeHash = binding.valueTypeHash
                      /\ store.configBindings[key].registerCount
                             = Cardinality(Config!BindsOf(key[1], key[2]))
        /\ \A line \in Addresses \X Namespaces :
               IF line \in DOMAIN store.lines
               THEN /\ store.lines[line].head = Migration!HeadOf(line)
                    /\ store.lines[line].recordCount = Cardinality(Migration!AppliedIn(line))
               ELSE Migration!HeadOf(line) = Genesis
        /\ \A account \in Addresses, delegate \in Accounts :
               /\ \A scope \in Names :
                      LET id == <<"config", account, scope, delegate>> IN
                      delegate \in cApproved[account][scope]
                          <=> id \in DOMAIN store.delegates /\ store.delegates[id]
               /\ \A scope \in Namespaces :
                      LET id == <<"migration", account, scope, delegate>> IN
                      delegate \in mApproved[account][scope]
                          <=> id \in DOMAIN store.delegates /\ store.delegates[id]
               /\ LET id == <<"config", account, delegate>> IN
                  delegate \in cApprovedUnscoped[account]
                      <=> id \in DOMAIN store.unscopedDelegates /\ store.unscopedDelegates[id]
               /\ LET id == <<"migration", account, delegate>> IN
                  delegate \in mApprovedUnscoped[account]
                      <=> id \in DOMAIN store.unscopedDelegates /\ store.unscopedDelegates[id]

\* A meta is shown against the write that emitted it and no other, whatever
\* else its transaction or a later rebind wrote, and is shown as verified
\* exactly when it claims that write's own preimages.  (recordRegistryMeta:
\* a MetaV1_2 is emitted straight after the event it is about.)
MetasNameTheirWrite ==
    \A i \in 1..indexed : log[i].params.event = "MetaV1_2" =>
        LET written == log[i - 1].params
            link == IF log[i].address = "config"
                    THEN rowOf(i).configRegister ELSE rowOf(i).migrationRecord
            key == IF log[i].address = "config"
                   THEN <<written.name, written.valueType>>
                   ELSE <<written.namespace, written.migration>>
        IN
        /\ link = logRowId(log[i - 1])
        /\ rowOf(i).verified <=> log[i].params.meta = key
=============================================================================
