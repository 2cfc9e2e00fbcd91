----------------------- MODULE MigrationRegistryProofs -----------------------
(***************************************************************************)
(* Proofs, for every set of accounts, namespaces and migrations and every  *)
(* call they can make, of what MigrationRegistry promises.                 *)
(*                                                                         *)
(* An applied migration does one thing, stated once as Applies and derived *)
(* from the code's checks in ApplyLemma.  Every other lemma reasons about  *)
(* Applies only.                                                           *)
(***************************************************************************)
EXTENDS MigrationRegistryLog, TLAPS, FiniteSetTheorems, WellFoundedInduction

\* The accounts that may write the line of key.
MayWrite(sender, key) ==
    \/ sender = key.writer
    \/ sender \in sApproved[key.writer][key.namespace]
    \/ sender \in sApprovedUnscoped[key.writer]

\* What an applied migration does: key joins its line at the head list names
\* first, waits on records that exist, and is dated between that head's
\* moment and the block.
Applies(key, list, appliedAt, sender) ==
    /\ key.writer \in Accounts
    /\ key.namespace \in Namespaces
    /\ key.migration \in Migrations
    /\ MayWrite(sender, key)
    /\ key \notin Recorded
    /\ list # <<>>
    /\ list[1] = Key(key.writer, key.namespace, HeadOf(LineOf(key)))
    /\ \A i \in 2..Len(list) : list[i] \in Recorded /\ LineOf(list[i]) # LineOf(key)
    /\ appliedAt # 0
    /\ appliedAt <= now
    /\ appliedV5(list[1]) <= appliedAt
    /\ sRecords' = [sRecords EXCEPT ![key.writer][key.namespace][key.migration] =
           [appliedAt |-> appliedAt, appliedAfter |-> list, writtenBy |-> sender]]
    /\ sHead' = [sHead EXCEPT ![key.writer][key.namespace] = key.migration]
    /\ UNCHANGED <<sApproved, sApprovedUnscoped, now>>

\* A step that applies no migration leaves the records and the heads alone
\* and never turns the clock back.
AppliesNothing ==
    /\ UNCHANGED registryVars
    /\ now' \in Nat
    /\ now <= now'

-----------------------------------------------------------------------------
(* What a step is.                                                         *)

LEMMA HeadOfElement ==
    ASSUME NEW S, NEW list \in Seq(S), list # <<>>
    PROVE  Head(list) = list[1] /\ list[1] \in S /\ 1 \in DOMAIN list
OBVIOUS

LEMMA KeyFields ==
    ASSUME NEW writer, NEW namespace, NEW migration
    PROVE  LET key == Key(writer, namespace, migration) IN
           /\ key.writer = writer
           /\ key.namespace = namespace
           /\ key.migration = migration
           /\ LineOf(key) = <<writer, namespace>>
BY DEF Key, LineOf

LEMMA KeyOfFields ==
    ASSUME NEW key \in Prerequisite
    PROVE  /\ key.writer \in Addresses
           /\ key.namespace \in Words
           /\ key.migration \in MigrationWords
           /\ Key(key.writer, key.namespace, key.migration) = key
BY DEF Key, Prerequisite

LEMMA RecordType ==
    ASSUME TypeOK, NEW key \in Prerequisite
    PROVE  /\ record(key) \in MigrationRecord
           /\ record(key).appliedAt \in Nat
           /\ record(key).appliedAfter \in Seq(Prerequisite)
           /\ record(key).writtenBy \in Addresses
BY KeyOfFields DEF TypeOK, record, MigrationRecord

LEMMA HeadType ==
    ASSUME TypeOK, NEW line \in Lines
    PROVE  /\ HeadOf(line) \in Migrations \cup {Genesis}
           /\ HeadOf(line) \in MigrationWords
           /\ HeadOf(line) = Genesis <=> sHead[line[1]][line[2]] = ZeroBytes32
BY ConstantsAssumption DEF TypeOK, HeadOf, headV5, Lines, MigrationWords

\* The code's checks, in the order it makes them, come to Applies.
LEMMA ApplyLemma ==
    ASSUME TypeOK, NEW sender \in Accounts, NEW call \in Calls, NEW appliedAt \in Nat,
           applyMigrationRecord(sender, call.writer, call.namespace, call.migration,
                                appliedAt, call.prerequisites)
    PROVE  \E key \in Prerequisite, list \in Seq(Prerequisite) :
               Applies(key, list, appliedAt, sender)
<1> DEFINE writer == call.writer
           namespace == call.namespace
           migration == call.migration
           list == call.prerequisites
           key == Key(writer, namespace, migration)
<1>1. /\ writer \in Addresses
      /\ namespace \in Words
      /\ migration \in MigrationWords
      /\ list \in Seq(Prerequisite)
  BY ConstantsAssumption
<1>2. key \in Prerequisite
  BY <1>1 DEF Key, Prerequisite
<1>3. writer \in Accounts
  BY DEF applyMigrationRecord, Delegates!checkWrite, Delegates!checkAccount
<1>4. namespace \in Namespaces /\ migration \in Migrations /\ appliedAt # 0
  BY <1>1 DEF applyMigrationRecord, checkMigrationArguments, Words, MigrationWords
<1>5. key \notin Recorded
  BY DEF applyMigrationRecord, writeMigrationRecord, checkNotApplied, Recorded
<1>6. list # <<>> /\ list[1] = Key(writer, namespace, headV5(writer, namespace))
  <2>1. list # <<>> /\ Head(list) = Key(writer, namespace, headV5(writer, namespace))
    BY DEF applyMigrationRecord, checkPrerequisites, checkHead
  <2> QED
    BY <1>1, <2>1, HeadOfElement
<1>7. \A i \in 2..Len(list) : list[i] \in Recorded /\ LineOf(list[i]) # LineOf(key)
  <2> SUFFICES ASSUME NEW i \in 2..Len(list)
               PROVE  list[i] \in Recorded /\ LineOf(list[i]) # LineOf(key)
    OBVIOUS
  <2>1. list[i] \in Prerequisite
    BY <1>1
  <2>2. appliedV5(list[i]) # 0 /\ LineOf(list[i]) # <<writer, namespace>>
    BY DEF applyMigrationRecord, checkPrerequisites, checkWaits
  <2>3. LineOf(key) = <<writer, namespace>>
    BY KeyFields
  <2> QED
    BY <2>1, <2>2, <2>3 DEF Recorded
<1>8. appliedAt <= now /\ appliedV5(list[1]) <= appliedAt
  <2>1. /\ appliedV5(Key(writer, namespace, Head(list).migration)) <= appliedAt
        /\ appliedAt <= now
    <3>1. /\ appliedAt >= appliedV5(Key(writer, namespace, Head(list).migration))
          /\ appliedAt <= now
      BY DEF applyMigrationRecord, writeMigrationRecord, checkMoment
    <3>2. Head(list) = list[1] /\ list[1] \in Prerequisite
      BY <1>1, <1>6, HeadOfElement
    <3>3. Key(writer, namespace, Head(list).migration) \in Prerequisite
      BY <1>1, <3>2, KeyOfFields DEF Key, Prerequisite
    <3>4. appliedV5(Key(writer, namespace, Head(list).migration)) \in Nat
      BY <3>3, RecordType DEF appliedV5
    <3> QED
      BY <3>1, <3>4
  <2>2. Head(list) = list[1]
    BY <1>1, <1>6, HeadOfElement
  <2>3. Key(writer, namespace, Head(list).migration) = list[1]
    BY <1>6, <2>2, KeyFields
  <2> QED
    BY <2>1, <2>3
<1>9. HeadOf(LineOf(key)) = headV5(writer, namespace)
  BY DEF HeadOf, LineOf, Key
<1>10. key.writer = writer /\ key.namespace = namespace /\ key.migration = migration
  BY KeyFields
<1>11. /\ sRecords' = [sRecords EXCEPT ![writer][namespace][migration] =
             [appliedAt |-> appliedAt, appliedAfter |-> list, writtenBy |-> sender]]
       /\ sHead' = [sHead EXCEPT ![writer][namespace] = migration]
       /\ UNCHANGED <<sApproved, sApprovedUnscoped, now>>
  BY DEF applyMigrationRecord, writeMigrationRecord
<1>12. MayWrite(sender, key)
  BY <1>10 DEF applyMigrationRecord, Delegates!checkWrite, MayWrite
<1>13. Applies(key, list, appliedAt, sender)
  BY <1>3, <1>4, <1>5, <1>6, <1>7, <1>8, <1>9, <1>10, <1>11, <1>12 DEF Applies
<1> QED
  BY <1>1, <1>2, <1>13

\* Every step applies one migration or none.
LEMMA StepLemma ==
    ASSUME TypeOK, [Next]_vars
    PROVE  \/ AppliesNothing
           \/ \E key \in Prerequisite, list \in Seq(Prerequisite),
                 appliedAt \in Nat, sender \in Accounts :
                  Applies(key, list, appliedAt, sender)
<1>1. now \in Nat
  BY DEF TypeOK
<1>2. CASE ApplyStep
  <2>1. PICK sender \in Accounts, call \in Calls :
            \/ applyMigrationV5(sender, call.writer, call.namespace, call.migration,
                                call.prerequisites)
            \/ \E appliedAt \in Times :
                   applyMigrationHistoryV5(sender, call.writer, call.namespace,
                                           call.migration, appliedAt, call.prerequisites)
    BY <1>2 DEF ApplyStep
  <2>2. Times \subseteq Nat
    BY ConstantsAssumption DEF Times
  <2>3. \E appliedAt \in Nat :
            applyMigrationRecord(sender, call.writer, call.namespace, call.migration,
                                 appliedAt, call.prerequisites)
    BY <1>1, <2>1, <2>2 DEF applyMigrationV5, applyMigrationHistoryV5
  <2> QED
    BY <2>3, ApplyLemma
<1>3. CASE DelegationStep
  BY <1>1, <1>3 DEF DelegationStep, AppliesNothing, registryVars
<1>4. CASE Tick
  BY <1>1, <1>4 DEF Tick, AppliesNothing, registryVars
<1>5. CASE UNCHANGED vars
  BY <1>1, <1>5 DEF vars, AppliesNothing, registryVars
<1> QED
  BY <1>2, <1>3, <1>4, <1>5 DEF Next

-----------------------------------------------------------------------------
(* The type invariant.                                                     *)

LEMMA DelegationTypeLemma ==
    ASSUME Delegates!DelegatesTypeOK, Delegates!DelegationStep
    PROVE  Delegates!DelegatesTypeOK'
<1> USE ConstantsAssumption DEF Delegates!DelegatesTypeOK, Delegates!Addresses, Addresses
<1>1. PICK pair \in Delegations :
          \/ \E scope \in Words : Delegates!approveV5(pair[1], scope, pair[2])
          \/ \E scope \in Words : Delegates!revokeV5(pair[1], scope, pair[2])
          \/ Delegates!approveUnscopedV5(pair[1], pair[2])
          \/ Delegates!revokeUnscopedV5(pair[1], pair[2])
  BY DEF Delegates!DelegationStep
<1>2. pair[1] \in Accounts /\ pair[2] \in Accounts \cup {ZeroAddress}
  OBVIOUS
<1>3. CASE \E scope \in Words : Delegates!approveV5(pair[1], scope, pair[2])
  BY <1>2, <1>3 DEF Delegates!approveV5, Delegates!checkDelegateKey
<1>4. CASE \E scope \in Words : Delegates!revokeV5(pair[1], scope, pair[2])
  BY <1>2, <1>4 DEF Delegates!revokeV5
<1>5. CASE Delegates!approveUnscopedV5(pair[1], pair[2])
  BY <1>2, <1>5 DEF Delegates!approveUnscopedV5, Delegates!checkDelegateKey
<1>6. CASE Delegates!revokeUnscopedV5(pair[1], pair[2])
  BY <1>2, <1>6 DEF Delegates!revokeUnscopedV5
<1> QED
  BY <1>1, <1>3, <1>4, <1>5, <1>6

LEMMA ApplyTypeLemma ==
    ASSUME TypeOK, NEW key \in Prerequisite, NEW list \in Seq(Prerequisite),
           NEW appliedAt \in Nat, NEW sender \in Accounts,
           Applies(key, list, appliedAt, sender)
    PROVE  TypeOK'
<1>1. Delegates!DelegatesTypeOK'
  BY DEF Applies, TypeOK, Delegates!DelegatesTypeOK
<1>2. [appliedAt |-> appliedAt, appliedAfter |-> list, writtenBy |-> sender] \in MigrationRecord
  BY DEF MigrationRecord, Addresses
<1>3. sRecords' \in [Addresses -> [Words -> [MigrationWords -> MigrationRecord]]]
  BY <1>2, KeyOfFields DEF Applies, TypeOK
<1>4. sHead' \in [Addresses -> [Words -> Migrations \cup {ZeroBytes32}]]
  BY KeyOfFields DEF Applies, TypeOK
<1>5. now' \in Nat
  BY DEF Applies, TypeOK
<1> QED
  BY <1>1, <1>3, <1>4, <1>5 DEF TypeOK

LEMMA InitTypeLemma == Init => TypeOK
<1> SUFFICES ASSUME Init PROVE TypeOK
  OBVIOUS
<1>1. Delegates!DelegatesTypeOK
  BY DEF Init, Delegates!DelegatesInit, Delegates!DelegatesTypeOK, Delegates!Addresses
<1>2. NoRecord \in MigrationRecord
  BY DEF NoRecord, MigrationRecord, Addresses
<1> QED
  BY <1>1, <1>2 DEF Init, TypeOK

LEMMA StepTypeLemma == TypeOK /\ [Next]_vars => TypeOK'
<1> SUFFICES ASSUME TypeOK, [Next]_vars PROVE TypeOK'
  OBVIOUS
<1>1. CASE AppliesNothing
  <2>1. Delegates!DelegatesTypeOK'
    <3>1. CASE ApplyStep
      BY <3>1 DEF ApplyStep, applyMigrationV5, applyMigrationHistoryV5,
         applyMigrationRecord, TypeOK, Delegates!DelegatesTypeOK
    <3>2. CASE DelegationStep
      BY <3>2, DelegationTypeLemma DEF DelegationStep, TypeOK
    <3>3. CASE Tick
      BY <3>3 DEF Tick, TypeOK, Delegates!DelegatesTypeOK
    <3>4. CASE UNCHANGED vars
      BY <3>4 DEF vars, TypeOK, Delegates!DelegatesTypeOK
    <3> QED
      BY <3>1, <3>2, <3>3, <3>4 DEF Next
  <2> QED
    BY <1>1, <2>1 DEF AppliesNothing, registryVars, TypeOK
<1>2. CASE \E key \in Prerequisite, list \in Seq(Prerequisite),
              appliedAt \in Nat, sender \in Accounts :
                  Applies(key, list, appliedAt, sender)
  BY <1>2, ApplyTypeLemma
<1> QED
  BY <1>1, <1>2, StepLemma

\* In every state the storage holds values of its types: a stored head is a
\* migration or zero, never genesis, whatever calls are made.
THEOREM TypeCorrect == Spec => []TypeOK
BY InitTypeLemma, StepTypeLemma, PTL DEF Spec

-----------------------------------------------------------------------------
(* What Applies does to one record and to one head.                        *)

LEMMA RecordAfter ==
    ASSUME TypeOK, NEW key \in Prerequisite, NEW list \in Seq(Prerequisite),
           NEW appliedAt \in Nat, NEW sender \in Accounts,
           Applies(key, list, appliedAt, sender), NEW other \in Prerequisite
    PROVE  /\ other = key => record(other)' =
                  [appliedAt |-> appliedAt, appliedAfter |-> list, writtenBy |-> sender]
           /\ other # key => record(other)' = record(other)
<1>1. /\ key.writer \in Addresses /\ key.namespace \in Words
      /\ key.migration \in MigrationWords
      /\ other.writer \in Addresses /\ other.namespace \in Words
      /\ other.migration \in MigrationWords
  BY KeyOfFields
<1>2. other # key => \/ other.writer # key.writer
                     \/ other.namespace # key.namespace
                     \/ other.migration # key.migration
  BY DEF Prerequisite
<1> QED
  BY <1>1, <1>2 DEF Applies, TypeOK, record

LEMMA RecordedAfter ==
    ASSUME TypeOK, NEW key \in Prerequisite, NEW list \in Seq(Prerequisite),
           NEW appliedAt \in Nat, NEW sender \in Accounts,
           Applies(key, list, appliedAt, sender)
    PROVE  /\ Recorded' = Recorded \cup {key}
           /\ \A other \in Recorded : record(other)' = record(other)
<1>1. \A other \in Recorded : other \in Prerequisite /\ other # key
  BY DEF Recorded, Applies
<1>2. \A other \in Prerequisite : other # key => record(other)' = record(other)
  BY RecordAfter
<1>3. record(key)'.appliedAt # 0
  <2>1. record(key)' =
            [appliedAt |-> appliedAt, appliedAfter |-> list, writtenBy |-> sender]
    BY RecordAfter
  <2>2. appliedAt # 0
    BY DEF Applies
  <2> QED
    BY <2>1, <2>2
<1>4. \A other \in Prerequisite :
          other \in Recorded' <=> (other = key \/ other \in Recorded)
  BY <1>2, <1>3 DEF Recorded, appliedV5
<1>5. Recorded' \subseteq Prerequisite /\ Recorded \subseteq Prerequisite
  BY DEF Recorded
<1>6. Recorded' = Recorded \cup {key}
  BY <1>4, <1>5
<1>7. \A other \in Recorded : record(other)' = record(other)
  BY <1>1, <1>2
<1> QED
  BY <1>6, <1>7

LEMMA HeadAfter ==
    ASSUME TypeOK, NEW key \in Prerequisite, NEW list \in Seq(Prerequisite),
           NEW appliedAt \in Nat, NEW sender \in Accounts,
           Applies(key, list, appliedAt, sender), NEW line \in Lines
    PROVE  /\ line = LineOf(key) => HeadOf(line)' = key.migration
           /\ line # LineOf(key) => HeadOf(line)' = HeadOf(line)
<1>1. /\ key.writer \in Addresses /\ key.namespace \in Words
      /\ line[1] \in Addresses /\ line[2] \in Words
      /\ LineOf(key) = <<key.writer, key.namespace>>
  BY KeyOfFields DEF Lines, LineOf
<1>2. line # LineOf(key) => line[1] # key.writer \/ line[2] # key.namespace
  BY <1>1 DEF Lines
<1>3. key.migration # ZeroBytes32
  BY ConstantsAssumption DEF Applies
<1>4. CASE line = LineOf(key)
  BY <1>1, <1>3, <1>4 DEF Applies, TypeOK, HeadOf, headV5
<1>5. CASE line # LineOf(key)
  BY <1>1, <1>2, <1>5 DEF Applies, TypeOK, HeadOf, headV5
<1> QED
  BY <1>4, <1>5

LEMMA FieldsAfter ==
    ASSUME TypeOK, NEW key \in Prerequisite, NEW list \in Seq(Prerequisite),
           NEW appliedAt \in Nat, NEW sender \in Accounts,
           Applies(key, list, appliedAt, sender)
    PROVE  /\ appliedV5(key)' = appliedAt
           /\ appliedAfterV5(key)' = list
           /\ appliedByV5(key)' = sender
           /\ appliedOntoV5(key)' = HeadOf(LineOf(key))
           /\ \A other \in Recorded :
                  /\ appliedV5(other)' = appliedV5(other)
                  /\ appliedAfterV5(other)' = appliedAfterV5(other)
                  /\ appliedOntoV5(other)' = appliedOntoV5(other)
<1>1. record(key)' =
          [appliedAt |-> appliedAt, appliedAfter |-> list, writtenBy |-> sender]
  BY RecordAfter
<1>2. \A other \in Recorded : record(other)' = record(other)
  BY RecordedAfter
<1>3. /\ appliedV5(key)' = appliedAt
      /\ appliedAfterV5(key)' = list
      /\ appliedByV5(key)' = sender
  BY <1>1 DEF appliedV5, appliedAfterV5, appliedByV5
<1>4. list # <<>> /\ Head(list) = list[1]
  BY HeadOfElement DEF Applies
<1>5. appliedOntoV5(key)' = Head(list).migration
  BY <1>1, <1>4 DEF appliedOntoV5
<1>6. list[1].migration = HeadOf(LineOf(key))
  BY KeyFields DEF Applies
<1>7. \A other \in Recorded :
          /\ appliedV5(other)' = appliedV5(other)
          /\ appliedAfterV5(other)' = appliedAfterV5(other)
          /\ appliedOntoV5(other)' = appliedOntoV5(other)
  BY <1>2 DEF appliedV5, appliedAfterV5, appliedOntoV5
<1> QED
  BY <1>3, <1>4, <1>5, <1>6, <1>7

LEMMA FieldsKept ==
    ASSUME AppliesNothing
    PROVE  /\ Recorded' = Recorded
           /\ \A key \in Prerequisite :
                  /\ appliedV5(key)' = appliedV5(key)
                  /\ appliedAfterV5(key)' = appliedAfterV5(key)
                  /\ appliedOntoV5(key)' = appliedOntoV5(key)
           /\ \A line \in Lines : /\ HeadOf(line)' = HeadOf(line)
                                  /\ AppliedIn(line)' = AppliedIn(line)
BY DEF AppliesNothing, registryVars, Recorded, record, appliedV5, appliedAfterV5,
       appliedOntoV5, HeadOf, headV5, AppliedIn

LEMMA LineKeys ==
    ASSUME NEW line \in Lines
    PROVE  /\ AppliedIn(line) \subseteq MigrationWords
           /\ \A m \in MigrationWords :
                  /\ Key(line[1], line[2], m) \in Prerequisite
                  /\ LineOf(Key(line[1], line[2], m)) = line
                  /\ Key(line[1], line[2], m).migration = m
                  /\ m \in AppliedIn(line) <=> Key(line[1], line[2], m) \in Recorded
<1>1. line = <<line[1], line[2]>> /\ line[1] \in Addresses /\ line[2] \in Words
  BY DEF Lines
<1> QED
  BY <1>1 DEF Key, LineOf, Prerequisite, AppliedIn, Recorded

LEMMA RecordedKeys ==
    ASSUME NEW key \in Prerequisite
    PROVE  /\ LineOf(key) \in Lines
           /\ Key(LineOf(key)[1], LineOf(key)[2], key.migration) = key
           /\ key \in Recorded <=> key.migration \in AppliedIn(LineOf(key))
BY KeyOfFields DEF LineOf, Lines, Recorded, AppliedIn

LEMMA AppliedInAfter ==
    ASSUME TypeOK, NEW key \in Prerequisite, NEW list \in Seq(Prerequisite),
           NEW appliedAt \in Nat, NEW sender \in Accounts,
           Applies(key, list, appliedAt, sender), NEW line \in Lines
    PROVE  /\ line = LineOf(key) => AppliedIn(line)' = AppliedIn(line) \cup {key.migration}
           /\ line # LineOf(key) => AppliedIn(line)' = AppliedIn(line)
           /\ \A m \in AppliedIn(line) :
                  LET there == Key(line[1], line[2], m) IN
                  appliedOntoV5(there)' = appliedOntoV5(there)
<1>1. Recorded' = Recorded \cup {key}
  BY RecordedAfter
<1>2. \A m \in MigrationWords :
          /\ m \in AppliedIn(line) <=> Key(line[1], line[2], m) \in Recorded
          /\ m \in AppliedIn(line)' <=> Key(line[1], line[2], m) \in Recorded'
  <2>1. \A m \in MigrationWords :
            m \in AppliedIn(line) <=> Key(line[1], line[2], m) \in Recorded
    BY LineKeys
  <2>2. \A m \in MigrationWords : Key(line[1], line[2], m) \in Prerequisite
    BY LineKeys
  <2>3. \A m \in MigrationWords :
            m \in AppliedIn(line)' <=> Key(line[1], line[2], m) \in Recorded'
    BY <2>2 DEF AppliedIn, Recorded
  <2> QED
    BY <2>1, <2>3
<1>3. AppliedIn(line) \subseteq MigrationWords /\ AppliedIn(line)' \subseteq MigrationWords
  BY DEF AppliedIn
<1>4. key.migration \in MigrationWords
  BY KeyOfFields
<1>5. \A m \in MigrationWords :
          Key(line[1], line[2], m) = key <=> line = LineOf(key) /\ m = key.migration
  BY LineKeys, RecordedKeys
<1>6. line = LineOf(key) => AppliedIn(line)' = AppliedIn(line) \cup {key.migration}
  BY <1>1, <1>2, <1>3, <1>4, <1>5
<1>7. line # LineOf(key) => AppliedIn(line)' = AppliedIn(line)
  BY <1>1, <1>2, <1>3, <1>5
<1>8. \A m \in AppliedIn(line) :
          appliedOntoV5(Key(line[1], line[2], m))' = appliedOntoV5(Key(line[1], line[2], m))
  BY <1>2, <1>3, FieldsAfter
<1> QED
  BY <1>6, <1>7, <1>8

-----------------------------------------------------------------------------
(* The inductive invariant.                                                *)

LEMMA InitConsistentLemma == Init => StorageIsConsistent
<1> SUFFICES ASSUME Init PROVE StorageIsConsistent
  OBVIOUS
<1>1. TypeOK
  BY InitTypeLemma
<1>2. \A key \in Prerequisite : appliedV5(key) = 0
  BY KeyOfFields DEF Init, appliedV5, record, NoRecord
<1>3. Recorded = {}
  BY <1>2 DEF Recorded
<1>4. \A line \in Lines : AppliedIn(line) = {} /\ HeadOf(line) = Genesis
  BY <1>3, LineKeys DEF Init, HeadOf, headV5, Lines
<1> QED
  BY <1>1, <1>3, <1>4 DEF StorageIsConsistent, RecordsAreReadable, RecordsJoinTheirLine,
     PrerequisitesExist, HeadsAreRecorded

LEMMA ApplyConsistentLemma ==
    ASSUME StorageIsConsistent, NEW key \in Prerequisite, NEW list \in Seq(Prerequisite),
           NEW appliedAt \in Nat, NEW sender \in Accounts,
           Applies(key, list, appliedAt, sender)
    PROVE  StorageIsConsistent'
<1>1. TypeOK
  BY DEF StorageIsConsistent
<1>2. TypeOK'
  BY <1>1, ApplyTypeLemma
<1>3. Recorded' = Recorded \cup {key}
  BY <1>1, RecordedAfter
<1>4. /\ appliedAfterV5(key)' = list
      /\ appliedOntoV5(key)' = HeadOf(LineOf(key))
      /\ \A other \in Recorded : /\ appliedAfterV5(other)' = appliedAfterV5(other)
                                 /\ appliedOntoV5(other)' = appliedOntoV5(other)
  BY <1>1, FieldsAfter
<1>5. RecordsAreReadable'
  <2>1. checkRecordKey(key)
    BY ConstantsAssumption DEF Applies, checkRecordKey, checkLineKey
  <2> QED
    BY <1>3, <2>1 DEF StorageIsConsistent, RecordsAreReadable, checkRecordKey, checkLineKey
<1>6. RecordsJoinTheirLine'
  <2>1. /\ list # <<>>
        /\ list[1] = Key(key.writer, key.namespace, HeadOf(LineOf(key)))
    BY DEF Applies
  <2>2. list[1].migration = HeadOf(LineOf(key))
    BY <2>1, KeyFields
  <2>3. LineOf(key) \in Lines /\ LineOf(key) = <<key.writer, key.namespace>>
    BY RecordedKeys DEF LineOf
  <2>4. HeadOf(LineOf(key)) = Genesis \/ HeadOf(LineOf(key)) \in AppliedIn(LineOf(key))
    BY <2>3 DEF StorageIsConsistent, HeadsAreRecorded
  <2>5. list[1].migration = Genesis \/ list[1] \in Recorded
    BY <2>1, <2>2, <2>3, <2>4, LineKeys
  <2>6. \A other \in Recorded :
            /\ appliedAfterV5(other) # <<>>
            /\ appliedAfterV5(other)[1] = Key(other.writer, other.namespace, appliedOntoV5(other))
            /\ appliedAfterV5(other)[1].migration = Genesis
                   \/ appliedAfterV5(other)[1] \in Recorded
    BY DEF StorageIsConsistent, RecordsJoinTheirLine
  <2> QED
    BY <1>3, <1>4, <2>1, <2>5, <2>6 DEF RecordsJoinTheirLine
<1>7. PrerequisitesExist'
  <2>1. \A i \in 2..Len(list) : list[i] \in Recorded /\ LineOf(list[i]) # LineOf(key)
    BY DEF Applies
  <2>2. \A other \in Recorded : \A i \in 2..Len(appliedAfterV5(other)) :
            /\ appliedAfterV5(other)[i] \in Recorded
            /\ LineOf(appliedAfterV5(other)[i]) # LineOf(other)
    BY DEF StorageIsConsistent, PrerequisitesExist
  <2> QED
    BY <1>3, <1>4, <2>1, <2>2 DEF PrerequisitesExist
<1>8. HeadsAreRecorded'
  <2> SUFFICES ASSUME NEW line \in Lines
               PROVE  \/ HeadOf(line)' \in AppliedIn(line)'
                      \/ HeadOf(line)' = Genesis /\ AppliedIn(line)' = {}
    BY DEF HeadsAreRecorded
  <2>1. CASE line = LineOf(key)
    BY <1>1, <2>1, HeadAfter, AppliedInAfter
  <2>2. CASE line # LineOf(key)
    BY <1>1, <2>2, HeadAfter, AppliedInAfter DEF StorageIsConsistent, HeadsAreRecorded
  <2> QED
    BY <2>1, <2>2
<1> QED
  BY <1>2, <1>5, <1>6, <1>7, <1>8 DEF StorageIsConsistent

LEMMA StepConsistentLemma == StorageIsConsistent /\ [Next]_vars => StorageIsConsistent'
<1> SUFFICES ASSUME StorageIsConsistent, [Next]_vars PROVE StorageIsConsistent'
  OBVIOUS
<1>1. TypeOK /\ TypeOK'
  BY StepTypeLemma DEF StorageIsConsistent
<1>2. CASE AppliesNothing
  <2>1. /\ Recorded' = Recorded
        /\ \A key \in Recorded : /\ appliedAfterV5(key)' = appliedAfterV5(key)
                                 /\ appliedOntoV5(key)' = appliedOntoV5(key)
        /\ \A line \in Lines : /\ HeadOf(line)' = HeadOf(line)
                               /\ AppliedIn(line)' = AppliedIn(line)
    BY <1>2, FieldsKept DEF Recorded
  <2>2. RecordsAreReadable'
    BY <2>1 DEF StorageIsConsistent, RecordsAreReadable, checkRecordKey, checkLineKey
  <2>3. RecordsJoinTheirLine' /\ PrerequisitesExist'
    BY <2>1 DEF StorageIsConsistent, RecordsJoinTheirLine, PrerequisitesExist
  <2>4. HeadsAreRecorded'
    BY <2>1 DEF StorageIsConsistent, HeadsAreRecorded
  <2> QED
    BY <1>1, <2>2, <2>3, <2>4 DEF StorageIsConsistent
<1>3. CASE \E key \in Prerequisite, list \in Seq(Prerequisite),
              appliedAt \in Nat, sender \in Accounts :
                  Applies(key, list, appliedAt, sender)
  BY <1>3, ApplyConsistentLemma
<1> QED
  BY <1>1, <1>2, <1>3, StepLemma

\* Everything a head or a record names is there: the head of a line is its
\* own record, and each entry of a record's list is a record or genesis.
THEOREM StorageConsistent == Spec => []StorageIsConsistent
BY InitConsistentLemma, StepConsistentLemma, PTL DEF Spec

-----------------------------------------------------------------------------
(* The line is one sequence.                                               *)

LEMMA HeadUnappliedLemma ==
    ASSUME StorageIsConsistent, NEW key \in Prerequisite, NEW list \in Seq(Prerequisite),
           NEW appliedAt \in Nat, NEW sender \in Accounts,
           Applies(key, list, appliedAt, sender)
    PROVE  /\ LineOf(key) \in Lines
           /\ key.migration \notin AppliedIn(LineOf(key)) \cup {Genesis}
           /\ HeadOf(LineOf(key)) \in AppliedIn(LineOf(key)) \cup {Genesis}
           /\ HeadOf(LineOf(key)) # key.migration
           /\ Key(LineOf(key)[1], LineOf(key)[2], key.migration) = key
<1>1. LineOf(key) \in Lines /\ key.migration \notin AppliedIn(LineOf(key))
  BY RecordedKeys DEF Applies
<1>2. key.migration # Genesis
  BY ConstantsAssumption DEF Applies
<1>3. HeadOf(LineOf(key)) \in AppliedIn(LineOf(key)) \cup {Genesis}
  BY <1>1 DEF StorageIsConsistent, HeadsAreRecorded
<1> QED
  BY <1>1, <1>2, <1>3, RecordedKeys

LEMMA InitForkLemma == Init => LineNeverForks
<1>1. Init => \A line \in Lines : AppliedIn(line) = {}
  BY LineKeys, KeyOfFields DEF Init, AppliedIn, appliedV5, record, NoRecord
<1> QED
  BY <1>1 DEF LineNeverForks

LEMMA StepForkLemma ==
    StorageIsConsistent /\ LineNeverForks /\ [Next]_vars => LineNeverForks'
<1> SUFFICES ASSUME StorageIsConsistent, LineNeverForks, [Next]_vars
             PROVE  LineNeverForks'
  OBVIOUS
<1>1. TypeOK
  BY DEF StorageIsConsistent
<1>2. CASE AppliesNothing
  <2>1. \A line \in Lines : HeadOf(line)' = HeadOf(line) /\ AppliedIn(line)' = AppliedIn(line)
    BY <1>2, FieldsKept
  <2>2. \A line \in Lines : \A m \in AppliedIn(line) :
            appliedOntoV5(Key(line[1], line[2], m))' = appliedOntoV5(Key(line[1], line[2], m))
    BY <1>2, FieldsKept, LineKeys
  <2> QED
    BY <2>1, <2>2 DEF LineNeverForks
<1>3. ASSUME NEW key \in Prerequisite, NEW list \in Seq(Prerequisite),
             NEW appliedAt \in Nat, NEW sender \in Accounts,
             Applies(key, list, appliedAt, sender)
      PROVE  LineNeverForks'
  <2> DEFINE onto(line, m) == appliedOntoV5(Key(line[1], line[2], m))
  <2>1. /\ LineOf(key) \in Lines
        /\ key.migration \notin AppliedIn(LineOf(key)) \cup {Genesis}
        /\ HeadOf(LineOf(key)) \in AppliedIn(LineOf(key)) \cup {Genesis}
        /\ HeadOf(LineOf(key)) # key.migration
        /\ Key(LineOf(key)[1], LineOf(key)[2], key.migration) = key
    BY <1>3, HeadUnappliedLemma
  <2>2. appliedOntoV5(key)' = HeadOf(LineOf(key))
    BY <1>1, <1>3, FieldsAfter
  <2>3. onto(LineOf(key), key.migration)' = HeadOf(LineOf(key))
    BY <2>1, <2>2
  <2>4. \A line \in Lines : \A m \in AppliedIn(line) :
            /\ onto(line, m) # HeadOf(line)
            /\ onto(line, m) \in AppliedIn(line) \cup {Genesis}
            /\ \A other \in AppliedIn(line) \ {m} : onto(line, other) # onto(line, m)
    BY DEF LineNeverForks
  <2>5. \A line \in Lines : \A m \in AppliedIn(line) : onto(line, m)' = onto(line, m)
    BY <1>1, <1>3, AppliedInAfter
  <2> SUFFICES ASSUME NEW line \in Lines, NEW m \in AppliedIn(line)'
               PROVE  /\ onto(line, m)' # HeadOf(line)'
                      /\ onto(line, m)' \in AppliedIn(line)' \cup {Genesis}
                      /\ \A other \in AppliedIn(line)' \ {m} :
                             onto(line, other)' # onto(line, m)'
    BY DEF LineNeverForks
  <2>6. CASE line # LineOf(key)
    <3>1. AppliedIn(line)' = AppliedIn(line) /\ HeadOf(line)' = HeadOf(line)
      BY <1>1, <1>3, <2>6, AppliedInAfter, HeadAfter
    <3> HIDE DEF onto
    <3> QED
      BY <2>4, <2>5, <3>1
  <2>7. CASE line = LineOf(key)
    <3>1. /\ AppliedIn(line)' = AppliedIn(line) \cup {key.migration}
          /\ HeadOf(line)' = key.migration
      BY <1>1, <1>3, <2>7, AppliedInAfter, HeadAfter
    <3> HIDE DEF onto
    <3>2. CASE m = key.migration
      BY <2>1, <2>3, <2>4, <2>5, <2>7, <3>1, <3>2
    <3>3. CASE m # key.migration
      BY <2>1, <2>3, <2>4, <2>5, <2>7, <3>1, <3>3
    <3> QED
      BY <3>2, <3>3
  <2> QED
    BY <2>6, <2>7
<1> QED
  BY <1>1, <1>2, <1>3, StepLemma

\* However many scripts read one head and race, at most one lands on it: a
\* line never forks, with any number of writers, delegates and migrations.
THEOREM LineNeverForksTheorem == Spec => []LineNeverForks
<1>1. Init => StorageIsConsistent /\ LineNeverForks
  BY InitConsistentLemma, InitForkLemma
<1>2. StorageIsConsistent /\ LineNeverForks /\ [Next]_vars
          => (StorageIsConsistent /\ LineNeverForks)'
  BY StepConsistentLemma, StepForkLemma
<1> QED
  BY <1>1, <1>2, PTL DEF Spec

-----------------------------------------------------------------------------
(* The chain from the head is the whole line.                              *)

LEMMA StepReachLemma ==
    StorageIsConsistent /\ HeadReachesEveryRecord /\ [Next]_vars => HeadReachesEveryRecord'
<1> SUFFICES ASSUME StorageIsConsistent, HeadReachesEveryRecord, [Next]_vars
             PROVE  HeadReachesEveryRecord'
  OBVIOUS
<1> DEFINE onto(line, m) == appliedOntoV5(Key(line[1], line[2], m))
<1>1. TypeOK
  BY DEF StorageIsConsistent
<1>2. \A key \in Recorded : LineOf(key) \in Lines
  BY RecordedKeys DEF Recorded
<1>3. CASE AppliesNothing
  <2>1. Recorded' = Recorded
    BY <1>3, FieldsKept
  <2>2. \A line \in Lines : HeadOf(line)' = HeadOf(line) /\ AppliedIn(line)' = AppliedIn(line)
    BY <1>3, FieldsKept
  <2>3. \A line \in Lines : \A m \in AppliedIn(line) : onto(line, m)' = onto(line, m)
    BY <1>3, FieldsKept, LineKeys
  <2> SUFFICES ASSUME NEW line \in {LineOf(key) : key \in Recorded'},
                      NEW reached \in SUBSET MigrationWords,
                      HeadOf(line)' \in reached,
                      \A m \in reached \cap AppliedIn(line)' : onto(line, m)' \in reached
               PROVE  AppliedIn(line)' \cup {Genesis} \subseteq reached
    BY DEF HeadReachesEveryRecord
  <2>4. line \in Lines /\ line \in {LineOf(key) : key \in Recorded}
    BY <1>2, <2>1
  <2> HIDE DEF onto
  <2>5. HeadOf(line) \in reached /\ \A m \in reached \cap AppliedIn(line) : onto(line, m) \in reached
    BY <2>2, <2>3, <2>4
  <2>6. AppliedIn(line) \cup {Genesis} \subseteq reached
    BY <2>4, <2>5 DEF HeadReachesEveryRecord, onto
  <2> QED
    BY <2>2, <2>4, <2>6
<1>4. ASSUME NEW key \in Prerequisite, NEW list \in Seq(Prerequisite),
             NEW appliedAt \in Nat, NEW sender \in Accounts,
             Applies(key, list, appliedAt, sender)
      PROVE  HeadReachesEveryRecord'
  <2>1. Recorded' = Recorded \cup {key}
    BY <1>1, <1>4, RecordedAfter
  <2>2. \A line \in Lines : \A m \in AppliedIn(line) : onto(line, m)' = onto(line, m)
    BY <1>1, <1>4, AppliedInAfter
  <2> SUFFICES ASSUME NEW line \in {LineOf(k) : k \in Recorded'},
                      NEW reached \in SUBSET MigrationWords,
                      HeadOf(line)' \in reached,
                      \A m \in reached \cap AppliedIn(line)' : onto(line, m)' \in reached
               PROVE  AppliedIn(line)' \cup {Genesis} \subseteq reached
    BY DEF HeadReachesEveryRecord
  <2>3. line \in Lines
    BY <1>2, <2>1, RecordedKeys
  <2>4. CASE line # LineOf(key)
    <3>1. line \in {LineOf(k) : k \in Recorded}
      BY <2>1, <2>4
    <3>2. AppliedIn(line)' = AppliedIn(line) /\ HeadOf(line)' = HeadOf(line)
      BY <1>1, <1>4, <2>3, <2>4, AppliedInAfter, HeadAfter
    <3> HIDE DEF onto
    <3>3. HeadOf(line) \in reached
              /\ \A m \in reached \cap AppliedIn(line) : onto(line, m) \in reached
      BY <2>2, <2>3, <3>2
    <3> QED
      BY <3>1, <3>2, <3>3 DEF HeadReachesEveryRecord, onto
  <2>5. CASE line = LineOf(key)
    <3>1. /\ AppliedIn(line)' = AppliedIn(line) \cup {key.migration}
          /\ HeadOf(line)' = key.migration
      BY <1>1, <1>4, <2>3, <2>5, AppliedInAfter, HeadAfter
    <3>2. Key(line[1], line[2], key.migration) = key
      BY <2>5, HeadUnappliedLemma, <1>4
    <3>3. onto(line, key.migration)' = HeadOf(line)
      BY <1>1, <1>4, <2>5, <3>2, FieldsAfter
    <3> HIDE DEF onto
    <3>4. key.migration \in reached
      BY <3>1
    <3>5. HeadOf(line) \in reached
      BY <3>1, <3>3, <3>4
    <3>6. \A m \in reached \cap AppliedIn(line) : onto(line, m) \in reached
      BY <2>2, <2>3, <3>1
    <3>7. CASE line \in {LineOf(k) : k \in Recorded}
      BY <3>1, <3>4, <3>5, <3>6, <3>7 DEF HeadReachesEveryRecord, onto
    <3>8. CASE line \notin {LineOf(k) : k \in Recorded}
      <4>1. AppliedIn(line) = {}
        BY <2>3, <3>8, LineKeys
      <4>2. HeadOf(line) = Genesis
        BY <2>3, <4>1 DEF StorageIsConsistent, HeadsAreRecorded
      <4> QED
        BY <3>1, <3>4, <3>5, <4>1, <4>2
    <3> QED
      BY <3>7, <3>8
  <2> QED
    BY <2>4, <2>5
<1> QED
  BY <1>1, <1>3, <1>4, StepLemma

\* Walking appliedOntoV5 from a line's head visits every record of the line
\* and ends at genesis, however long the line is.
THEOREM HeadReachesEveryRecordTheorem == Spec => []HeadReachesEveryRecord
<1>1. Init => HeadReachesEveryRecord
  <2>1. Init => Recorded = {}
    BY KeyOfFields DEF Init, Recorded, appliedV5, record, NoRecord
  <2> QED
    BY <2>1 DEF HeadReachesEveryRecord
<1>2. Init => StorageIsConsistent /\ HeadReachesEveryRecord
  BY <1>1, InitConsistentLemma
<1>3. StorageIsConsistent /\ HeadReachesEveryRecord /\ [Next]_vars
          => (StorageIsConsistent /\ HeadReachesEveryRecord)'
  BY StepConsistentLemma, StepReachLemma
<1> QED
  BY <1>2, <1>3, PTL DEF Spec

-----------------------------------------------------------------------------
(* The moments.                                                            *)

LEMMA PredecessorLemma ==
    ASSUME StorageIsConsistent, NEW key \in Recorded
    PROVE  LET before == Key(key.writer, key.namespace, appliedOntoV5(key)) IN
           /\ before \in Prerequisite
           /\ before \in Recorded \/ appliedV5(before) = 0
<1> DEFINE before == Key(key.writer, key.namespace, appliedOntoV5(key))
           list == appliedAfterV5(key)
<1>1. key \in Prerequisite /\ TypeOK
  BY DEF Recorded, StorageIsConsistent
<1>2. list # <<>> /\ list[1] = before
  BY DEF StorageIsConsistent, RecordsJoinTheirLine
<1>3. list \in Seq(Prerequisite)
  BY <1>1, RecordType DEF appliedAfterV5
<1>4. before \in Prerequisite
  BY <1>2, <1>3, HeadOfElement
<1> QED
  BY <1>4 DEF Recorded

LEMMA StepMomentsLemma ==
    StorageIsConsistent /\ MomentsFollowTheChain /\ [Next]_vars => MomentsFollowTheChain'
<1> SUFFICES ASSUME StorageIsConsistent, MomentsFollowTheChain, [Next]_vars
             PROVE  MomentsFollowTheChain'
  OBVIOUS
<1> DEFINE before(k) == Key(k.writer, k.namespace, appliedOntoV5(k))
<1>1. TypeOK /\ now \in Nat
  BY DEF StorageIsConsistent, TypeOK
<1>2. \A k \in Recorded : /\ before(k) \in Prerequisite
                          /\ before(k) \in Recorded \/ appliedV5(before(k)) = 0
  BY PredecessorLemma
<1>3. \A k \in Prerequisite : appliedV5(k) \in Nat
  BY <1>1, RecordType DEF appliedV5
<1>4. \A k \in Recorded : appliedV5(k) <= now /\ appliedV5(before(k)) <= appliedV5(k)
  BY DEF MomentsFollowTheChain
<1>5. Recorded \subseteq Prerequisite
  BY DEF Recorded
<1>6. CASE AppliesNothing
  <2>1. /\ Recorded' = Recorded /\ now' \in Nat /\ now <= now'
        /\ \A k \in Prerequisite : /\ appliedV5(k)' = appliedV5(k)
                                   /\ appliedOntoV5(k)' = appliedOntoV5(k)
    BY <1>6, FieldsKept DEF AppliesNothing
  <2>2. \A k \in Recorded : appliedV5(before(k))' = appliedV5(before(k))
    BY <1>2, <1>5, <2>1 DEF appliedV5, record, Key
  <2> HIDE DEF before
  <2>3. \A k \in Recorded :
            appliedV5(k)' <= now' /\ appliedV5(before(k))' <= appliedV5(k)'
    BY <1>1, <1>2, <1>3, <1>4, <1>5, <2>1, <2>2
  <2> QED
    BY <2>1, <2>3 DEF MomentsFollowTheChain, before
<1>7. ASSUME NEW key \in Prerequisite, NEW list \in Seq(Prerequisite),
             NEW appliedAt \in Nat, NEW sender \in Accounts,
             Applies(key, list, appliedAt, sender)
      PROVE  MomentsFollowTheChain'
  <2>1. Recorded' = Recorded \cup {key} /\ key \notin Recorded /\ now' = now
    BY <1>1, <1>7, RecordedAfter DEF Applies
  <2>2. /\ appliedV5(key)' = appliedAt /\ appliedOntoV5(key)' = HeadOf(LineOf(key))
        /\ \A k \in Recorded : /\ appliedV5(k)' = appliedV5(k)
                               /\ appliedOntoV5(k)' = appliedOntoV5(k)
    BY <1>1, <1>7, FieldsAfter
  <2>3. \A k \in Prerequisite : k # key => appliedV5(k)' = appliedV5(k)
    BY <1>1, <1>7, RecordAfter DEF appliedV5
  <2>4. before(key)' = list[1]
    BY <2>2, <1>7 DEF Applies
  <2>5. /\ appliedAt <= now /\ appliedV5(list[1]) <= appliedAt
        /\ list[1] \in Prerequisite /\ list[1] # key
    <3>1. list # <<>> /\ appliedAt <= now /\ appliedV5(list[1]) <= appliedAt
          /\ list[1] = Key(key.writer, key.namespace, HeadOf(LineOf(key)))
      BY <1>7 DEF Applies
    <3>2. list[1].migration # key.migration
      BY <1>7, <3>1, HeadUnappliedLemma, KeyFields
    <3> QED
      BY <3>1, <3>2, HeadOfElement
  <2>6. appliedV5(list[1])' = appliedV5(list[1])
    BY <2>3, <2>5
  <2>7. appliedV5(before(key))' <= appliedV5(key)' /\ appliedV5(key)' <= now'
    BY <2>1, <2>2, <2>4, <2>5, <2>6
  <2>8. \A k \in Recorded : before(k)' = before(k)
    BY <2>2
  <2>9. \A k \in Recorded : appliedV5(k)' <= now' /\ appliedV5(before(k))' <= appliedV5(k)'
    <3> SUFFICES ASSUME NEW k \in Recorded
                 PROVE  appliedV5(k)' <= now' /\ appliedV5(before(k))' <= appliedV5(k)'
      OBVIOUS
    <3>1. before(k) # key
      <4>1. CASE before(k) \in Recorded
        BY <2>1, <4>1
      <4>2. CASE before(k) \notin Recorded
        <5>1. before(k) = appliedAfterV5(k)[1] /\ before(k).migration = Genesis
          BY <4>2 DEF StorageIsConsistent, RecordsJoinTheirLine
        <5> QED
          BY <1>7, <5>1, ConstantsAssumption DEF Applies
      <4> QED
        BY <4>1, <4>2
    <3>2. appliedV5(before(k))' = appliedV5(before(k))
      <4>1. before(k) \in Prerequisite
        BY <1>2
      <4> HIDE DEF before
      <4>2. \A other \in Prerequisite : other = before(k) => appliedV5(other)' = appliedV5(other)
        BY <2>3, <3>1
      <4> QED
        BY <2>8, <4>1, <4>2 DEF appliedV5, record
    <3> HIDE DEF before
    <3> QED
      BY <1>4, <2>1, <2>2, <3>2
  <2> QED
    BY <2>1, <2>7, <2>9 DEF MomentsFollowTheChain
<1> QED
  BY <1>1, <1>6, <1>7, StepLemma

\* Along a line the moments never decrease and never pass the block, though
\* a caller may supply them.
THEOREM MomentsFollowTheChainTheorem == Spec => []MomentsFollowTheChain
<1>1. Init => MomentsFollowTheChain
  <2>1. Init => Recorded = {}
    BY KeyOfFields DEF Init, Recorded, appliedV5, record, NoRecord
  <2> QED
    BY <2>1 DEF MomentsFollowTheChain
<1>2. Init => StorageIsConsistent /\ MomentsFollowTheChain
  BY <1>1, InitConsistentLemma
<1>3. StorageIsConsistent /\ MomentsFollowTheChain /\ [Next]_vars
          => (StorageIsConsistent /\ MomentsFollowTheChain)'
  BY StepConsistentLemma, StepMomentsLemma
<1> QED
  BY <1>2, <1>3, PTL DEF Spec

-----------------------------------------------------------------------------
(* The order across lines.                                                 *)

\* What an entry of a record's list is.
LEMMA EntryLemma ==
    ASSUME StorageIsConsistent, NEW key \in Recorded, NEW entry \in AppliedAfter(key)
    PROVE  entry.migration = Genesis \/ entry \in Recorded
<1> DEFINE list == appliedAfterV5(key)
<1>1. list \in Seq(Prerequisite)
  BY RecordType DEF StorageIsConsistent, Recorded, appliedAfterV5
<1>2. PICK i \in DOMAIN list : entry = list[i]
  BY DEF AppliedAfter
<1>3. CASE i = 1
  BY <1>2, <1>3 DEF StorageIsConsistent, RecordsJoinTheirLine
<1>4. CASE i # 1
  <2>1. i \in 2..Len(list)
    BY <1>1, <1>2, <1>4
  <2> QED
    BY <1>2, <2>1 DEF StorageIsConsistent, PrerequisitesExist
<1> QED
  BY <1>3, <1>4

LEMMA StepAcyclicLemma ==
    StorageIsConsistent /\ OrderAcrossLinesIsAcyclic /\ [Next]_vars
        => OrderAcrossLinesIsAcyclic'
<1> SUFFICES ASSUME StorageIsConsistent, OrderAcrossLinesIsAcyclic, [Next]_vars
             PROVE  OrderAcrossLinesIsAcyclic'
  OBVIOUS
<1>1. TypeOK /\ StorageIsConsistent'
  BY StepConsistentLemma DEF StorageIsConsistent
<1>2. CASE AppliesNothing
  <2>1. /\ Recorded' = Recorded
        /\ \A key \in Recorded : appliedAfterV5(key)' = appliedAfterV5(key)
    BY <1>2, FieldsKept DEF Recorded
  <2>2. \A key \in Recorded : AppliedAfter(key)' = AppliedAfter(key)
    BY <2>1 DEF AppliedAfter
  <2> QED
    BY <2>1, <2>2 DEF OrderAcrossLinesIsAcyclic
<1>3. ASSUME NEW key \in Prerequisite, NEW list \in Seq(Prerequisite),
             NEW appliedAt \in Nat, NEW sender \in Accounts,
             Applies(key, list, appliedAt, sender)
      PROVE  OrderAcrossLinesIsAcyclic'
  <2>1. Recorded' = Recorded \cup {key} /\ key \notin Recorded
    BY <1>1, <1>3, RecordedAfter DEF Applies
  <2>2. \A other \in Recorded : AppliedAfter(other)' = AppliedAfter(other)
    BY <1>1, <1>3, FieldsAfter DEF AppliedAfter
  <2>3. key.migration # Genesis
    BY <1>3, ConstantsAssumption DEF Applies
  \* Nothing was applied after key before it existed.
  <2>4. \A other \in Recorded : key \notin AppliedAfter(other)
    BY <2>1, <2>3, EntryLemma
  \* key was not applied after itself.
  <2>5. key \notin AppliedAfter(key)'
    <3>1. AppliedAfter(key)' = {list[i] : i \in DOMAIN list}
      BY <1>1, <1>3, FieldsAfter DEF AppliedAfter
    <3>2. list # <<>> /\ list[1].migration = HeadOf(LineOf(key))
      BY <1>3, KeyFields DEF Applies
    <3>3. list[1] # key
      BY <1>3, <3>2, HeadUnappliedLemma
    <3>4. \A i \in 2..Len(list) : list[i] # key
      BY <1>3 DEF Applies
    <3>5. \A i \in DOMAIN list : i = 1 \/ i \in 2..Len(list)
      OBVIOUS
    <3> QED
      BY <3>1, <3>3, <3>4, <3>5
  <2> SUFFICES ASSUME NEW cycle \in SUBSET Recorded',
                      \A member \in cycle : AppliedAfter(member)' \cap cycle # {}
               PROVE  cycle = {}
    BY DEF OrderAcrossLinesIsAcyclic
  <2> DEFINE old == cycle \ {key}
  <2>6. old \in SUBSET Recorded
    BY <2>1
  <2>7. \A member \in old : AppliedAfter(member) \cap old # {}
    BY <2>2, <2>4, <2>6
  <2>8. old = {}
    BY <2>6, <2>7 DEF OrderAcrossLinesIsAcyclic
  <2> QED
    BY <2>5, <2>8
<1> QED
  BY <1>1, <1>2, <1>3, StepLemma

\* No set of records of any lines waited on one another, though any writer
\* may name any other writer's records and moments may be backfilled.
THEOREM OrderAcrossLinesIsAcyclicTheorem == Spec => []OrderAcrossLinesIsAcyclic
<1>1. Init => OrderAcrossLinesIsAcyclic
  <2>1. Init => Recorded = {}
    BY KeyOfFields DEF Init, Recorded, appliedV5, record, NoRecord
  <2> QED
    BY <2>1 DEF OrderAcrossLinesIsAcyclic
<1>2. Init => StorageIsConsistent /\ OrderAcrossLinesIsAcyclic
  BY <1>1, InitConsistentLemma
<1>3. StorageIsConsistent /\ OrderAcrossLinesIsAcyclic /\ [Next]_vars
          => (StorageIsConsistent /\ OrderAcrossLinesIsAcyclic)'
  BY StepConsistentLemma, StepAcyclicLemma
<1> QED
  BY <1>2, <1>3, PTL DEF Spec

-----------------------------------------------------------------------------
(* What no step does.                                                      *)

\* No call changes a record that exists.
THEOREM RecordsNeverChangeTheorem == Spec => RecordsNeverChange
<1>1. StorageIsConsistent /\ [Next]_vars => \A key \in Recorded : record(key)' = record(key)
  <2> SUFFICES ASSUME StorageIsConsistent, [Next]_vars
               PROVE  \A key \in Recorded : record(key)' = record(key)
    OBVIOUS
  <2>1. TypeOK
    BY DEF StorageIsConsistent
  <2>2. CASE AppliesNothing
    BY <2>2 DEF AppliesNothing, registryVars, record
  <2>3. CASE \E key \in Prerequisite, list \in Seq(Prerequisite),
                appliedAt \in Nat, sender \in Accounts :
                    Applies(key, list, appliedAt, sender)
    BY <2>1, <2>3, RecordedAfter
  <2> QED
    BY <2>1, <2>2, <2>3, StepLemma
<1> QED
  BY <1>1, StorageConsistent, PTL DEF Spec, RecordsNeverChange

\* A step moves at most one head, onto a migration its line has never been
\* at, and that migration remembers the head it replaced.
THEOREM HeadsOnlyAdvanceTheorem == Spec => HeadsOnlyAdvance
<1> DEFINE Advance ==
        \A line \in Lines : HeadOf(line)' # HeadOf(line) =>
            /\ \E m \in MigrationWords \ AppliedIn(line) :
                   /\ HeadOf(line)' = m
                   /\ appliedOntoV5(Key(line[1], line[2], m))' = HeadOf(line)
            /\ \A other \in Lines \ {line} : HeadOf(other)' = HeadOf(other)
<1>1. StorageIsConsistent /\ [Next]_vars => Advance
  <2> SUFFICES ASSUME StorageIsConsistent, [Next]_vars,
                      NEW line \in Lines, HeadOf(line)' # HeadOf(line)
               PROVE  /\ \E m \in MigrationWords \ AppliedIn(line) :
                             /\ HeadOf(line)' = m
                             /\ appliedOntoV5(Key(line[1], line[2], m))' = HeadOf(line)
                      /\ \A other \in Lines \ {line} : HeadOf(other)' = HeadOf(other)
    OBVIOUS
  <2>1. TypeOK
    BY DEF StorageIsConsistent
  <2>2. ~AppliesNothing
    BY FieldsKept
  <2>3. PICK key \in Prerequisite, list \in Seq(Prerequisite),
             appliedAt \in Nat, sender \in Accounts : Applies(key, list, appliedAt, sender)
    BY <2>1, <2>2, StepLemma
  <2>4. line = LineOf(key) /\ HeadOf(line)' = key.migration
    BY <2>1, <2>3, HeadAfter
  <2>5. /\ key.migration \in MigrationWords \ AppliedIn(line)
        /\ Key(line[1], line[2], key.migration) = key
    BY <2>3, <2>4, HeadUnappliedLemma, KeyOfFields
  <2>6. appliedOntoV5(key)' = HeadOf(line)
    BY <2>1, <2>3, <2>4, FieldsAfter
  <2>7. appliedOntoV5(Key(line[1], line[2], key.migration))' = HeadOf(line)
    BY <2>5, <2>6
  <2>8. \A other \in Lines \ {line} : HeadOf(other)' = HeadOf(other)
    BY <2>1, <2>3, <2>4, HeadAfter
  <2> QED
    BY <2>4, <2>5, <2>7, <2>8
<1> QED
  BY <1>1, StorageConsistent, PTL DEF Spec, HeadsOnlyAdvance

\* Every record was written by an account its writer let write that line at
\* that moment.
THEOREM RecordsAreAuthorisedTheorem == Spec => RecordsAreAuthorised
<1> DEFINE Authorised ==
        \A key \in Recorded' \ Recorded :
            \/ appliedByV5(key)' = key.writer
            \/ appliedByV5(key)' \in sApproved[key.writer][key.namespace]
            \/ appliedByV5(key)' \in sApprovedUnscoped[key.writer]
<1>1. TypeOK /\ [Next]_vars => Authorised
  <2> SUFFICES ASSUME TypeOK, [Next]_vars, NEW new \in Recorded' \ Recorded
               PROVE  \/ appliedByV5(new)' = new.writer
                      \/ appliedByV5(new)' \in sApproved[new.writer][new.namespace]
                      \/ appliedByV5(new)' \in sApprovedUnscoped[new.writer]
    OBVIOUS
  <2>1. ~AppliesNothing
    BY FieldsKept
  <2>2. PICK key \in Prerequisite, list \in Seq(Prerequisite),
             appliedAt \in Nat, sender \in Accounts : Applies(key, list, appliedAt, sender)
    BY <2>1, StepLemma
  <2>3. new = key
    BY <2>2, RecordedAfter
  <2>4. appliedByV5(key)' = sender
    BY <2>2, FieldsAfter
  <2> QED
    BY <2>2, <2>3, <2>4 DEF Applies, MayWrite
<1> QED
  BY <1>1, TypeCorrect, PTL DEF Spec, RecordsAreAuthorised

-----------------------------------------------------------------------------
(* A line spells one chain.                                                *)

\* Any set of natural numbers has a least one: what stands for an induction.
LEMMA LeastNumber ==
    ASSUME NEW T, T \subseteq Nat, T # {}
    PROVE  \E k \in T : \A other \in T : k <= other
<1> DEFINE Less == {pair \in Nat \X Nat : pair[1] < pair[2]}
<1>1. IsWellFoundedOn(Less, Nat)
  BY NatLessThanWellFounded DEF OpToRel
<1>2. \E k \in T : \A other \in T : ~(<<other, k>> \in Less)
  <2> HIDE DEF Less
  <2> QED
    BY <1>1, WFMin
<1>3. PICK k \in T : \A other \in T : ~(<<other, k>> \in Less)
  BY <1>2
<1>4. \A other \in T : ~(other < k)
  BY <1>3
<1> QED
  BY <1>4

\* What a chain of a line is, field by field.
LEMMA ChainFields ==
    ASSUME NEW applied, IsFiniteSet(applied), NEW onto, NEW head,
           NEW chain \in Chains(applied, onto, head)
    PROVE  /\ Cardinality(applied) \in Nat
           /\ applied = {} <=> Cardinality(applied) = 0
           /\ chain \in [1..Cardinality(applied) -> applied]
           /\ \A m \in applied : \E i \in 1..Cardinality(applied) : chain[i] = m
           /\ \A i \in 1..Cardinality(applied) :
                  onto[chain[i]] = IF i = 1 THEN Genesis ELSE chain[i - 1]
           /\ head = IF applied = {} THEN Genesis ELSE chain[Cardinality(applied)]
<1>1. Cardinality(applied) \in Nat /\ (applied = {} <=> Cardinality(applied) = 0)
  BY FS_CardinalityType, FS_EmptySet
<1>2. chain \in [1..Cardinality(applied) -> applied] /\ IsChain(applied, onto, head, chain)
  BY DEF Chains
<1>3. DOMAIN chain = 1..Cardinality(applied)
  BY <1>2
<1> QED
  BY <1>1, <1>2, <1>3 DEF IsChain

\* Read down from the head, two chains of the same line never part.
LEMMA OneChain ==
    ASSUME NEW applied, IsFiniteSet(applied), NEW onto, NEW head,
           NEW c \in Chains(applied, onto, head), NEW d \in Chains(applied, onto, head)
    PROVE  c = d
<1> DEFINE n == Cardinality(applied)
           T == {k \in 0..(n - 1) : c[n - k] # d[n - k]}
<1>1. /\ n \in Nat
      /\ applied = {} <=> n = 0
      /\ c \in [1..n -> applied] /\ d \in [1..n -> applied]
      /\ head = IF applied = {} THEN Genesis ELSE c[n]
      /\ head = IF applied = {} THEN Genesis ELSE d[n]
      /\ \A i \in 1..n : /\ onto[c[i]] = IF i = 1 THEN Genesis ELSE c[i - 1]
                         /\ onto[d[i]] = IF i = 1 THEN Genesis ELSE d[i - 1]
  BY ChainFields
<1> HIDE DEF n
<1>2. T = {}
  <2> SUFFICES ASSUME T # {} PROVE FALSE
    OBVIOUS
  <2>1. T \subseteq Nat
    BY <1>1
  <2>2. PICK k \in T : \A other \in T : k <= other
    <3> HIDE DEF T
    <3> QED
      BY <2>1, LeastNumber
  <2>3. k \in 0..(n - 1) /\ c[n - k] # d[n - k]
    OBVIOUS
  <2>4. CASE k = 0
    BY <1>1, <2>3, <2>4
  <2>5. CASE k # 0
    <3> DEFINE i == (n - k) + 1
    <3>1. i \in 1..n /\ i # 1 /\ i - 1 = n - k /\ k - 1 \in 0..(n - 1) /\ n - (k - 1) = i
      BY <1>1, <2>3, <2>5
    <3>2. k - 1 \notin T
      BY <2>2, <2>3, <2>5
    <3>3. c[i] = d[i]
      BY <3>1, <3>2
    <3>4. onto[c[i]] = c[i - 1] /\ onto[d[i]] = d[i - 1]
      BY <1>1, <3>1
    <3> QED
      BY <2>3, <3>1, <3>3, <3>4
  <2> QED
    BY <2>4, <2>5
<1>3. \A i \in 1..n : c[i] = d[i]
  <2> TAKE i \in 1..n
  <2>1. n - i \in 0..(n - 1) /\ n - (n - i) = i
    BY <1>1
  <2> QED
    BY <1>2, <2>1
<1> QED
  BY <1>1, <1>3

\* `longer' is `chain' and m after it, and m is onto the head of `chain'.
Grows(applied, onto, head, chain, m, longerOnto, longer) ==
    /\ chain \in Chains(applied, onto, head)
    /\ m \notin applied
    /\ longerOnto[m] = head
    /\ \A x \in applied : longerOnto[x] = onto[x]
    /\ longer \in [1..(Cardinality(applied) + 1) -> applied \cup {m}]
    /\ longer[Cardinality(applied) + 1] = m
    /\ \A i \in 1..Cardinality(applied) : longer[i] = chain[i]

\* A chain with one more migration on its head is a chain up to that.
LEMMA ChainGrows ==
    ASSUME NEW applied, IsFiniteSet(applied), NEW onto, NEW head, NEW chain, NEW m,
           NEW longerOnto, NEW longer,
           Grows(applied, onto, head, chain, m, longerOnto, longer)
    PROVE  /\ IsFiniteSet(applied \cup {m})
           /\ longer \in Chains(applied \cup {m}, longerOnto, m)
<1> DEFINE n == Cardinality(applied)
<1>1. /\ n \in Nat
      /\ applied = {} <=> n = 0
      /\ chain \in [1..n -> applied]
      /\ \A x \in applied : \E i \in 1..n : chain[i] = x
      /\ \A i \in 1..n : onto[chain[i]] = IF i = 1 THEN Genesis ELSE chain[i - 1]
      /\ head = IF applied = {} THEN Genesis ELSE chain[n]
  BY ChainFields DEF Grows
<1>2. IsFiniteSet(applied \cup {m}) /\ Cardinality(applied \cup {m}) = n + 1
  BY FS_AddElement DEF Grows
<1>3. longer \in [1..(n + 1) -> applied \cup {m}]
  BY DEF Grows
<1>4. longer[n + 1] = m /\ \A i \in 1..n : longer[i] = chain[i]
  BY DEF Grows
<1>5. longerOnto[m] = head /\ \A x \in applied : longerOnto[x] = onto[x]
  BY DEF Grows
<1> HIDE DEF n
<1>6. \A x \in applied \cup {m} : \E i \in 1..(n + 1) : longer[i] = x
  <2>1. n + 1 \in 1..(n + 1) /\ 1..n \subseteq 1..(n + 1)
    BY <1>1
  <2> QED
    BY <1>1, <1>4, <2>1
<1>7. \A i \in 1..(n + 1) : longerOnto[longer[i]] = IF i = 1 THEN Genesis ELSE longer[i - 1]
  <2> TAKE i \in 1..(n + 1)
  <2>1. CASE i = n + 1
    <3>1. longerOnto[longer[i]] = head
      BY <1>4, <1>5, <2>1
    <3>2. CASE n = 0
      BY <1>1, <2>1, <3>1, <3>2
    <3>3. CASE n # 0
      <4>1. i # 1 /\ i - 1 = n /\ n \in 1..n
        BY <1>1, <2>1, <3>3
      <4>2. longer[i - 1] = chain[n]
        BY <1>4, <4>1
      <4> QED
        BY <1>1, <3>1, <3>3, <4>1, <4>2
    <3> QED
      BY <3>2, <3>3
  <2>2. CASE i # n + 1
    <3>1. i \in 1..n /\ (i # 1 => i - 1 \in 1..n)
      BY <1>1, <2>2
    <3>2. longer[i] = chain[i] /\ chain[i] \in applied
      BY <1>1, <1>4, <3>1
    <3>3. longerOnto[longer[i]] = IF i = 1 THEN Genesis ELSE chain[i - 1]
      BY <1>1, <1>5, <3>1, <3>2
    <3>4. i # 1 => longer[i - 1] = chain[i - 1]
      BY <1>4, <3>1
    <3> QED
      BY <3>3, <3>4
  <2> QED
    BY <2>1, <2>2
<1>8. DOMAIN longer = 1..(n + 1)
  BY <1>3
<1>9. IsChain(applied \cup {m}, longerOnto, m, longer)
  BY <1>2, <1>4, <1>6, <1>7, <1>8 DEF IsChain
<1> QED
  BY <1>2, <1>3, <1>9 DEF Chains, n


-----------------------------------------------------------------------------
(* The log of a line.                                                      *)

\* The log that one chain of the line spells.
LogFrom(line, chain) ==
    [i \in DOMAIN chain |-> Entry(Key(line[1], line[2], chain[i]))]

ChainsIn(line) == Chains(AppliedIn(line), OntoIn(line), HeadOf(line))

\* Every line spells a chain.
LinesAreChains ==
    \A line \in Lines : IsFiniteSet(AppliedIn(line)) /\ ChainsIn(line) # {}

\* The log of a line is what its one chain spells.
LEMMA LogNow ==
    ASSUME NEW line, IsFiniteSet(AppliedIn(line)), NEW chain \in ChainsIn(line)
    PROVE  LogOf(line) = LogFrom(line, chain)
<1>1. \A other \in ChainsIn(line) : other = chain
  BY OneChain DEF ChainsIn
<1>2. LogsOf(line) = {LogFrom(line, other) : other \in ChainsIn(line)}
  BY DEF LogsOf, LogFrom, ChainsIn
<1>3. LogsOf(line) = {LogFrom(line, chain)}
  BY <1>1, <1>2
<1> QED
  BY <1>3 DEF LogOf

\* The same, after a step.
LEMMA LogNext ==
    ASSUME NEW line, IsFiniteSet(AppliedIn(line)'), NEW chain \in ChainsIn(line)'
    PROVE  LogOf(line)' = LogFrom(line, chain)'
<1>1. \A other \in ChainsIn(line)' : other = chain
  BY OneChain DEF ChainsIn
<1>2. LogsOf(line)' = {LogFrom(line, other)' : other \in ChainsIn(line)'}
  BY DEF LogsOf, LogFrom, ChainsIn
<1>3. LogsOf(line)' = {LogFrom(line, chain)'}
  BY <1>1, <1>2
<1> QED
  BY <1>3 DEF LogOf

\* A line that spells a chain has one, of all its migrations, and its log is what that spells.
LEMMA ChainIn ==
    ASSUME NEW line \in Lines, LinesAreChains
    PROVE  /\ IsFiniteSet(AppliedIn(line)) /\ Cardinality(AppliedIn(line)) \in Nat
           /\ \E chain \in ChainsIn(line) :
                  /\ chain \in [1..Cardinality(AppliedIn(line)) -> AppliedIn(line)]
                  /\ \A m \in AppliedIn(line) :
                         \E i \in 1..Cardinality(AppliedIn(line)) : chain[i] = m
                  /\ AppliedIn(line) = {} <=> Cardinality(AppliedIn(line)) = 0
                  /\ HeadOf(line) = IF AppliedIn(line) = {} THEN Genesis
                                    ELSE chain[Cardinality(AppliedIn(line))]
                  /\ LogOf(line) = LogFrom(line, chain)
<1>1. IsFiniteSet(AppliedIn(line)) /\ ChainsIn(line) # {}
  BY DEF LinesAreChains
<1>2. PICK chain \in ChainsIn(line) : TRUE
  BY <1>1
<1>3. LogOf(line) = LogFrom(line, chain)
  BY <1>1, LogNow
<1>4. chain \in Chains(AppliedIn(line), OntoIn(line), HeadOf(line))
  BY DEF ChainsIn
<1>5. /\ Cardinality(AppliedIn(line)) \in Nat
      /\ AppliedIn(line) = {} <=> Cardinality(AppliedIn(line)) = 0
      /\ chain \in [1..Cardinality(AppliedIn(line)) -> AppliedIn(line)]
      /\ \A m \in AppliedIn(line) : \E i \in 1..Cardinality(AppliedIn(line)) : chain[i] = m
      /\ HeadOf(line) = IF AppliedIn(line) = {} THEN Genesis
                        ELSE chain[Cardinality(AppliedIn(line))]
  BY <1>1, <1>4, ChainFields
<1> QED
  BY <1>1, <1>3, <1>5

\* A record that does not change leaves its entry as it is.
LEMMA EntryKept ==
    ASSUME NEW key, record(key)' = record(key)
    PROVE  Entry(key)' = Entry(key)
BY DEF Entry, appliedV5, appliedAfterV5, appliedByV5, WaitsOf

\* A line that nothing is applied to keeps its chain and its log.
LEMMA LineKept ==
    ASSUME LinesAreChains, NEW line \in Lines,
           AppliedIn(line)' = AppliedIn(line), HeadOf(line)' = HeadOf(line),
           \A key \in Recorded : record(key)' = record(key)
    PROVE  /\ IsFiniteSet(AppliedIn(line)') /\ ChainsIn(line)' # {}
           /\ LogOf(line)' = LogOf(line)
<1>1. \A m \in AppliedIn(line) : Key(line[1], line[2], m) \in Recorded
  BY LineKeys
<1>2. OntoIn(line)' = OntoIn(line)
  <2>1. \A m \in AppliedIn(line) :
            appliedOntoV5(Key(line[1], line[2], m))' = appliedOntoV5(Key(line[1], line[2], m))
    BY <1>1 DEF appliedOntoV5
  <2> QED
    BY <2>1 DEF OntoIn
<1>3. ChainsIn(line)' = ChainsIn(line)
  BY <1>2 DEF ChainsIn
<1>4. PICK chain \in ChainsIn(line) :
          /\ chain \in [1..Cardinality(AppliedIn(line)) -> AppliedIn(line)]
          /\ LogOf(line) = LogFrom(line, chain)
  BY ChainIn
<1>5. IsFiniteSet(AppliedIn(line))
  BY DEF LinesAreChains
<1>6. LogOf(line)' = LogFrom(line, chain)'
  BY <1>3, <1>5, LogNext
<1>7. LogFrom(line, chain)' = LogFrom(line, chain)
  <2>1. \A i \in DOMAIN chain : Key(line[1], line[2], chain[i]) \in Recorded
    BY <1>1, <1>4
  <2>2. \A i \in DOMAIN chain :
            Entry(Key(line[1], line[2], chain[i]))' = Entry(Key(line[1], line[2], chain[i]))
    BY <2>1, EntryKept
  <2> QED
    BY <2>2 DEF LogFrom
<1> QED
  BY <1>3, <1>4, <1>5, <1>6, <1>7

\* The line a migration is applied to gets its entry at the end of its log.
LEMMA LineGrows ==
    ASSUME StorageIsConsistent, LinesAreChains,
           NEW key \in Prerequisite, NEW list \in Seq(Prerequisite),
           NEW appliedAt \in Nat, NEW sender \in Accounts,
           Applies(key, list, appliedAt, sender)
    PROVE  LET line == LineOf(key) IN
           /\ IsFiniteSet(AppliedIn(line)') /\ ChainsIn(line)' # {}
           /\ LogOf(line)' = [i \in 1..(Cardinality(AppliedIn(line)) + 1) |->
                  IF i = Cardinality(AppliedIn(line)) + 1 THEN Entry(key)' ELSE LogOf(line)[i]]
<1> DEFINE line == LineOf(key)
           n == Cardinality(AppliedIn(line))
           m == key.migration
<1>1. TypeOK
  BY DEF StorageIsConsistent
<1>2. /\ line \in Lines
      /\ m \notin AppliedIn(line)
      /\ Key(line[1], line[2], m) = key
  BY HeadUnappliedLemma
<1>3. AppliedIn(line)' = AppliedIn(line) \cup {m} /\ HeadOf(line)' = m
  BY <1>1, <1>2, AppliedInAfter, HeadAfter
<1>4. /\ IsFiniteSet(AppliedIn(line)) /\ n \in Nat
      /\ \E chain \in ChainsIn(line) :
             /\ chain \in [1..n -> AppliedIn(line)]
             /\ LogOf(line) = LogFrom(line, chain)
  BY <1>2, ChainIn
<1>5. PICK chain \in ChainsIn(line) :
          /\ chain \in [1..n -> AppliedIn(line)]
          /\ LogOf(line) = LogFrom(line, chain)
  BY <1>4
<1>6. /\ OntoIn(line)'[m] = HeadOf(line)
      /\ \A x \in AppliedIn(line) : OntoIn(line)'[x] = OntoIn(line)[x]
  <2>1. appliedOntoV5(key)' = HeadOf(line)
    BY <1>1, FieldsAfter
  <2>2. \A x \in AppliedIn(line) :
            appliedOntoV5(Key(line[1], line[2], x))' = appliedOntoV5(Key(line[1], line[2], x))
    BY <1>1, <1>2, AppliedInAfter
  <2>3. appliedOntoV5(Key(line[1], line[2], m))' = HeadOf(line)
    BY <1>2, <2>1
  <2> QED
    BY <1>3, <2>2, <2>3 DEF OntoIn
<1>7. PICK longer :
          /\ longer \in [1..(n + 1) -> AppliedIn(line) \cup {m}]
          /\ longer[n + 1] = m
          /\ \A i \in 1..n : longer[i] = chain[i]
  <2> DEFINE grown == [i \in 1..(n + 1) |-> IF i = n + 1 THEN m ELSE chain[i]]
  <2>1. /\ n + 1 \in 1..(n + 1)
        /\ \A i \in 1..n : i \in 1..(n + 1) /\ i # n + 1
        /\ \A i \in 1..(n + 1) : i # n + 1 => i \in 1..n
    BY <1>4
  <2> HIDE DEF n
  <2>2. grown \in [1..(n + 1) -> AppliedIn(line) \cup {m}]
    BY <1>5, <2>1
  <2>3. grown[n + 1] = m /\ \A i \in 1..n : grown[i] = chain[i]
    BY <2>1
  <2> QED
    BY <2>2, <2>3
<1>13. /\ IsFiniteSet(AppliedIn(line) \cup {m})
       /\ longer \in Chains(AppliedIn(line) \cup {m}, OntoIn(line)', m)
  <2>1. chain \in Chains(AppliedIn(line), OntoIn(line), HeadOf(line))
    BY DEF ChainsIn
  <2>2. Grows(AppliedIn(line), OntoIn(line), HeadOf(line), chain, m, OntoIn(line)', longer)
    BY <1>2, <1>6, <1>7, <2>1 DEF Grows
  <2> QED
    BY <1>4, <2>2, ChainGrows
<1>8. IsFiniteSet(AppliedIn(line)') /\ longer \in ChainsIn(line)'
  BY <1>3, <1>13 DEF ChainsIn
<1>9. LogOf(line)' = LogFrom(line, longer)'
  BY <1>8, LogNext
<1>10. \A i \in 1..n : Entry(Key(line[1], line[2], chain[i]))' = LogOf(line)[i]
  <2> TAKE i \in 1..n
  <2>1. Key(line[1], line[2], chain[i]) \in Recorded
    BY <1>2, <1>5, LineKeys
  <2>2. Entry(Key(line[1], line[2], chain[i]))' = Entry(Key(line[1], line[2], chain[i]))
    BY <1>1, <2>1, RecordedAfter, EntryKept
  <2> QED
    BY <1>5, <2>2 DEF LogFrom
<1>11. Entry(Key(line[1], line[2], m))' = Entry(key)'
  BY <1>2
<1>12. LogFrom(line, longer)' = [i \in 1..(n + 1) |->
                  IF i = n + 1 THEN Entry(key)' ELSE LogOf(line)[i]]
  <2>1. \A i \in 1..(n + 1) : Entry(Key(line[1], line[2], longer[i]))' =
            IF i = n + 1 THEN Entry(key)' ELSE LogOf(line)[i]
    <3> TAKE i \in 1..(n + 1)
    <3>1. CASE i = n + 1
      BY <1>7, <1>11, <3>1
    <3>2. CASE i # n + 1
      <4>1. i \in 1..n /\ longer[i] = chain[i]
        BY <1>4, <1>7, <3>2
      <4> QED
        BY <1>10, <3>2, <4>1
    <3> QED
      BY <3>1, <3>2
  <2>2. DOMAIN longer = 1..(n + 1)
    BY <1>7
  <2> QED
    BY <2>1, <2>2 DEF LogFrom
<1> QED
  BY <1>8, <1>9, <1>12

\* Append, entry by entry.
LEMMA AppendIs ==
    ASSUME NEW n \in Nat, NEW log, log = [i \in 1..n |-> log[i]], NEW entry
    PROVE  /\ Len(log) = n
           /\ log = <<>> <=> n = 0
           /\ Append(log, entry) = [i \in 1..(n + 1) |-> IF i = n + 1 THEN entry ELSE log[i]]
<1> DEFINE S == {log[i] : i \in 1..n} \cup {entry}
           longer == [i \in 1..(n + 1) |-> IF i = n + 1 THEN entry ELSE log[i]]
<1>1. log \in [1..n -> S]
  OBVIOUS
<1>2. log \in Seq(S) /\ Len(log) = n
  <2> HIDE DEF S
  <2> QED
    BY <1>1
<1>3. Append(log, entry) \in Seq(S) /\ Len(Append(log, entry)) = n + 1
  BY <1>2
<1>4. \A i \in 1..(n + 1) : Append(log, entry)[i] = IF i = n + 1 THEN entry ELSE log[i]
  <2> TAKE i \in 1..(n + 1)
  <2>1. i = n + 1 \/ i \in 1..n
    OBVIOUS
  <2> QED
    BY <1>2, <2>1
<1>5. Append(log, entry) = [i \in 1..(n + 1) |-> Append(log, entry)[i]]
  BY <1>3
<1> QED
  BY <1>2, <1>4, <1>5

\* The log of a line holds its migrations, and ends with its head.
LEMMA LogFields ==
    ASSUME LinesAreChains, NEW line \in Lines
    PROVE  LET n == Cardinality(AppliedIn(line)) IN
           /\ n \in Nat
           /\ LogOf(line) = [i \in 1..n |-> LogOf(line)[i]]
           /\ \A i \in 1..n : LogOf(line)[i].migration \in AppliedIn(line)
           /\ \A m \in AppliedIn(line) : \E i \in 1..n : LogOf(line)[i].migration = m
           /\ n # 0 => LogOf(line)[n] = Entry(Key(line[1], line[2], HeadOf(line)))
<1> DEFINE n == Cardinality(AppliedIn(line))
<1>1. n \in Nat
  BY ChainIn
<1>2. PICK chain \in ChainsIn(line) :
          /\ chain \in [1..n -> AppliedIn(line)]
          /\ \A m \in AppliedIn(line) : \E i \in 1..n : chain[i] = m
          /\ n # 0 => HeadOf(line) = chain[n]
          /\ LogOf(line) = LogFrom(line, chain)
  BY ChainIn
<1> HIDE DEF n
<1>3. LogOf(line) = [i \in 1..n |-> Entry(Key(line[1], line[2], chain[i]))]
  BY <1>2 DEF LogFrom
<1>4. \A i \in 1..n : LogOf(line)[i] = Entry(Key(line[1], line[2], chain[i]))
  BY <1>3
<1>5. \A i \in 1..n : LogOf(line)[i].migration = chain[i]
  <2>1. \A key : Entry(key).migration = key.migration
    BY DEF Entry
  <2>2. \A m : Key(line[1], line[2], m).migration = m
    BY DEF Key
  <2> QED
    BY <1>4, <2>1, <2>2
<1>6. LogOf(line) = [i \in 1..n |-> LogOf(line)[i]]
  BY <1>3
<1>7. n # 0 => LogOf(line)[n] = Entry(Key(line[1], line[2], HeadOf(line)))
  BY <1>1, <1>2, <1>4
<1>8. /\ \A i \in 1..n : LogOf(line)[i].migration \in AppliedIn(line)
      /\ \A m \in AppliedIn(line) : \E i \in 1..n : LogOf(line)[i].migration = m
  BY <1>2, <1>5
<1> QED
  BY <1>1, <1>6, <1>7, <1>8 DEF n

\* At first every line spells the chain of nothing.
LEMMA InitChainsLemma == Init => LinesAreChains /\ \A line \in Lines : LogOf(line) = <<>>
<1> SUFFICES ASSUME Init, NEW line \in Lines
             PROVE  IsFiniteSet(AppliedIn(line)) /\ ChainsIn(line) # {} /\ LogOf(line) = <<>>
  BY DEF LinesAreChains
<1>1. AppliedIn(line) = {} /\ HeadOf(line) = Genesis
  BY LineKeys, KeyOfFields DEF Init, AppliedIn, appliedV5, record, NoRecord, HeadOf, headV5, Lines
<1>2. IsFiniteSet({}) /\ Cardinality({}) = 0
  BY FS_EmptySet
<1>3. <<>> \in [1..0 -> {}] /\ DOMAIN <<>> = {}
  OBVIOUS
<1>4. IsChain({}, OntoIn(line), Genesis, <<>>)
  BY <1>3 DEF IsChain
<1>5. <<>> \in ChainsIn(line)
  BY <1>1, <1>2, <1>3, <1>4 DEF ChainsIn, Chains
<1>6. LogOf(line) = LogFrom(line, <<>>)
  BY <1>1, <1>2, <1>5, LogNow
<1>7. LogFrom(line, <<>>) = <<>>
  BY <1>3 DEF LogFrom
<1> QED
  BY <1>1, <1>2, <1>5, <1>6, <1>7

\* A step leaves every line a chain, and changes one log at most.
LEMMA StepChainsLemma ==
    StorageIsConsistent /\ LinesAreChains /\ [Next]_vars => LinesAreChains'
<1> SUFFICES ASSUME StorageIsConsistent, LinesAreChains, [Next]_vars,
                    NEW line \in Lines
             PROVE  IsFiniteSet(AppliedIn(line)') /\ ChainsIn(line)' # {}
  BY DEF LinesAreChains
<1>1. TypeOK
  BY DEF StorageIsConsistent
<1>2. CASE AppliesNothing
  <2>1. \A key \in Recorded : record(key)' = record(key)
    BY <1>2 DEF AppliesNothing, registryVars, record
  <2> QED
    BY <1>2, <2>1, FieldsKept, LineKept
<1>3. ASSUME NEW key \in Prerequisite, NEW list \in Seq(Prerequisite),
             NEW appliedAt \in Nat, NEW sender \in Accounts,
             Applies(key, list, appliedAt, sender)
      PROVE  IsFiniteSet(AppliedIn(line)') /\ ChainsIn(line)' # {}
  <2>1. CASE line = LineOf(key)
    BY <1>3, <2>1, LineGrows
  <2>2. CASE line # LineOf(key)
    <3>1. AppliedIn(line)' = AppliedIn(line) /\ HeadOf(line)' = HeadOf(line)
      BY <1>1, <1>3, <2>2, AppliedInAfter, HeadAfter
    <3>2. \A other \in Recorded : record(other)' = record(other)
      BY <1>1, <1>3, RecordedAfter
    <3> QED
      BY <3>1, <3>2, LineKept
  <2> QED
    BY <2>1, <2>2
<1> QED
  BY <1>1, <1>2, <1>3, StepLemma


-----------------------------------------------------------------------------
(* The registry implements the log.                                        *)

\* A record's line can be written.
LEMMA RecordedLine ==
    ASSUME StorageIsConsistent, NEW key \in Recorded
    PROVE  /\ LineOf(key) \in Accounts \X Namespaces
           /\ key.migration \in Migrations
<1>1. key \in Prerequisite /\ checkRecordKey(key)
  BY DEF StorageIsConsistent, RecordsAreReadable, Recorded
<1>2. /\ key.writer \in Accounts \cup {ZeroAddress}
      /\ key.namespace \in Namespaces \cup {ZeroBytes32}
      /\ key.migration \in Migrations \cup {ZeroBytes32, Genesis}
  BY <1>1, KeyOfFields DEF Addresses, Words, MigrationWords
<1> QED
  BY <1>1, <1>2 DEF checkRecordKey, checkLineKey, LineOf

\* What a log holds is what is recorded.
LEMMA LogHolds ==
    ASSUME LinesAreChains, NEW line \in Lines, line \in Accounts \X Namespaces, NEW m
    PROVE  Log!Holds(line, m) <=> m \in AppliedIn(line)
<1> DEFINE n == Cardinality(AppliedIn(line))
<1>1. /\ LogOf(line) = [i \in 1..n |-> LogOf(line)[i]]
      /\ \A i \in 1..n : LogOf(line)[i].migration \in AppliedIn(line)
      /\ \A x \in AppliedIn(line) : \E i \in 1..n : LogOf(line)[i].migration = x
  BY LogFields
<1>2. DOMAIN LogOf(line) = 1..n
  BY <1>1
<1>3. Log!Holds(line, m) <=> \E i \in 1..n : LogOf(line)[i].migration = m
  BY <1>2 DEF Log!Holds, Log!EntriesOf
<1> QED
  BY <1>1, <1>3

\* The entry an applied migration makes is one its line may have next.
LEMMA EntryIsNext ==
    ASSUME StorageIsConsistent, LinesAreChains,
           NEW key \in Prerequisite, NEW list \in Seq(Prerequisite),
           NEW appliedAt \in Nat, NEW sender \in Accounts,
           Applies(key, list, appliedAt, sender),
           NEW entry, entry = [migration |-> key.migration, at |-> appliedAt,
                               waits |-> WaitsOf(list), by |-> sender]
    PROVE  /\ LineOf(key) \in Accounts \X Namespaces
           /\ entry \in Log!Entries
           /\ ~Log!Holds(LineOf(key), entry.migration)
           /\ LogOf(LineOf(key)) # <<>> =>
                  LogOf(LineOf(key))[Len(LogOf(LineOf(key)))].at <= entry.at
           /\ \A wait \in entry.waits :
                  wait[1] # LineOf(key) /\ Log!Holds(wait[1], wait[2])
<1> DEFINE line == LineOf(key)
           n == Cardinality(AppliedIn(line))
<1>1. /\ line \in Accounts \X Namespaces
      /\ line \in Lines
      /\ key.migration \in Migrations
      /\ key.migration \notin AppliedIn(line)
      /\ appliedAt \in 1..now
  <2>1. line \in Lines /\ key.migration \notin AppliedIn(line)
    BY HeadUnappliedLemma
  <2>2. line \in Accounts \X Namespaces /\ key.migration \in Migrations
    BY DEF Applies, LineOf
  <2>3. appliedAt # 0 /\ appliedAt <= now /\ now \in Nat
    BY DEF Applies, StorageIsConsistent, TypeOK
  <2> QED
    BY <2>1, <2>2, <2>3
<1>2. \A wait \in WaitsOf(list) :
          /\ wait \in (Accounts \X Namespaces) \X Migrations
          /\ wait[1] # line
          /\ Log!Holds(wait[1], wait[2])
  <2> SUFFICES ASSUME NEW wait \in WaitsOf(list)
               PROVE  /\ wait \in (Accounts \X Namespaces) \X Migrations
                      /\ wait[1] # line
                      /\ Log!Holds(wait[1], wait[2])
    OBVIOUS
  <2> PICK i \in 2..Len(list) : wait = <<LineOf(list[i]), list[i].migration>>
    BY DEF WaitsOf
  <2>5. wait[1] = LineOf(list[i]) /\ wait[2] = list[i].migration
    OBVIOUS
  <2>1. list[i] \in Recorded /\ LineOf(list[i]) # line
    BY DEF Applies
  <2>2. list[i] \in Prerequisite
    BY <2>1 DEF Recorded
  <2>3. /\ LineOf(list[i]) \in Accounts \X Namespaces
        /\ list[i].migration \in Migrations
    BY <2>1, RecordedLine
  <2>4. LineOf(list[i]) \in Lines /\ list[i].migration \in AppliedIn(LineOf(list[i]))
    BY <2>1, <2>2, RecordedKeys
  <2>6. Log!Holds(LineOf(list[i]), list[i].migration)
    BY <2>3, <2>4, LogHolds
  <2> QED
    BY <2>1, <2>3, <2>5, <2>6
<1>3. entry \in Log!Entries
  <2>1. WaitsOf(list) \in SUBSET ((Accounts \X Namespaces) \X Migrations)
    BY <1>2
  <2> QED
    BY <1>1, <2>1 DEF Log!Entries
<1>4. ~Log!Holds(line, key.migration)
  BY <1>1, LogHolds
<1>5. LogOf(line) # <<>> => LogOf(line)[Len(LogOf(line))].at <= appliedAt
  <2>1. /\ n \in Nat
        /\ LogOf(line) = [i \in 1..n |-> LogOf(line)[i]]
        /\ n # 0 => LogOf(line)[n] = Entry(Key(line[1], line[2], HeadOf(line)))
    BY <1>1, LogFields
  <2>2. Len(LogOf(line)) = n /\ (LogOf(line) = <<>> <=> n = 0)
    BY <2>1, AppendIs
  <2>3. list[1] = Key(line[1], line[2], HeadOf(line)) /\ appliedV5(list[1]) <= appliedAt
    BY DEF Applies, LineOf
  <2>4. Entry(list[1]).at = appliedV5(list[1])
    BY DEF Entry
  <2> QED
    BY <2>1, <2>2, <2>3, <2>4
<1> QED
  BY <1>1, <1>2, <1>3, <1>4, <1>5

\* Applying a migration is Extend of its line.
LEMMA ApplyExtends ==
    ASSUME StorageIsConsistent, LinesAreChains,
           NEW key \in Prerequisite, NEW list \in Seq(Prerequisite),
           NEW appliedAt \in Nat, NEW sender \in Accounts,
           Applies(key, list, appliedAt, sender)
    PROVE  Log!Next
<1> DEFINE line == LineOf(key)
           n == Cardinality(AppliedIn(line))
<1>1. TypeOK
  BY DEF StorageIsConsistent
<1>2. PICK entry : entry = [migration |-> key.migration, at |-> appliedAt,
                            waits |-> WaitsOf(list), by |-> sender]
  OBVIOUS
<1>3. Entry(key)' = entry
  BY <1>1, <1>2, FieldsAfter DEF Entry, WaitsOf
<1>4. /\ line \in Accounts \X Namespaces
      /\ entry \in Log!Entries
      /\ ~Log!Holds(line, entry.migration)
      /\ LogOf(line) # <<>> => LogOf(line)[Len(LogOf(line))].at <= entry.at
      /\ \A wait \in entry.waits : wait[1] # line /\ Log!Holds(wait[1], wait[2])
  BY <1>2, EntryIsNext
<1>5. Accounts \X Namespaces \subseteq Lines
  BY DEF Lines, Addresses, Words
<1>6. /\ n \in Nat
      /\ LogOf(line) = [i \in 1..n |-> LogOf(line)[i]]
  BY <1>4, <1>5, LogFields
<1>7. LogOf(line)' = [i \in 1..(n + 1) |-> IF i = n + 1 THEN entry ELSE LogOf(line)[i]]
  BY <1>3, LineGrows
<1>8. LogOf(line)' = Append(LogOf(line), entry)
  BY <1>6, <1>7, AppendIs
<1>9. entry \in {LogOf(line)'[i] : i \in DOMAIN LogOf(line)'}
  <2>1. n + 1 \in DOMAIN LogOf(line)' /\ LogOf(line)'[n + 1] = entry
    BY <1>6, <1>7
  <2> QED
    BY <2>1
<1>10. \A other \in Accounts \X Namespaces : other # line => LogOf(other)' = LogOf(other)
  <2> SUFFICES ASSUME NEW other \in Lines, other # line PROVE LogOf(other)' = LogOf(other)
    BY <1>5
  <2>1. AppliedIn(other)' = AppliedIn(other) /\ HeadOf(other)' = HeadOf(other)
    BY <1>1, AppliedInAfter, HeadAfter
  <2>2. \A there \in Recorded : record(there)' = record(there)
    BY <1>1, RecordedAfter
  <2> QED
    BY <2>1, <2>2, LineKept
<1> DEFINE logs == [other \in Accounts \X Namespaces |-> LogOf(other)]
<1>11. logs' = [logs EXCEPT ![line] = Append(logs[line], entry)]
  BY <1>4, <1>8, <1>10
<1>12. now' = now
  BY DEF Applies
<1>13. Log!Extend(line, entry)
  BY <1>4, <1>11, <1>12 DEF Log!Extend
<1>14. entry \in Log!EntriesOf(logs'[line])
  BY <1>4, <1>9 DEF Log!EntriesOf
<1> QED
  BY <1>4, <1>13, <1>14 DEF Log!Next

\* The registry implements the log: each migration applied is one entry more at
\* the end of one line's log and nothing else ever changes a log, with any
\* number of accounts, namespaces, migrations and calls.  (applyMigrationRecord.)
THEOREM ImplementsLogTheorem == Spec => ImplementsLog
<1> DEFINE logs == [line \in Accounts \X Namespaces |-> LogOf(line)]
<1>1. Accounts \X Namespaces \subseteq Lines
  BY DEF Lines, Addresses, Words
<1>2. Init => Log!Init
  BY <1>1, InitChainsLemma DEF Init, Log!Init
<1>3. StorageIsConsistent /\ LinesAreChains /\ [Next]_vars => [Log!Next]_<<logs, now>>
  <2> SUFFICES ASSUME StorageIsConsistent, LinesAreChains, [Next]_vars
               PROVE  Log!Next \/ (logs' = logs /\ now' = now)
    OBVIOUS
  <2>1. TypeOK
    BY DEF StorageIsConsistent
  <2>2. CASE AppliesNothing
    <3>1. \A key \in Recorded : record(key)' = record(key)
      BY <2>2 DEF AppliesNothing, registryVars, record
    <3>2. \A line \in Lines : LogOf(line)' = LogOf(line)
      BY <2>2, <3>1, FieldsKept, LineKept
    <3>3. logs' = logs
      BY <1>1, <3>2
    <3>4. now' > now \/ now' = now
      BY <2>1, <2>2 DEF AppliesNothing, TypeOK
    <3> QED
      BY <3>3, <3>4 DEF Log!Next, Log!Tick
  <2>3. CASE \E key \in Prerequisite, list \in Seq(Prerequisite),
                appliedAt \in Nat, sender \in Accounts :
                    Applies(key, list, appliedAt, sender)
    BY <2>3, ApplyExtends
  <2> QED
    BY <2>1, <2>2, <2>3, StepLemma
<1>4. Init => StorageIsConsistent /\ LinesAreChains
  BY InitConsistentLemma, InitChainsLemma
<1>5. StorageIsConsistent /\ LinesAreChains /\ [Next]_vars
          => (StorageIsConsistent /\ LinesAreChains)'
  BY StepConsistentLemma, StepChainsLemma
<1> QED
  BY <1>2, <1>3, <1>4, <1>5, PTL DEF Spec, Log!Spec, ImplementsLog
=============================================================================
