----------------------- MODULE MigrationDispatchProofs -----------------------
(***************************************************************************)
(* Proofs, for every set of scripts, every plan of who writes which line   *)
(* after what, and every number of copies of a batch, of the safety that   *)
(* MigrationDispatch promises.                                             *)
(*                                                                         *)
(* The record of a migration and its effects appear in one step, so the    *)
(* records are the scripts that ran (EffectsAreRecorded): what the         *)
(* registry asks of its records, it asks of the scripts.                   *)
(***************************************************************************)
EXTENDS MigrationDispatch, SequenceTheorems, TLAPS

StorageTyped ==
    /\ sRecords \in [Registry!Addresses -> [Registry!Words ->
                        [Registry!MigrationWords -> Registry!MigrationRecord]]]
    /\ sHead \in [Registry!Addresses -> [Registry!Words -> Migrations \cup {ZeroBytes32}]]
    /\ now \in Nat

DispatchTyped ==
    /\ registryLive \in BOOLEAN
    /\ outstanding \in [Scripts -> Nat]
    /\ ran \in Seq(Scripts)

\* A batch is built only once the registry is there, and it stays there.
OutstandingNeedsRegistry ==
    \A s \in Scripts : outstanding[s] > 0 => registryLive

\* The head a line is at is one of its records.
HeadsAreRecorded ==
    \A writer \in Registry!Addresses, namespace \in Registry!Words :
        \/ sHead[writer][namespace] = ZeroBytes32
        \/ Registry!Key(writer, namespace, sHead[writer][namespace]) \in Registry!Recorded

\* The last script of a line that ran, if one did, is where the line is.
OfLine(s, writer, namespace) == Plan[s].writer = writer /\ Plan[s].namespace = namespace

LineEndsAt(list, writer, namespace, target) ==
    \/ /\ target.migration = Genesis
       /\ \A i \in 1..Len(list) : ~OfLine(list[i], writer, namespace)
    \/ \E i \in 1..Len(list) :
           /\ OfLine(list[i], writer, namespace)
           /\ KeyOf(list[i]) = target
           /\ \A j \in 1..Len(list) : j > i => ~OfLine(list[j], writer, namespace)

HeadsEndTheirLines ==
    \A writer \in Registry!Addresses, namespace \in Registry!Words :
        LineEndsAt(ran, writer, namespace,
                   Registry!Key(writer, namespace, Registry!headV5(writer, namespace)))

IInv ==
    /\ StorageTyped
    /\ DispatchTyped
    /\ OutstandingNeedsRegistry
    /\ HeadsAreRecorded
    /\ HeadsEndTheirLines
    /\ EffectsAreRecorded
    /\ EffectsHappenOnce
    /\ EffectsFollowTheirPrerequisites

\* What landing a script's batch does to the chain, of the code's checks what
\* the properties need.
Writes(s) ==
    LET key == KeyOf(s)
        list == Plan[s].prerequisites
    IN
    /\ key \notin Registry!Recorded
    /\ key.migration \in Migrations
    /\ now # 0
    /\ list # <<>>
    /\ list[1] = Registry!Key(key.writer, key.namespace, Registry!headV5(key.writer, key.namespace))
    /\ \A i \in 2..Len(list) : list[i] \in Registry!Recorded
    /\ sRecords' = [sRecords EXCEPT ![key.writer][key.namespace][key.migration] =
           [appliedAt |-> now, appliedAfter |-> list, writtenBy |-> Plan[s].sender]]
    /\ sHead' = [sHead EXCEPT ![key.writer][key.namespace] = key.migration]
    /\ now' = now

-----------------------------------------------------------------------------
(* What a landed batch does.                                               *)

LEMMA PlanFields ==
    ASSUME NEW s \in Scripts
    PROVE  /\ Plan[s].sender \in Registry!Addresses
           /\ Plan[s].prerequisites \in Seq(Registry!Prerequisite)
           /\ KeyOf(s) \in Registry!Prerequisite
           /\ KeyOf(s).writer = Plan[s].writer /\ Plan[s].writer \in Registry!Addresses
           /\ KeyOf(s).namespace = Plan[s].namespace /\ Plan[s].namespace \in Registry!Words
           /\ KeyOf(s).migration = Plan[s].migration
           /\ Plan[s].migration \in Registry!MigrationWords
BY DispatchAssumption DEF KeyOf, Registry!Key, Registry!Prerequisite, Registry!Addresses

LEMMA WriteLemma ==
    ASSUME NEW s \in Scripts, RegistryWrite(s)
    PROVE  Writes(s)
<1> DEFINE list == Plan[s].prerequisites
           key == KeyOf(s)
<1>1. /\ key = Registry!Key(Plan[s].writer, Plan[s].namespace, Plan[s].migration)
      /\ key.writer = Plan[s].writer
      /\ key.namespace = Plan[s].namespace
      /\ key.migration = Plan[s].migration
      /\ key \in Registry!Prerequisite
      /\ key.migration \in Registry!MigrationWords
      /\ list \in Seq(Registry!Prerequisite)
  BY PlanFields DEF KeyOf
<1>2. /\ Registry!checkMigrationArguments(key.namespace, key.migration, now)
      /\ Registry!checkHead(key.writer, key.namespace, list)
      /\ Registry!checkWaits(key.writer, key.namespace, list)
      /\ Registry!writeMigrationRecord(Plan[s].sender, key.writer, key.namespace,
                                       key.migration, now, list)
      /\ now' = now
  BY <1>1 DEF RegistryWrite, Registry!applyMigrationV5, Registry!applyMigrationRecord,
     Registry!checkPrerequisites
<1>3. key.migration \in Migrations /\ now # 0
  BY <1>1, <1>2 DEF Registry!checkMigrationArguments, Registry!MigrationWords
<1>4. list # <<>> /\ list[1] = Registry!Key(key.writer, key.namespace,
                                            Registry!headV5(key.writer, key.namespace))
  BY <1>1, <1>2 DEF Registry!checkHead
<1>5. \A i \in 2..Len(list) : list[i] \in Registry!Recorded
  BY <1>1, <1>2 DEF Registry!checkWaits, Registry!Recorded
<1>6. key \notin Registry!Recorded
  BY <1>1, <1>2 DEF Registry!writeMigrationRecord, Registry!checkNotApplied, Registry!Recorded
<1> QED
  BY <1>1, <1>2, <1>3, <1>4, <1>5, <1>6 DEF Writes, Registry!writeMigrationRecord

LEMMA RecordAfter ==
    ASSUME StorageTyped, NEW s \in Scripts, Writes(s), NEW other \in Registry!Prerequisite
    PROVE  IF other = KeyOf(s) THEN Registry!appliedV5(other)' = now
           ELSE Registry!appliedV5(other)' = Registry!appliedV5(other)
<1> DEFINE key == KeyOf(s)
<1>1. /\ key.writer \in Registry!Addresses /\ key.namespace \in Registry!Words
      /\ key.migration \in Registry!MigrationWords
      /\ other.writer \in Registry!Addresses /\ other.namespace \in Registry!Words
      /\ other.migration \in Registry!MigrationWords
      /\ key \in Registry!Prerequisite
  BY PlanFields DEF Registry!Prerequisite
<1>2. other # key => \/ other.writer # key.writer
                     \/ other.namespace # key.namespace
                     \/ other.migration # key.migration
  BY <1>1 DEF Registry!Prerequisite
<1> HIDE DEF key
<1>3. sRecords' = [sRecords EXCEPT ![key.writer][key.namespace][key.migration] =
          [appliedAt |-> now, appliedAfter |-> Plan[s].prerequisites, writtenBy |-> Plan[s].sender]]
  BY DEF Writes, key
<1> QED
  BY <1>1, <1>2, <1>3 DEF StorageTyped, Registry!record, Registry!appliedV5, key

\* One record is new, and it is the script's.
LEMMA RecordedAfter ==
    ASSUME StorageTyped, NEW s \in Scripts, Writes(s)
    PROVE  Registry!Recorded' = Registry!Recorded \cup {KeyOf(s)}
<1>1. KeyOf(s) \in Registry!Prerequisite /\ now # 0
  BY PlanFields DEF Writes
<1>2. \A other \in Registry!Prerequisite :
          Registry!appliedV5(other)' # 0 <=> (other = KeyOf(s) \/ Registry!appliedV5(other) # 0)
  BY <1>1, RecordAfter
<1> QED
  BY <1>1, <1>2 DEF Registry!Recorded

LEMMA StorageTypedAfter ==
    ASSUME StorageTyped, NEW s \in Scripts, Writes(s)
    PROVE  StorageTyped'
<1> DEFINE key == KeyOf(s)
           entry == [appliedAt |-> now, appliedAfter |-> Plan[s].prerequisites,
                     writtenBy |-> Plan[s].sender]
<1>1. /\ key.writer \in Registry!Addresses /\ key.namespace \in Registry!Words
      /\ key.migration \in Registry!MigrationWords
      /\ entry \in Registry!MigrationRecord
  BY PlanFields DEF Registry!MigrationRecord, StorageTyped
<1>2. /\ sRecords' = [sRecords EXCEPT ![key.writer][key.namespace][key.migration] = entry]
      /\ sHead' = [sHead EXCEPT ![key.writer][key.namespace] = key.migration]
      /\ key.migration \in Migrations
      /\ now' = now
  BY DEF Writes
<1> HIDE DEF key, entry
<1> QED
  BY <1>1, <1>2 DEF StorageTyped

LEMMA HeadsRecordedAfter ==
    ASSUME StorageTyped, HeadsAreRecorded, NEW s \in Scripts, Writes(s)
    PROVE  HeadsAreRecorded'
<1> DEFINE key == KeyOf(s)
<1>1. /\ key.writer \in Registry!Addresses /\ key.namespace \in Registry!Words
      /\ key = Registry!Key(key.writer, key.namespace, key.migration)
  BY PlanFields DEF KeyOf
<1>2. sHead' = [sHead EXCEPT ![key.writer][key.namespace] = key.migration]
  BY DEF Writes
<1>3. Registry!Recorded' = Registry!Recorded \cup {key}
  BY RecordedAfter
<1> HIDE DEF key
<1> SUFFICES ASSUME NEW writer \in Registry!Addresses, NEW namespace \in Registry!Words
             PROVE  \/ sHead'[writer][namespace] = ZeroBytes32
                    \/ Registry!Key(writer, namespace, sHead'[writer][namespace])
                           \in Registry!Recorded'
  BY DEF HeadsAreRecorded, Registry!Key
<1>4. CASE writer = key.writer /\ namespace = key.namespace
  <2>1. sHead'[writer][namespace] = key.migration
    BY <1>1, <1>2, <1>4 DEF StorageTyped
  <2> QED
    BY <1>1, <1>3, <1>4, <2>1
<1>5. CASE ~(writer = key.writer /\ namespace = key.namespace)
  <2>1. sHead'[writer][namespace] = sHead[writer][namespace]
    BY <1>1, <1>2, <1>5 DEF StorageTyped
  <2> QED
    BY <1>3, <2>1 DEF HeadsAreRecorded
<1> QED
  BY <1>4, <1>5

-----------------------------------------------------------------------------
(* The scripts that ran.                                                   *)

LEMMA AppendScript ==
    ASSUME ran \in Seq(Scripts), NEW s \in Scripts, ran' = Append(ran, s)
    PROVE  /\ ran' \in Seq(Scripts)
           /\ Len(ran') = Len(ran) + 1
           /\ Len(ran) \in Nat
           /\ DOMAIN ran = 1..Len(ran)
           /\ DOMAIN ran' = 1..(Len(ran) + 1)
           /\ \A i \in 1..Len(ran) : ran'[i] = ran[i] /\ ran[i] \in Scripts
           /\ ran'[Len(ran) + 1] = s
           /\ Ran' = Ran \cup {s}
<1>1. /\ ran' \in Seq(Scripts)
      /\ Len(ran') = Len(ran) + 1
      /\ Len(ran) \in Nat
      /\ DOMAIN ran = 1..Len(ran)
      /\ DOMAIN ran' = 1..(Len(ran) + 1)
      /\ \A i \in 1..Len(ran) : ran'[i] = ran[i] /\ ran[i] \in Scripts
      /\ ran'[Len(ran) + 1] = s
  OBVIOUS
<1>2. 1..(Len(ran) + 1) = (1..Len(ran)) \cup {Len(ran) + 1}
  BY <1>1
<1>3. Ran' = Ran \cup {s}
  BY <1>1, <1>2 DEF Ran
<1> QED
  BY <1>1, <1>3

\* The head of a script that lands ends its line, and no other line's end moves.
LEMMA LinesEndAfter ==
    ASSUME StorageTyped, DispatchTyped, HeadsEndTheirLines, NEW s \in Scripts, Writes(s),
           ran' = Append(ran, s)
    PROVE  HeadsEndTheirLines'
<1> DEFINE key == KeyOf(s)
<1>1. /\ key.writer \in Registry!Addresses /\ key.namespace \in Registry!Words
      /\ key.writer = Plan[s].writer /\ key.namespace = Plan[s].namespace
      /\ key = Registry!Key(key.writer, key.namespace, key.migration)
  BY PlanFields DEF KeyOf
<1>2. /\ sHead' = [sHead EXCEPT ![key.writer][key.namespace] = key.migration]
      /\ key.migration # ZeroBytes32
  BY DispatchAssumption DEF Writes
<1>3. /\ Len(ran') = Len(ran) + 1 /\ Len(ran) \in Nat
      /\ \A i \in 1..Len(ran) : ran'[i] = ran[i] /\ i \in 1..Len(ran')
      /\ ran'[Len(ran) + 1] = s
      /\ \A i \in 1..Len(ran') : i \in 1..Len(ran) \/ i = Len(ran) + 1
  BY AppendScript DEF DispatchTyped
<1> HIDE DEF key
<1> SUFFICES ASSUME NEW writer \in Registry!Addresses, NEW namespace \in Registry!Words
             PROVE  LineEndsAt(ran, writer, namespace,
                        Registry!Key(writer, namespace, Registry!headV5(writer, namespace)))'
  BY DEF HeadsEndTheirLines
<1> DEFINE head == Registry!headV5(writer, namespace)'
<1> SUFFICES LineEndsAt(ran', writer, namespace, Registry!Key(writer, namespace, head))
  BY DEF LineEndsAt, OfLine, KeyOf, Registry!Key
<1>4. OfLine(s, writer, namespace) <=> writer = key.writer /\ namespace = key.namespace
  BY <1>1 DEF OfLine
<1>5. CASE writer = key.writer /\ namespace = key.namespace
  <2>1. head = key.migration
    BY <1>1, <1>2, <1>5 DEF StorageTyped, Registry!headV5
  <2> HIDE DEF head
  <2>2. KeyOf(s) = Registry!Key(writer, namespace, head)
    BY <1>1, <1>5, <2>1 DEF key
  <2>3. \A j \in 1..Len(ran') : ~(j > Len(ran) + 1)
    BY <1>3
  <2>4. Len(ran) + 1 \in 1..Len(ran')
    BY <1>3
  <2> QED
    BY <1>3, <1>4, <1>5, <2>2, <2>3, <2>4 DEF LineEndsAt
<1>6. CASE ~(writer = key.writer /\ namespace = key.namespace)
  <2>1. head = Registry!headV5(writer, namespace)
    BY <1>1, <1>2, <1>6 DEF StorageTyped, Registry!headV5
  <2> HIDE DEF head
  <2> DEFINE target == Registry!Key(writer, namespace, head)
  <2>2. LineEndsAt(ran, writer, namespace, target)
    BY <2>1 DEF HeadsEndTheirLines
  <2> HIDE DEF target
  <2>3. CASE /\ target.migration = Genesis
             /\ \A i \in 1..Len(ran) : ~OfLine(ran[i], writer, namespace)
    BY <1>3, <1>4, <1>6, <2>3 DEF LineEndsAt, target
  <2>4. CASE \E i \in 1..Len(ran) :
                 /\ OfLine(ran[i], writer, namespace)
                 /\ KeyOf(ran[i]) = target
                 /\ \A j \in 1..Len(ran) : j > i => ~OfLine(ran[j], writer, namespace)
    <3>1. PICK i \in 1..Len(ran) :
                 /\ OfLine(ran[i], writer, namespace)
                 /\ KeyOf(ran[i]) = target
                 /\ \A j \in 1..Len(ran) : j > i => ~OfLine(ran[j], writer, namespace)
      BY <2>4
    <3>2. i \in 1..Len(ran') /\ ran'[i] = ran[i]
      BY <1>3
    <3>3. \A j \in 1..Len(ran') : j > i => ~OfLine(ran'[j], writer, namespace)
      BY <1>3, <1>4, <1>6, <3>1
    <3> QED
      BY <3>1, <3>2, <3>3 DEF LineEndsAt, target
  <2> QED
    BY <2>2, <2>3, <2>4 DEF LineEndsAt
<1> QED
  BY <1>5, <1>6

\* A record is the record of a script that ran, and at some place.
LEMMA RecordedRan ==
    ASSUME DispatchTyped, EffectsAreRecorded, NEW key \in Registry!Recorded
    PROVE  \E k \in 1..Len(ran) : KeyOf(ran[k]) = key
BY DEF DispatchTyped, EffectsAreRecorded, Ran

\* Every entry of the list of a script that lands is genesis or of a script that ran.
LEMMA PrerequisitesRan ==
    ASSUME StorageTyped, DispatchTyped, HeadsAreRecorded, EffectsAreRecorded,
           NEW s \in Scripts, Writes(s),
           NEW j \in DOMAIN Plan[s].prerequisites,
           Plan[s].prerequisites[j].migration # Genesis
    PROVE  \E k \in 1..Len(ran) : KeyOf(ran[k]) = Plan[s].prerequisites[j]
<1> DEFINE key == KeyOf(s)
           list == Plan[s].prerequisites
<1>1. /\ key.writer \in Registry!Addresses /\ key.namespace \in Registry!Words
      /\ list \in Seq(Registry!Prerequisite)
  BY PlanFields
<1>2. /\ list[1] = Registry!Key(key.writer, key.namespace,
                                Registry!headV5(key.writer, key.namespace))
      /\ \A i \in 2..Len(list) : list[i] \in Registry!Recorded
  BY DEF Writes
<1> HIDE DEF key
<1>3. list[j] \in Registry!Recorded
  <2>1. CASE j = 1
    <3>1. Registry!headV5(key.writer, key.namespace) # Genesis
      BY <1>2, <2>1 DEF Registry!Key
    <3>2. /\ sHead[key.writer][key.namespace] # ZeroBytes32
          /\ Registry!headV5(key.writer, key.namespace) = sHead[key.writer][key.namespace]
      BY <3>1 DEF Registry!headV5
    <3> QED
      BY <1>1, <1>2, <2>1, <3>2 DEF HeadsAreRecorded
  <2>2. CASE j # 1
    BY <1>1, <1>2, <2>2
  <2> QED
    BY <2>1, <2>2
<1> QED
  BY <1>3, RecordedRan

-----------------------------------------------------------------------------
(* The invariant.                                                          *)

LEMMA InitLemma == Init => IInv
<1> SUFFICES ASSUME Init PROVE IInv
  OBVIOUS
<1>1. /\ sRecords = [writer \in Registry!Addresses |-> [namespace \in Registry!Words |->
                        [migration \in Registry!MigrationWords |-> Registry!NoRecord]]]
      /\ sHead = [writer \in Registry!Addresses |-> [namespace \in Registry!Words |-> ZeroBytes32]]
      /\ now = 0 /\ registryLive = FALSE
      /\ outstanding = [s \in Scripts |-> 0] /\ ran = <<>>
  BY DEF Init, Registry!Init
<1>2. StorageTyped
  <2>1. Registry!NoRecord \in Registry!MigrationRecord
    BY DEF Registry!NoRecord, Registry!MigrationRecord, Registry!Addresses
  <2> QED
    BY <1>1, <2>1 DEF StorageTyped
<1>3. DispatchTyped /\ OutstandingNeedsRegistry
  <2>1. registryLive \in BOOLEAN
    BY <1>1
  <2>2. outstanding \in [Scripts -> Nat] /\ ran \in Seq(Scripts)
    BY <1>1
  <2>3. OutstandingNeedsRegistry
    BY <1>1 DEF OutstandingNeedsRegistry
  <2> QED
    BY <2>1, <2>2, <2>3 DEF DispatchTyped
<1>4. HeadsAreRecorded
  BY <1>1 DEF HeadsAreRecorded
<1>5. EffectsAreRecorded
  <2>1. Registry!Recorded = {}
    BY <1>1 DEF Registry!Recorded, Registry!appliedV5, Registry!record, Registry!Prerequisite,
       Registry!NoRecord
  <2> QED
    BY <1>1, <2>1 DEF EffectsAreRecorded, Ran
<1>6. EffectsHappenOnce /\ EffectsFollowTheirPrerequisites
  BY <1>1 DEF EffectsHappenOnce, EffectsFollowTheirPrerequisites, IsInjective
<1>7. HeadsEndTheirLines
  BY <1>1 DEF HeadsEndTheirLines, LineEndsAt, Registry!Key, Registry!headV5
<1> QED
  BY <1>2, <1>3, <1>4, <1>5, <1>6, <1>7 DEF IInv

\* A batch that lands is the one step that touches records and effects.
LEMMA LandLemma ==
    ASSUME IInv, NEW s \in Scripts, Land(s)
    PROVE  IInv'
<1> USE DEF IInv
<1>1. /\ outstanding[s] > 0
      /\ outstanding' = [outstanding EXCEPT ![s] = @ - 1]
      /\ ran' = Append(ran, s)
      /\ registryLive' = registryLive
      /\ registryLive
  BY DEF Land, OutstandingNeedsRegistry
<1>2. Writes(s)
  BY <1>1, WriteLemma DEF Land
<1>3. KeyOf(s) \notin Registry!Recorded /\ Registry!Recorded' = Registry!Recorded \cup {KeyOf(s)}
  BY <1>2, RecordedAfter DEF Writes
<1>4. /\ ran \in Seq(Scripts)
      /\ ran' \in Seq(Scripts)
      /\ Len(ran) \in Nat
      /\ DOMAIN ran = 1..Len(ran)
      /\ DOMAIN ran' = 1..(Len(ran) + 1)
      /\ \A i \in 1..Len(ran) : ran'[i] = ran[i] /\ ran[i] \in Scripts
      /\ ran'[Len(ran) + 1] = s
      /\ Ran' = Ran \cup {s}
  BY <1>1, AppendScript DEF DispatchTyped
<1>5. StorageTyped' /\ HeadsAreRecorded' /\ HeadsEndTheirLines'
  BY <1>1, <1>2, StorageTypedAfter, HeadsRecordedAfter, LinesEndAfter
<1>6. DispatchTyped' /\ OutstandingNeedsRegistry'
  BY <1>1, <1>4 DEF DispatchTyped, OutstandingNeedsRegistry
<1>7. EffectsAreRecorded'
  BY <1>3, <1>4 DEF EffectsAreRecorded, KeyOf, Registry!Key
<1>8. EffectsHappenOnce'
  <2>1. s \notin Ran
    BY <1>3 DEF EffectsAreRecorded
  <2>2. \A i \in 1..Len(ran) : ran[i] # s
    BY <1>4, <2>1 DEF Ran
  <2>3. \A i, j \in 1..Len(ran) : ran[i] = ran[j] => i = j
    BY <1>4 DEF EffectsHappenOnce, IsInjective
  <2>4. \A i, j \in 1..(Len(ran) + 1) : ran'[i] = ran'[j] => i = j
    BY <1>4, <2>2, <2>3
  <2> QED
    BY <1>4, <2>4 DEF EffectsHappenOnce, IsInjective
<1>9. EffectsFollowTheirPrerequisites'
  <2> SUFFICES ASSUME NEW i \in 1..(Len(ran) + 1),
                      NEW j \in DOMAIN Plan[ran'[i]].prerequisites,
                      Plan[ran'[i]].prerequisites[j].migration # Genesis
               PROVE  \E k \in 1..(i - 1) : KeyOf(ran'[k]) = Plan[ran'[i]].prerequisites[j]
    BY <1>4 DEF EffectsFollowTheirPrerequisites, KeyOf, Registry!Key
  <2>1. CASE i \in 1..Len(ran)
    <3>1. PICK k \in 1..(i - 1) : KeyOf(ran[k]) = Plan[ran[i]].prerequisites[j]
      BY <1>4, <2>1 DEF EffectsFollowTheirPrerequisites
    <3>2. k \in 1..Len(ran) /\ ran'[k] = ran[k] /\ ran'[i] = ran[i]
      BY <1>4, <2>1
    <3> QED
      BY <3>1, <3>2
  <2>2. CASE i = Len(ran) + 1
    <3>1. PICK k \in 1..Len(ran) : KeyOf(ran[k]) = Plan[s].prerequisites[j]
      BY <1>2, <1>4, <2>2, PrerequisitesRan
    <3>2. k \in 1..(i - 1) /\ ran'[k] = ran[k] /\ ran'[i] = s
      BY <1>4, <2>2
    <3> QED
      BY <3>1, <3>2
  <2> QED
    BY <1>4, <2>1, <2>2
<1> QED
  BY <1>5, <1>6, <1>7, <1>8, <1>9

LEMMA StepLemma == IInv /\ [Next]_vars => IInv'
<1> SUFFICES ASSUME IInv, [Next]_vars PROVE IInv'
  OBVIOUS
<1> DEFINE Quiet ==
        /\ UNCHANGED <<sRecords, sHead, ran>>
        /\ now' \in Nat
        /\ DispatchTyped' /\ OutstandingNeedsRegistry'
<1>1. ASSUME Quiet PROVE IInv'
  <2>1. Registry!Recorded' = Registry!Recorded
    BY <1>1 DEF Registry!Recorded, Registry!appliedV5, Registry!record
  <2>2. StorageTyped' /\ HeadsAreRecorded' /\ HeadsEndTheirLines'
    <3>1. StorageTyped' /\ HeadsAreRecorded'
      BY <1>1, <2>1 DEF IInv, StorageTyped, HeadsAreRecorded, Registry!Key
    <3>2. ASSUME NEW writer \in Registry!Addresses, NEW namespace \in Registry!Words
          PROVE  LineEndsAt(ran, writer, namespace,
                     Registry!Key(writer, namespace, Registry!headV5(writer, namespace)))'
      <4> DEFINE head == Registry!headV5(writer, namespace)
      <4>1. head' = head /\ ran' = ran
        BY <1>1 DEF Registry!headV5
      <4>2. LineEndsAt(ran, writer, namespace, Registry!Key(writer, namespace, head))
        BY <3>2 DEF IInv, HeadsEndTheirLines
      <4> HIDE DEF head
      <4>3. LineEndsAt(ran, writer, namespace, Registry!Key(writer, namespace, head))'
        BY <4>1, <4>2 DEF LineEndsAt, OfLine, KeyOf, Registry!Key
      <4> QED
        BY <4>3 DEF head
    <3>3. HeadsEndTheirLines'
      BY <3>2 DEF HeadsEndTheirLines
    <3> QED
      BY <3>1, <3>3
  <2>3. EffectsAreRecorded'
    BY <1>1, <2>1 DEF IInv, EffectsAreRecorded, Ran, KeyOf, Registry!Key
  <2>4. EffectsHappenOnce' /\ EffectsFollowTheirPrerequisites'
    BY <1>1 DEF IInv, EffectsHappenOnce, EffectsFollowTheirPrerequisites, KeyOf, Registry!Key
  <2> QED
    BY <1>1, <2>2, <2>3, <2>4 DEF IInv
<1> USE DEF IInv, StorageTyped, DispatchTyped, OutstandingNeedsRegistry, registryState
<1>2. CASE DeployRegistry
  <2>1. Quiet
    BY <1>2 DEF DeployRegistry
  <2> QED
    BY <1>1, <2>1
<1>3. CASE Tick
  <2>1. Quiet
    BY <1>3 DEF Tick, Registry!Tick
  <2> QED
    BY <1>1, <2>1
<1>4. ASSUME NEW s \in Scripts, Dispatch(s) PROVE IInv'
  <2>1. Quiet
    BY <1>4 DEF Dispatch, checkCodeHash
  <2> QED
    BY <1>1, <2>1
<1>5. ASSUME NEW s \in Scripts, Drop(s) PROVE IInv'
  <2>1. Quiet
    BY <1>5 DEF Drop
  <2> QED
    BY <1>1, <2>1
<1>6. ASSUME NEW s \in Scripts, Land(s) PROVE IInv'
  BY <1>6, LandLemma
<1>7. CASE UNCHANGED vars
  <2>1. Quiet
    BY <1>7 DEF vars
  <2> QED
    BY <1>1, <2>1
<1> QED
  BY <1>2, <1>3, <1>4, <1>5, <1>6, <1>7 DEF Next

LEMMA Inductive == Spec => []IInv
BY InitLemma, StepLemma, PTL DEF Spec

-----------------------------------------------------------------------------
(* The theorems.                                                           *)

\* However often and however late its batch is dispatched, the effects of a
\* script take place once.
THEOREM EffectsHappenOnceTheorem == Spec => []EffectsHappenOnce
<1>1. IInv => EffectsHappenOnce
  BY DEF IInv
<1> QED
  BY <1>1, Inductive, PTL

\* The registry has exactly the records of the scripts whose effects took
\* place: neither without the other, on a chain that got the registry late too.
THEOREM EffectsAreRecordedTheorem == Spec => []EffectsAreRecorded
<1>1. IInv => EffectsAreRecorded
  BY DEF IInv
<1> QED
  BY <1>1, Inductive, PTL

\* A script's effects come after those of every script its list names.
THEOREM EffectsFollowTheirPrerequisitesTheorem == Spec => []EffectsFollowTheirPrerequisites
<1>1. IInv => EffectsFollowTheirPrerequisites
  BY DEF IInv
<1> QED
  BY <1>1, Inductive, PTL

-----------------------------------------------------------------------------
(* The refinement.                                                         *)

\* What MigrationHistory calls done is what the registry has records of, and
\* where it has a line is where the registry's head is.
LEMMA HistoryIsRecorded ==
    ASSUME IInv
    PROVE  /\ History!Done = Registry!Recorded
           /\ \A writer \in Registry!Addresses, namespace \in Registry!Words :
                  History!IsHead(<<writer, namespace>>,
                      Registry!Key(writer, namespace, Registry!headV5(writer, namespace)))
<1>1. /\ DOMAIN ran = 1..Len(ran) /\ Len(ran) \in Nat
      /\ \A i \in 1..Len(ran) : ran[i] \in Scripts
  BY DEF IInv, DispatchTyped
<1>2. History!Done = {KeyOf(ran[i]) : i \in 1..Len(ran)}
  BY <1>1 DEF History!Done
<1>3. Registry!Recorded = {KeyOf(ran[i]) : i \in 1..Len(ran)}
  BY <1>1 DEF IInv, EffectsAreRecorded, Ran
<1>4. ASSUME NEW writer \in Registry!Addresses, NEW namespace \in Registry!Words,
             NEW key, key = Registry!Key(writer, namespace, Registry!headV5(writer, namespace))
      PROVE  History!IsHead(<<writer, namespace>>, key)
  <2>1. LineEndsAt(ran, writer, namespace, key)
    BY <1>4 DEF IInv, HeadsEndTheirLines
  <2>2. \A i \in 1..Len(ran) :
            [s \in Scripts |-> <<Plan[s].writer, Plan[s].namespace>>][ran[i]]
                = <<writer, namespace>> <=> OfLine(ran[i], writer, namespace)
    BY <1>1 DEF OfLine
  <2>3. \A i \in 1..Len(ran) : [s \in Scripts |-> KeyOf(s)][ran[i]] = KeyOf(ran[i])
    BY <1>1
  <2>4. CASE /\ key.migration = Genesis
             /\ \A i \in 1..Len(ran) : ~OfLine(ran[i], writer, namespace)
    <3>1. key \in Registry!Prerequisite
      BY <1>4, <2>4 DEF Registry!Key, Registry!Prerequisite, Registry!MigrationWords
    <3> QED
      BY <1>1, <2>2, <2>4, <3>1 DEF History!IsHead
  <2>5. CASE \E i \in 1..Len(ran) :
                 /\ OfLine(ran[i], writer, namespace)
                 /\ KeyOf(ran[i]) = key
                 /\ \A j \in 1..Len(ran) : j > i => ~OfLine(ran[j], writer, namespace)
    BY <1>1, <2>2, <2>3, <2>5 DEF History!IsHead
  <2> QED
    BY <2>1, <2>4, <2>5 DEF LineEndsAt
<1> QED
  BY <1>2, <1>3, <1>4

\* A batch that lands runs its script.
LEMMA LandRuns ==
    ASSUME IInv, NEW s \in Scripts, Land(s)
    PROVE  History!Run(s)
<1> DEFINE key == KeyOf(s)
           list == Plan[s].prerequisites
<1>1. Writes(s) /\ ran' = Append(ran, s)
  <2>1. outstanding[s] > 0 => registryLive
    BY DEF IInv, OutstandingNeedsRegistry
  <2> QED
    BY <2>1, WriteLemma DEF Land
<1>2. /\ key.writer = Plan[s].writer /\ key.writer \in Registry!Addresses
      /\ key.namespace = Plan[s].namespace /\ key.namespace \in Registry!Words
  BY PlanFields
<1>3. /\ key \notin Registry!Recorded
      /\ list # <<>>
      /\ list[1] = Registry!Key(key.writer, key.namespace,
                                Registry!headV5(key.writer, key.namespace))
      /\ \A i \in 2..Len(list) : list[i] \in Registry!Recorded
  BY <1>1 DEF Writes
<1>4. History!IsHead(<<Plan[s].writer, Plan[s].namespace>>, list[1])
  BY <1>2, <1>3, HistoryIsRecorded
<1>5. /\ [t \in Scripts |-> KeyOf(t)][s] = key
      /\ [t \in Scripts |-> <<Plan[t].writer, Plan[t].namespace>>][s]
             = <<Plan[s].writer, Plan[s].namespace>>
      /\ [t \in Scripts |-> Plan[t].prerequisites][s] = list
  OBVIOUS
<1> HIDE DEF key, list
<1> QED
  BY <1>1, <1>3, <1>4, <1>5, HistoryIsRecorded DEF History!Run

\* Whatever is built, dispatched again, lands late or is lost: what takes
\* effect is a history in which each script continues its own line from where
\* it is, once, after everything it waits on, and every other step is none of
\* its business.
\* (LibMigrationRegistry, and applyMigrationV5 as the last call of a batch.)
THEOREM ImplementsHistoryTheorem == Spec => ImplementsHistory
<1>1. Init => History!Init
  BY DEF Init, History!Init
<1>2. IInv /\ [Next]_vars => [History!Next]_ran
  <2> SUFFICES ASSUME IInv, [Next]_vars PROVE History!Next \/ ran' = ran
    OBVIOUS
  <2>1. ASSUME NEW s \in Scripts, Land(s) PROVE History!Next
    BY <2>1, LandRuns DEF History!Next
  <2>2. CASE UNCHANGED vars
    BY <2>2 DEF vars
  <2>3. CASE DeployRegistry \/ Tick \/ \E s \in Scripts : Dispatch(s) \/ Drop(s)
    BY <2>3 DEF DeployRegistry, Tick, Dispatch, Drop
  <2> QED
    BY <2>1, <2>2, <2>3 DEF Next
<1> QED
  BY <1>1, <1>2, Inductive, PTL DEF Spec, History!Spec, ImplementsHistory
=============================================================================
