---- MODULE ReleaseProofs ----
(* The record grows at its end, whole, from the sources; what is published    *)
(* stays merged, declared and live.                                           *)
EXTENDS Release, FiniteSetTheorems, SequenceTheorems, TLAPS

LEMMA NoFileIsNoCode == NoFile \notin Codes
BY ReleaseAssumption

\* A tree is the record of its parts, as builds and people leave them;
\* no file is in a release directory no cut has made.
IsTree(t) ==
  t = [source |-> t.source, build |-> t.build, version |-> t.version,
       candidate |-> t.candidate, named |-> t.named, frozen |-> t.frozen,
       lib |-> t.lib, aggregate |-> t.aggregate]
Shape(t) ==
  /\ IsTree(t)
  /\ t.source \in Files /\ t.candidate \in Files
  /\ t.build \in Builds /\ t.version \in Versions
  /\ t.named \in [Tags -> SUBSET Names] /\ t.frozen \in [Tags -> Files]
  /\ \A tag \in Tags, n \in Names : t.frozen[tag][n] # NoFile => n \in t.named[tag]

JobWrites == [kind : {"snapshot", "dir", "freeze", "lib", "aggregate"}, name : Names \cup {NoFile}]

JobTyped(j) ==
  /\ j \in Seq(JobWrites)
  /\ \A i \in 1..Len(j) : j[i].kind \in {"snapshot", "freeze"} => j[i].name \in Names

\* What a pending directory, and a pending frozen file, can count on.
DirReady(t, j, i) ==
  /\ t.version \in Tags /\ t.named[t.version] = {}
  /\ \A k \in 1..Len(j) : j[k].kind = "dir" => k = i
FreezeReady(t, j, i) ==
  LET n == j[i].name IN
  /\ t.version \in Tags /\ t.frozen[t.version][n] = NoFile
  /\ n \in Range(releaseRecordNames(t.build))
  /\ \A other \in FrozenTags(t) \ {t.version} : tagPrecedes(other, t.version)
  /\ \A k \in 1..Len(j) : j[k].kind = "freeze" /\ j[k].name = n => k = i
  /\ \/ t.candidate[n] = t.source[n]
     \/ \E k \in 1..Len(j) : k < i /\ j[k].kind = "snapshot" /\ j[k].name = n
  /\ \/ n \in t.named[t.version]
     \/ \E k \in 1..Len(j) : k < i /\ j[k].kind = "dir"
JobReady(t, j) ==
  \A i \in 1..Len(j) :
    /\ j[i].kind = "dir" => DirReady(t, j, i)
    /\ j[i].kind = "freeze" => FreezeReady(t, j, i)

\* The inductive invariant.
RecordInv == Shape(tree) /\ Shape(main) /\ JobTyped(job) /\ JobReady(tree, job)

----
(* The order of versions, and a record sorted by it.                        *)

\* A version of three numbers, as what compares it sees it.
LEMMA TagsAreTriples ==
  ASSUME NEW a \in Tags
  PROVE  a \in [1..3 -> Nat] /\ a[1] \in Nat /\ a[2] \in Nat /\ a[3] \in Nat
<1>1. a \in Seq(Nat) /\ Len(a) = 3
  BY ReleaseAssumption DEF Tags, isStrictTriple
<1>2. a \in [1..Len(a) -> Nat]
  BY <1>1, LenProperties
<1>3. a \in [1..3 -> Nat]
  BY <1>1, <1>2
<1> QED BY <1>3

LEMMA PrecedesMeansBelow ==
  ASSUME NEW a \in Tags, NEW b \in Tags
  PROVE  tagPrecedes(a, b) <=> VersionBelow(a, b)
<1>1. a[1] \in Nat /\ a[2] \in Nat /\ a[3] \in Nat /\ b[1] \in Nat /\ b[2] \in Nat /\ b[3] \in Nat
  BY TagsAreTriples
<1>2. ASSUME tagPrecedes(a, b) PROVE VersionBelow(a, b)
  <2>1. PICK i \in 1..3 : a[i] < b[i] /\ \A k \in 1..(i - 1) : a[k] = b[k]
    BY <1>2 DEF tagPrecedes
  <2>2. i = 1 \/ i = 2 \/ i = 3
    OBVIOUS
  <2>3. (i > 1 => a[1] = b[1]) /\ (i > 2 => a[2] = b[2])
    BY <2>1
  <2> QED BY <2>1, <2>2, <2>3 DEF VersionBelow
<1>3. ASSUME VersionBelow(a, b) PROVE tagPrecedes(a, b)
  <2> SUFFICES \E i \in 1..3 : a[i] < b[i] /\ \A k \in 1..(i - 1) : a[k] = b[k]
    BY DEF tagPrecedes
  <2>1. CASE a[1] < b[1]
    BY <2>1
  <2>2. CASE a[1] = b[1] /\ a[2] < b[2]
    <3>1. \A k \in 1..(2 - 1) : a[k] = b[k]
      BY <2>2
    <3> QED BY <2>2, <3>1
  <2>3. CASE a[1] = b[1] /\ a[2] = b[2] /\ a[3] < b[3]
    <3>1. \A k \in 1..(3 - 1) : a[k] = b[k]
      <4> SUFFICES ASSUME NEW k \in 1..2 PROVE a[k] = b[k]
        OBVIOUS
      <4>1. k = 1 \/ k = 2
        OBVIOUS
      <4> QED BY <4>1, <2>3
    <3> QED BY <2>3, <3>1
  <2> QED BY <1>3, <2>1, <2>2, <2>3 DEF VersionBelow
<1> QED BY <1>2, <1>3

\* Versions of three are in one strict order.
LEMMA TagsAreOrdered ==
  ASSUME NEW a \in Tags, NEW b \in Tags
  PROVE  /\ ~ tagPrecedes(a, a)
         /\ a = b \/ tagPrecedes(a, b) \/ tagPrecedes(b, a)
         /\ \A c \in Tags : tagPrecedes(a, b) /\ tagPrecedes(b, c) => tagPrecedes(a, c)
<1>1. /\ a \in [1..3 -> Nat] /\ a[1] \in Nat /\ a[2] \in Nat /\ a[3] \in Nat
      /\ b \in [1..3 -> Nat] /\ b[1] \in Nat /\ b[2] \in Nat /\ b[3] \in Nat
  BY TagsAreTriples
<1>2. ~ tagPrecedes(a, a)
  BY <1>1, PrecedesMeansBelow DEF VersionBelow
<1>3. a = b \/ tagPrecedes(a, b) \/ tagPrecedes(b, a)
  <2>1. VersionBelow(a, b) \/ VersionBelow(b, a) \/ (a[1] = b[1] /\ a[2] = b[2] /\ a[3] = b[3])
    BY <1>1 DEF VersionBelow
  <2>2. ASSUME a[1] = b[1], a[2] = b[2], a[3] = b[3] PROVE a = b
    <3>1. \A k \in 1..3 : a[k] = b[k]
      <4> SUFFICES ASSUME NEW k \in 1..3 PROVE a[k] = b[k]
        OBVIOUS
      <4>1. k = 1 \/ k = 2 \/ k = 3
        OBVIOUS
      <4> QED BY <4>1, <2>2
    <3> QED BY <3>1, <1>1
  <2> QED BY <2>1, <2>2, PrecedesMeansBelow
<1>4. ASSUME NEW c \in Tags, tagPrecedes(a, b), tagPrecedes(b, c) PROVE tagPrecedes(a, c)
  <2>1. c[1] \in Nat /\ c[2] \in Nat /\ c[3] \in Nat
    BY TagsAreTriples
  <2>2. VersionBelow(a, b) /\ VersionBelow(b, c)
    BY <1>4, PrecedesMeansBelow
  <2>3. VersionBelow(a, c)
    BY <1>1, <2>1, <2>2 DEF VersionBelow
  <2> QED BY <2>3, PrecedesMeansBelow
<1> QED BY <1>2, <1>3, <1>4

\* How many of the record come before a tag.
Rank(record, tag) == Cardinality({other \in record : tagPrecedes(other, tag)})

LEMMA RanksAreNumbers ==
  ASSUME NEW record \in SUBSET Tags, IsFiniteSet(record)
  PROVE  /\ Cardinality(record) \in Nat
         /\ \A tag \in record : Rank(record, tag) \in 0..(Cardinality(record) - 1)
         /\ \A a, b \in record : tagPrecedes(a, b) => Rank(record, a) < Rank(record, b)
<1>1. Cardinality(record) \in Nat
  BY FS_CardinalityType
<1>2. ASSUME NEW tag \in record
      PROVE  Rank(record, tag) \in 0..(Cardinality(record) - 1)
  <2> DEFINE below == {other \in record : tagPrecedes(other, tag)}
  <2>1. tag \notin below /\ below \in SUBSET record
    BY TagsAreOrdered
  <2>2. IsFiniteSet(below) /\ Cardinality(below) \in Nat /\ Cardinality(below) <= Cardinality(record)
    BY <2>1, FS_Subset, FS_CardinalityType
  <2>3. Cardinality(below) # Cardinality(record)
    BY <2>1, FS_Subset
  <2> QED BY <1>1, <2>2, <2>3 DEF Rank
<1>3. ASSUME NEW a \in record, NEW b \in record, tagPrecedes(a, b)
      PROVE  Rank(record, a) < Rank(record, b)
  <2> DEFINE A == {other \in record : tagPrecedes(other, a)}
             B == {other \in record : tagPrecedes(other, b)}
  <2>1. A \in SUBSET B /\ a \in B /\ a \notin A /\ B \in SUBSET record
    BY <1>3, TagsAreOrdered
  <2>2. IsFiniteSet(B) /\ Cardinality(B) \in Nat
    BY <2>1, FS_Subset, FS_CardinalityType
  <2>3. IsFiniteSet(A) /\ Cardinality(A) \in Nat /\ Cardinality(A) <= Cardinality(B) /\ Cardinality(A) # Cardinality(B)
    BY <2>1, <2>2, FS_Subset, FS_CardinalityType
  <2> QED BY <2>2, <2>3 DEF Rank
<1> QED BY <1>1, <1>2, <1>3

LEMMA RanksAreTaken ==
  ASSUME NEW record \in SUBSET Tags, IsFiniteSet(record)
  PROVE  \A i \in 1..Cardinality(record) : \E tag \in record : Rank(record, tag) = i - 1
<1> DEFINE n == Cardinality(record)
           f == [tag \in record |-> Rank(record, tag)]
<1>1. n \in Nat /\ \A tag \in record : Rank(record, tag) \in 0..(n - 1)
  BY RanksAreNumbers
<1>2. IsFiniteSet(0..(n - 1)) /\ Cardinality(0..(n - 1)) = n
  <2>1. n - 1 \in Int /\ (n = 0 <=> 0 > n - 1) /\ (n - 1) - 0 + 1 = n
    BY <1>1
  <2> QED BY <2>1, FS_Interval
<1>3. f \in [record -> 0..(n - 1)]
  BY <1>1
<1>4. ASSUME NEW a \in record, NEW b \in record, f[a] = f[b] PROVE a = b
  <2>1. Rank(record, a) = Rank(record, b) /\ Rank(record, a) \in Int
    BY <1>1, <1>4
  <2>2. ~ tagPrecedes(a, b) /\ ~ tagPrecedes(b, a)
    BY <2>1, RanksAreNumbers
  <2> QED BY <2>2, TagsAreOrdered
<1>5. f \in Injection(record, 0..(n - 1))
  BY <1>3, <1>4 DEF Injection, IsInjective
<1> HIDE DEF f
<1>6. f \in Surjection(record, 0..(n - 1))
  <2>1. Cardinality(record) = Cardinality(0..(n - 1))
    BY <1>2
  <2> QED BY <1>2, <1>5, <2>1, FS_Injection
<1>7. ASSUME NEW i \in 1..n PROVE \E tag \in record : Rank(record, tag) = i - 1
  <2>1. i - 1 \in 0..(n - 1)
    BY <1>1
  <2>2. \E tag \in record : f[tag] = i - 1
    BY <2>1, <1>6 DEF Surjection
  <2> QED BY <2>2 DEF f
<1> QED BY <1>7

\* Sorting a finite record keeps each tag of it, once, in order.
LEMMA SortedRecord ==
  ASSUME NEW record \in SUBSET Tags, IsFiniteSet(record),
         NEW s, s = sortedRecordPaths(record)
  PROVE  /\ s \in Seq(record) /\ Len(s) = Cardinality(record) /\ DOMAIN s = 1..Len(s)
         /\ Range(s) = record
         /\ \A i, j \in DOMAIN s : i < j => tagPrecedes(s[i], s[j])
         /\ \A i, j \in DOMAIN s : s[i] = s[j] => i = j
<1> DEFINE n == Cardinality(record)
<1>1. n \in Nat
  BY RanksAreNumbers
<1> DEFINE at(i) == CHOOSE tag \in record : Rank(record, tag) = i - 1
<1>9. s = [i \in 1..n |-> at(i)]
  BY DEF sortedRecordPaths, Rank
<1>10. ASSUME NEW i \in 1..n PROVE at(i) \in record /\ Rank(record, at(i)) = i - 1
  <2>1. \E tag \in record : Rank(record, tag) = i - 1
    BY RanksAreTaken
  <2> QED BY <2>1
<1> HIDE DEF at
<1>2. DOMAIN s = 1..n /\ s = [i \in 1..n |-> s[i]]
  BY <1>9
<1>3. ASSUME NEW i \in 1..n PROVE s[i] \in record /\ Rank(record, s[i]) = i - 1
  BY <1>9, <1>10
<1>4. s \in [1..n -> record]
  BY <1>2, <1>3
<1>5. s \in Seq(record) /\ Len(s) = n
  BY <1>1, <1>4
<1>6. ASSUME NEW i \in 1..n, NEW j \in 1..n, i < j PROVE tagPrecedes(s[i], s[j])
  <2>1. Rank(record, s[i]) < Rank(record, s[j])
    BY <1>1, <1>3, <1>6
  <2>2. s[i] # s[j] /\ ~ tagPrecedes(s[j], s[i])
    <3>1. Rank(record, s[i]) \in Int /\ Rank(record, s[j]) \in Int
      BY <1>3
    <3>2. tagPrecedes(s[j], s[i]) => Rank(record, s[j]) < Rank(record, s[i])
      BY <1>3, RanksAreNumbers
    <3> QED BY <2>1, <3>1, <3>2
  <2>3. s[i] \in Tags /\ s[j] \in Tags
    BY <1>3
  <2> QED BY <2>2, <2>3, TagsAreOrdered
<1>7. ASSUME NEW i \in 1..n, NEW j \in 1..n, s[i] = s[j] PROVE i = j
  <2>1. i - 1 = j - 1
    BY <1>3, <1>7
  <2> QED BY <2>1
<1>8. Range(s) = record
  <2>1. ASSUME NEW tag \in record PROVE tag \in Range(s)
    <3> DEFINE i == Rank(record, tag) + 1
    <3>1. i \in 1..n /\ Rank(record, tag) = i - 1
      BY <1>1, RanksAreNumbers
    <3>2. s[i] \in record /\ Rank(record, s[i]) = i - 1
      BY <3>1, <1>3
    <3>3. Rank(record, tag) = Rank(record, s[i]) /\ Rank(record, tag) \in Int
      BY <3>1, <3>2
    <3>4. ~ tagPrecedes(tag, s[i]) /\ ~ tagPrecedes(s[i], tag)
      BY <3>2, <3>3, RanksAreNumbers
    <3>5. s[i] = tag
      BY <3>2, <3>4, TagsAreOrdered
    <3> QED BY <1>2, <3>1, <3>5 DEF Range
  <2> QED BY <1>2, <1>3, <2>1 DEF Range
<1> QED BY <1>2, <1>5, <1>6, <1>7, <1>8

\* What occurs in a sequence without repetition occurs there once.
LEMMA OccursOnce ==
  ASSUME NEW s, \A i, j \in DOMAIN s : s[i] = s[j] => i = j, NEW x
  PROVE  /\ IsFiniteSet({i \in DOMAIN s : s[i] = x})
         /\ Cardinality({i \in DOMAIN s : s[i] = x}) = IF x \in Range(s) THEN 1 ELSE 0
<1> DEFINE D == {i \in DOMAIN s : s[i] = x}
<1>1. CASE x \in Range(s)
  <2>1. PICK i \in DOMAIN s : s[i] = x
    BY <1>1 DEF Range
  <2>2. D = {i}
    BY <2>1
  <2> QED BY <1>1, <2>2, FS_Singleton
<1>2. CASE x \notin Range(s)
  <2>1. D = {}
    BY <1>2 DEF Range
  <2> QED BY <1>2, <2>1, FS_EmptySet
<1> QED BY <1>1, <1>2

----
(* The lists of writes.                                                     *)

LEMMA InRange ==
  ASSUME NEW S, NEW s \in Seq(S)
  PROVE  \A i \in 1..Len(s) : s[i] \in S /\ s[i] \in Range(s)
BY DEF Range

LEMMA RecordNames ==
  ASSUME NEW b \in Builds
  PROVE  /\ releaseRecordNames(b) \in Seq(Names)
         /\ releasedContractNames(b) \in Seq(Names)
<1>1. b.generated \in Seq(Contracts) /\ b.retired \in Seq(Contracts)
  BY ReleaseAssumption DEF Build
<1>2. Contracts \subseteq Names /\ Range(Parameterised) \subseteq Names
  BY DEF Names
<1>3. b.generated \in Seq(Names) /\ b.retired \in Seq(Names) /\ Parameterised \in Seq(Names)
  BY <1>1, <1>2, ReleaseAssumption
<1> QED
  BY <1>3 DEF releaseRecordNames, releasedContractNames

LEMMA Concat ==
  ASSUME NEW S, NEW a \in Seq(S), NEW b \in Seq(S)
  PROVE  /\ a \o b \in Seq(S) /\ Len(a) \in Nat /\ Len(b) \in Nat
         /\ Len(a \o b) = Len(a) + Len(b)
         /\ \A i \in 1..Len(a) : (a \o b)[i] = a[i]
         /\ \A i \in (Len(a) + 1)..(Len(a) + Len(b)) : (a \o b)[i] = b[i - Len(a)]
OBVIOUS

\* Two lists without repetition and with nothing in common make one.
LEMMA DistinctTogether ==
  ASSUME NEW S, NEW a \in Seq(S), NEW b \in Seq(S), IsInjective(a), IsInjective(b),
         Range(a) \cap Range(b) = {},
         NEW s, s = a \o b
  PROVE  /\ \A i, k \in DOMAIN s : s[i] = s[k] => i = k
         /\ Range(s) = Range(a) \cup Range(b)
<1>2. /\ s \in Seq(S) /\ Len(a) \in Nat /\ Len(b) \in Nat /\ Len(s) = Len(a) + Len(b)
      /\ \A i \in 1..Len(a) : s[i] = a[i]
      /\ \A i \in (Len(a) + 1)..(Len(a) + Len(b)) : s[i] = b[i - Len(a)]
  BY Concat
<1>3. DOMAIN a = 1..Len(a) /\ DOMAIN b = 1..Len(b) /\ DOMAIN s = 1..Len(s)
  BY <1>2
<1>4. ASSUME NEW i \in 1..Len(s)
      PROVE  \/ i \in DOMAIN a /\ s[i] = a[i] /\ s[i] \in Range(a)
             \/ i - Len(a) \in DOMAIN b /\ i > Len(a) /\ s[i] = b[i - Len(a)] /\ s[i] \in Range(b)
  <2>1. CASE i <= Len(a)
    BY <2>1, <1>2, <1>3 DEF Range
  <2>2. CASE i > Len(a)
    <3>1. i \in (Len(a) + 1)..(Len(a) + Len(b)) /\ i - Len(a) \in DOMAIN b
      BY <2>2, <1>2, <1>3
    <3>2. s[i] = b[i - Len(a)]
      BY <3>1, <1>2
    <3> QED BY <3>1, <3>2, <2>2 DEF Range
  <2> QED BY <2>1, <2>2, <1>2
<1>5. ASSUME NEW i \in 1..Len(s), NEW k \in 1..Len(s), s[i] = s[k] PROVE i = k
  <2>1. CASE i \in DOMAIN a /\ s[i] = a[i] /\ s[i] \in Range(a)
    <3>1. k \in DOMAIN a /\ s[k] = a[k]
      BY <1>4, <1>5, <2>1
    <3> QED BY <1>5, <2>1, <3>1 DEF IsInjective
  <2>2. CASE i - Len(a) \in DOMAIN b /\ s[i] = b[i - Len(a)] /\ s[i] \in Range(b)
    <3>1. k - Len(a) \in DOMAIN b /\ s[k] = b[k - Len(a)]
      BY <1>4, <1>5, <2>2
    <3>2. i - Len(a) = k - Len(a)
      BY <1>5, <2>2, <3>1 DEF IsInjective
    <3> QED BY <1>2, <3>2
  <2> QED BY <1>4, <2>1, <2>2
<1>6. Range(s) = Range(a) \cup Range(b)
  <2>1. Range(s) \subseteq Range(a) \cup Range(b)
    BY <1>3, <1>4 DEF Range
  <2>2. ASSUME NEW i \in DOMAIN a PROVE a[i] \in Range(s)
    <3>1. i \in DOMAIN s /\ s[i] = a[i]
      BY <1>2, <1>3
    <3> QED BY <3>1 DEF Range
  <2>3. ASSUME NEW i \in DOMAIN b PROVE b[i] \in Range(s)
    <3> DEFINE k == i + Len(a)
    <3>1. k \in DOMAIN s /\ k \in (Len(a) + 1)..(Len(a) + Len(b)) /\ k - Len(a) = i
      BY <1>2, <1>3
    <3> HIDE DEF k
    <3>2. s[k] = b[i]
      BY <1>2, <3>1
    <3>3. s[k] \in Range(s)
      BY <3>1 DEF Range
    <3> QED BY <3>2, <3>3
  <2>4. Range(b) \subseteq Range(s) /\ Range(a) \subseteq Range(s)
    BY <2>2, <2>3 DEF Range
  <2> QED BY <2>1, <2>4
<1> QED BY <1>2, <1>3, <1>5, <1>6

LEMMA RecordNamesDiffer ==
  ASSUME NEW b \in Builds, checkedGeneratedContracts(b)
  PROVE  /\ \A i, k \in DOMAIN releaseRecordNames(b) :
              releaseRecordNames(b)[i] = releaseRecordNames(b)[k] => i = k
         /\ \A i, k \in DOMAIN releasedContractNames(b) :
              releasedContractNames(b)[i] = releasedContractNames(b)[k] => i = k
         /\ Range(releasedContractNames(b)) = Range(b.retired) \cup Range(b.generated)
         /\ Range(releasedContractNames(b)) \subseteq Contracts
<1> DEFINE g == b.generated
           r == b.retired
<1>1. g \in Seq(Contracts) /\ r \in Seq(Contracts)
  BY ReleaseAssumption DEF Build
<1>2. IsInjective(g) /\ IsInjective(r) /\ Range(r) \cap Range(g) = {}
  BY DEF checkedGeneratedContracts
<1>3. Range(r) \subseteq Contracts /\ Range(g) \subseteq Contracts
  BY <1>1 DEF Range
<1>4. Range(g) \cap Range(Parameterised) = {} /\ IsInjective(Parameterised)
  BY <1>3, ReleaseAssumption
<1>5. g \in Seq(Names) /\ r \in Seq(Names) /\ Parameterised \in Seq(Names)
  BY <1>1, ReleaseAssumption DEF Names
<1>6. releaseRecordNames(b) = g \o Parameterised /\ releasedContractNames(b) = r \o g
  BY DEF releaseRecordNames, releasedContractNames
<1> HIDE DEF g, r
<1>7. \A i, k \in DOMAIN (g \o Parameterised) :
        (g \o Parameterised)[i] = (g \o Parameterised)[k] => i = k
  BY <1>2, <1>4, <1>5, DistinctTogether
<1>8. /\ \A i, k \in DOMAIN (r \o g) : (r \o g)[i] = (r \o g)[k] => i = k
      /\ Range(r \o g) = Range(r) \cup Range(g)
  BY <1>2, <1>5, DistinctTogether
<1> QED BY <1>3, <1>6, <1>7, <1>8 DEF g, r

LEMMA WritesOf ==
  ASSUME NEW kind \in {"snapshot", "freeze", "lib"}, NEW names \in Seq(Names)
  PROVE  /\ Writes(kind, names) \in Seq(JobWrites)
         /\ Len(Writes(kind, names)) = Len(names)
         /\ \A i \in 1..Len(names) : Writes(kind, names)[i] = [kind |-> kind, name |-> names[i]]
<1> DEFINE w == [i \in 1..Len(names) |-> [kind |-> kind, name |-> names[i]]]
<1>1. Len(names) \in Nat /\ DOMAIN names = 1..Len(names)
      /\ \A i \in 1..Len(names) : names[i] \in Names
  OBVIOUS
<1>2. Writes(kind, names) = w
  BY <1>1 DEF Writes
<1>3. \A i \in 1..Len(names) : [kind |-> kind, name |-> names[i]] \in JobWrites
  BY <1>1 DEF JobWrites
<1>4. w \in [1..Len(names) -> JobWrites]
  BY <1>3
<1>5. w \in Seq(JobWrites) /\ Len(w) = Len(names)
  BY <1>1, <1>4
<1> QED BY <1>2, <1>5

\* What a build's libs come to: writes of no snapshot, directory or frozen file.
LEMMA LibWrites ==
  ASSUME NEW b \in Builds
  PROVE  /\ regenerateLibs(b) \in Seq(JobWrites)
         /\ \A i \in 1..Len(regenerateLibs(b)) :
              regenerateLibs(b)[i].kind \notin {"snapshot", "dir", "freeze"}
         /\ \A c \in Range(releasedContractNames(b)) : \E i \in 1..Len(regenerateLibs(b)) :
              regenerateLibs(b)[i].kind = "lib" /\ regenerateLibs(b)[i].name = c
         /\ \E i \in 1..Len(regenerateLibs(b)) : regenerateLibs(b)[i].kind = "aggregate"
<1> DEFINE r == releasedContractNames(b)
           w == Writes("lib", r)
           a == <<Write("aggregate")>>
           l == regenerateLibs(b)
<1>1. r \in Seq(Names)
  BY RecordNames
<1>2. w \in Seq(JobWrites) /\ Len(w) = Len(r)
      /\ \A i \in 1..Len(r) : w[i] = [kind |-> "lib", name |-> r[i]]
  BY <1>1, WritesOf
<1>3. Len(a) = 1 /\ a[1].kind = "aggregate"
  BY DEF Write
<1>4. a \in Seq(JobWrites) /\ w \in Seq(JobWrites)
  BY <1>2 DEF Write, JobWrites
<1>5. l = w \o a
  BY DEF regenerateLibs
<1> HIDE DEF w, r, a, l
<1>6. /\ l \in Seq(JobWrites) /\ Len(w) \in Nat /\ Len(l) = Len(w) + Len(a)
      /\ \A i \in 1..Len(w) : l[i] = w[i]
      /\ \A i \in (Len(w) + 1)..(Len(w) + Len(a)) : l[i] = a[i - Len(w)]
  BY <1>5, <1>4, Concat
<1>7. ASSUME NEW i \in 1..Len(l) PROVE l[i].kind \notin {"snapshot", "dir", "freeze"}
  <2>1. CASE i \in 1..Len(w)
    <3>1. l[i] = [kind |-> "lib", name |-> r[i]]
      BY <2>1, <1>2, <1>6
    <3> QED BY <3>1
  <2>2. CASE i = Len(w) + 1
    <3>1. i \in (Len(w) + 1)..(Len(w) + Len(a)) /\ i - Len(w) = 1
      BY <2>2, <1>3, <1>6
    <3>2. l[i] = a[1]
      BY <3>1, <1>6
    <3> QED BY <3>2, <1>3
  <2> QED BY <2>1, <2>2, <1>3, <1>6
<1>8. ASSUME NEW c \in Range(r) PROVE \E i \in 1..Len(l) : l[i].kind = "lib" /\ l[i].name = c
  <2>1. PICK i \in 1..Len(r) : r[i] = c
    BY <1>1 DEF Range
  <2>2. i \in 1..Len(w) /\ i \in 1..Len(l)
    BY <1>2, <1>3, <1>6
  <2>3. l[i] = [kind |-> "lib", name |-> c]
    BY <2>1, <2>2, <1>2, <1>6
  <2> QED BY <2>2, <2>3
<1>9. \E i \in 1..Len(l) : l[i].kind = "aggregate"
  <2>1. /\ Len(w) + 1 \in 1..Len(l) /\ Len(w) + 1 \in (Len(w) + 1)..(Len(w) + Len(a))
        /\ Len(w) + 1 - Len(w) = 1
    BY <1>3, <1>6
  <2>2. l[Len(w) + 1] = a[1]
    BY <2>1, <1>6
  <2> QED BY <2>1, <2>2, <1>3
<1> QED BY <1>6, <1>7, <1>8, <1>9 DEF l, r

\* Where a cut's writes are: the snapshots, the directory, the frozen files.
LEMMA FreezeWrites ==
  ASSUME NEW b \in Builds,
         NEW n, n = releaseRecordNames(b),
         NEW f, f = freeze(b)
  PROVE  /\ f \in Seq(JobWrites) /\ Len(n) \in Nat /\ Len(f) = Len(n) + 1 + Len(n)
         /\ DOMAIN n = 1..Len(n)
         /\ \A i \in 1..Len(n) : f[i] = [kind |-> "snapshot", name |-> n[i]]
         /\ f[Len(n) + 1].kind = "dir"
         /\ \A i \in (Len(n) + 2)..(Len(n) + 1 + Len(n)) :
              f[i] = [kind |-> "freeze", name |-> n[i - Len(n) - 1]]
<1> DEFINE s == Writes("snapshot", n)
           z == Writes("freeze", n)
           d == <<Write("dir")>>
<1>1. n \in Seq(Names)
  BY RecordNames
<1>2. Len(n) \in Nat /\ DOMAIN n = 1..Len(n) /\ \A i \in 1..Len(n) : n[i] \in Names
  BY <1>1
<1>3. /\ s \in Seq(JobWrites) /\ Len(s) = Len(n)
      /\ \A i \in 1..Len(n) : s[i] = [kind |-> "snapshot", name |-> n[i]]
  BY <1>1, WritesOf
<1>4. /\ z \in Seq(JobWrites) /\ Len(z) = Len(n)
      /\ \A i \in 1..Len(n) : z[i] = [kind |-> "freeze", name |-> n[i]]
  BY <1>1, WritesOf
<1>5. Len(d) = 1 /\ d[1].kind = "dir"
  BY DEF Write
<1>6. d \in Seq(JobWrites) /\ s \in Seq(JobWrites)
  BY <1>3 DEF Write, JobWrites
<1> DEFINE e == s \o d
<1>7. f = e \o z
  BY DEF freeze, regenerateSnapshots
<1>8. e = s \o d
  OBVIOUS
<1> HIDE DEF s, z, d, e
<1>9. /\ e \in Seq(JobWrites) /\ Len(e) = Len(s) + Len(d)
      /\ \A i \in 1..Len(s) : e[i] = s[i]
      /\ \A i \in (Len(s) + 1)..(Len(s) + Len(d)) : e[i] = d[i - Len(s)]
  BY <1>8, <1>6, Concat
<1>10. e[Len(n) + 1] = d[1]
  <2>1. Len(n) + 1 \in (Len(s) + 1)..(Len(s) + Len(d)) /\ Len(n) + 1 - Len(s) = 1
    BY <1>2, <1>3, <1>5
  <2> QED BY <1>9, <2>1
<1>11. /\ f \in Seq(JobWrites) /\ Len(f) = Len(e) + Len(z)
       /\ \A i \in 1..Len(e) : f[i] = e[i]
       /\ \A i \in (Len(e) + 1)..(Len(e) + Len(z)) : f[i] = z[i - Len(e)]
  BY <1>4, <1>7, <1>9, Concat
<1>12. Len(e) = Len(n) + 1
  BY <1>2, <1>3, <1>5, <1>9
<1>13. ASSUME NEW i \in 1..Len(n) PROVE f[i] = [kind |-> "snapshot", name |-> n[i]]
  <2>1. i \in 1..Len(e) /\ i \in 1..Len(s)
    BY <1>2, <1>3, <1>12
  <2> QED BY <2>1, <1>3, <1>9, <1>11
<1>14. f[Len(n) + 1].kind = "dir"
  BY <1>2, <1>5, <1>10, <1>11, <1>12
<1>15. ASSUME NEW i \in (Len(n) + 2)..(Len(n) + 1 + Len(n))
       PROVE  f[i] = [kind |-> "freeze", name |-> n[i - Len(n) - 1]]
  <2>1. /\ i \in (Len(e) + 1)..(Len(e) + Len(z)) /\ i - Len(e) = i - Len(n) - 1
        /\ i - Len(n) - 1 \in 1..Len(n)
    BY <1>2, <1>4, <1>12
  <2>2. f[i] = z[i - Len(n) - 1]
    BY <1>11, <2>1
  <2> QED BY <2>1, <2>2, <1>4
<1> QED
  BY <1>2, <1>4, <1>11, <1>12, <1>13, <1>14, <1>15

\* A job put together of writes and of libs is typed, and every directory and
\* frozen file of it is in its first part.
LEMMA WithLibs ==
  ASSUME NEW b \in Builds, NEW f \in Seq(JobWrites), JobTyped(f),
         NEW j, j = f \o regenerateLibs(b)
  PROVE  /\ JobTyped(j) /\ Len(f) \in Nat /\ Len(j) \in Nat /\ Len(f) <= Len(j)
         /\ \A i \in 1..Len(f) : j[i] = f[i]
         /\ \A i \in 1..Len(j) :
              j[i].kind \in {"snapshot", "dir", "freeze"} => i \in 1..Len(f)
<1> DEFINE l == regenerateLibs(b)
<1>1. l \in Seq(JobWrites)
      /\ \A i \in 1..Len(l) : l[i].kind \notin {"snapshot", "dir", "freeze"}
  BY LibWrites
<1>2. j = f \o l
  OBVIOUS
<1> HIDE DEF l
<1>3. /\ j \in Seq(JobWrites) /\ Len(f) \in Nat /\ Len(l) \in Nat /\ Len(j) = Len(f) + Len(l)
      /\ \A i \in 1..Len(f) : j[i] = f[i]
      /\ \A i \in (Len(f) + 1)..(Len(f) + Len(l)) : j[i] = l[i - Len(f)]
  BY <1>1, <1>2, Concat
<1>4. ASSUME NEW i \in 1..Len(j), j[i].kind \in {"snapshot", "dir", "freeze"}
      PROVE  i \in 1..Len(f)
  <2>1. SUFFICES ASSUME i \notin 1..Len(f) PROVE FALSE
    OBVIOUS
  <2>2. i \in (Len(f) + 1)..(Len(f) + Len(l)) /\ i - Len(f) \in 1..Len(l)
    BY <1>3, <2>1
  <2> QED BY <1>1, <1>3, <1>4, <2>2
<1>5. JobTyped(j)
  <2>1. SUFFICES ASSUME NEW i \in 1..Len(j), j[i].kind \in {"snapshot", "freeze"}
                 PROVE  j[i].name \in Names
    BY <1>3 DEF JobTyped
  <2>2. i \in 1..Len(f) /\ f[i].kind \in {"snapshot", "freeze"} /\ j[i] = f[i]
    BY <1>3, <1>4, <2>1
  <2> QED BY <2>2 DEF JobTyped
<1> QED BY <1>3, <1>4, <1>5

LEMMA SnapshotWrites ==
  ASSUME NEW b \in Builds, NEW s, s = regenerateSnapshots(b)
  PROVE  JobTyped(s) /\ \A i \in 1..Len(s) : s[i].kind = "snapshot"
<1> DEFINE n == releaseRecordNames(b)
<1>1. n \in Seq(Names) /\ \A i \in 1..Len(n) : n[i] \in Names
  BY RecordNames
<1>2. s \in Seq(JobWrites) /\ Len(s) = Len(n) /\ Len(n) \in Nat
      /\ \A i \in 1..Len(n) : s[i] = [kind |-> "snapshot", name |-> n[i]]
  BY <1>1, WritesOf DEF regenerateSnapshots
<1> HIDE DEF n
<1>3. ASSUME NEW i \in 1..Len(s) PROVE s[i].kind = "snapshot" /\ s[i].name \in Names
  <2>1. s[i] = [kind |-> "snapshot", name |-> n[i]] /\ n[i] \in Names
    BY <1>1, <1>2
  <2> QED BY <2>1
<1> QED BY <1>2, <1>3 DEF JobTyped

\* The writes of a cut: snapshots, the directory, its files.
CutOrder(n, f) ==
  /\ n \in Seq(Names) /\ Len(n) \in Nat /\ DOMAIN n = 1..Len(n)
  /\ JobTyped(f) /\ Len(f) = Len(n) + 1 + Len(n)
  /\ \A i \in 1..Len(f) :
       \/ i \in 1..Len(n) /\ f[i].kind = "snapshot" /\ f[i].name = n[i]
       \/ i = Len(n) + 1 /\ f[i].kind = "dir"
       \/ /\ i > Len(n) + 1 /\ i - Len(n) - 1 \in 1..Len(n)
          /\ f[i].kind = "freeze" /\ f[i].name = n[i - Len(n) - 1]

LEMMA FreezeOrder ==
  ASSUME NEW b \in Builds, NEW n, n = releaseRecordNames(b), NEW f, f = freeze(b)
  PROVE  CutOrder(n, f)
<1>1. n \in Seq(Names)
  BY RecordNames
<1>2. /\ f \in Seq(JobWrites) /\ Len(n) \in Nat /\ Len(f) = Len(n) + 1 + Len(n)
      /\ DOMAIN n = 1..Len(n)
      /\ \A i \in 1..Len(n) : f[i] = [kind |-> "snapshot", name |-> n[i]]
      /\ f[Len(n) + 1].kind = "dir"
      /\ \A i \in (Len(n) + 2)..(Len(n) + 1 + Len(n)) :
           f[i] = [kind |-> "freeze", name |-> n[i - Len(n) - 1]]
  BY FreezeWrites
<1>3. \A i \in 1..Len(n) : n[i] \in Names
  BY <1>1, <1>2
<1>4. ASSUME NEW i \in 1..Len(f)
      PROVE  \/ i \in 1..Len(n) /\ f[i].kind = "snapshot" /\ f[i].name = n[i]
             \/ i = Len(n) + 1 /\ f[i].kind = "dir"
             \/ /\ i > Len(n) + 1 /\ i - Len(n) - 1 \in 1..Len(n)
                /\ f[i].kind = "freeze" /\ f[i].name = n[i - Len(n) - 1]
  <2>1. CASE i \in 1..Len(n)
    <3>1. f[i] = [kind |-> "snapshot", name |-> n[i]]
      BY <1>2, <2>1
    <3> QED BY <2>1, <3>1
  <2>2. CASE i = Len(n) + 1
    BY <1>2, <2>2
  <2>3. CASE i > Len(n) + 1
    <3>1. i \in (Len(n) + 2)..(Len(n) + 1 + Len(n)) /\ i - Len(n) - 1 \in 1..Len(n)
      BY <1>2, <2>3
    <3>2. f[i] = [kind |-> "freeze", name |-> n[i - Len(n) - 1]]
      BY <1>2, <3>1
    <3> QED BY <2>3, <3>1, <3>2
  <2> QED BY <1>2, <2>1, <2>2, <2>3
<1>5. ASSUME NEW i \in 1..Len(f), f[i].kind \in {"snapshot", "freeze"} PROVE f[i].name \in Names
  BY <1>3, <1>4, <1>5
<1> QED BY <1>1, <1>2, <1>4, <1>5 DEF JobTyped, CutOrder

LEMMA RunIsReady ==
  ASSUME NEW t, NEW b \in Builds,
         NEW s, s = regenerateSnapshots(b), NEW j, j = s \o regenerateLibs(b)
  PROVE  JobTyped(j) /\ JobReady(t, j)
<1>1. JobTyped(s) /\ \A i \in 1..Len(s) : s[i].kind = "snapshot"
  BY SnapshotWrites
<1>2. /\ JobTyped(j)
      /\ \A i \in 1..Len(s) : j[i] = s[i]
      /\ \A i \in 1..Len(j) : j[i].kind \in {"snapshot", "dir", "freeze"} => i \in 1..Len(s)
  <2>1. s \in Seq(JobWrites)
    BY <1>1 DEF JobTyped
  <2> QED BY <1>1, <2>1, WithLibs
<1>3. \A i \in 1..Len(j) : j[i].kind \notin {"dir", "freeze"}
  BY <1>1, <1>2
<1> QED BY <1>2, <1>3 DEF JobReady

\* What a cut has checked is what its writes count on.
LEMMA CutIsReady ==
  ASSUME NEW t, Shape(t), checkedGeneratedContracts(t.build), mayFreeze(t),
         NEW j, j = freeze(t.build) \o regenerateLibs(t.build)
  PROVE  JobTyped(j) /\ JobReady(t, j)
<1> DEFINE b == t.build
           n == releaseRecordNames(b)
           f == freeze(b)
           v == t.version
<1>1. b \in Builds
  BY DEF Shape
<1>2. /\ f \in Seq(JobWrites) /\ Len(n) \in Nat /\ Len(f) = Len(n) + 1 + Len(n)
      /\ DOMAIN n = 1..Len(n)
      /\ \A i \in 1..Len(n) : f[i] = [kind |-> "snapshot", name |-> n[i]]
      /\ f[Len(n) + 1].kind = "dir"
      /\ \A i \in (Len(n) + 2)..(Len(n) + 1 + Len(n)) :
           f[i] = [kind |-> "freeze", name |-> n[i - Len(n) - 1]]
  BY <1>1, FreezeWrites
<1>3. \A i \in 1..Len(n) : n[i] \in Names /\ n[i] \in Range(n)
  BY <1>1, RecordNames, InRange
<1>4. \A i, k \in 1..Len(n) : n[i] = n[k] => i = k
  BY <1>1, <1>2, RecordNamesDiffer
<1>5. /\ v \in Tags /\ t.named[v] = {}
      /\ \A tag \in FrozenTags(t) : tagPrecedes(tag, v)
  BY DEF mayFreeze, Tags, Shape, checkReleaseFollowsRecord
<1>6. \A m \in Names : t.frozen[v][m] = NoFile
  BY <1>5 DEF Shape
<1> HIDE DEF b, n, f, v
<1>7. Len(n) \in Nat /\ Len(f) = Len(n) + 1 + Len(n)
  BY <1>2
<1>8. /\ \A i \in 1..Len(n) : f[i].kind = "snapshot" /\ f[i].name = n[i]
      /\ f[Len(n) + 1].kind = "dir"
      /\ \A i \in (Len(n) + 2)..(Len(n) + 1 + Len(n)) :
           f[i].kind = "freeze" /\ f[i].name = n[i - Len(n) - 1]
  <2>1. ASSUME NEW i \in 1..Len(n) PROVE f[i].kind = "snapshot" /\ f[i].name = n[i]
    <3>1. f[i] = [kind |-> "snapshot", name |-> n[i]]
      BY <1>2
    <3> QED BY <3>1
  <2>2. ASSUME NEW i \in (Len(n) + 2)..(Len(n) + 1 + Len(n))
        PROVE  f[i].kind = "freeze" /\ f[i].name = n[i - Len(n) - 1]
    <3>1. f[i] = [kind |-> "freeze", name |-> n[i - Len(n) - 1]]
      BY <1>2
    <3> QED BY <3>1
  <2> QED BY <1>2, <2>1, <2>2
<1>9. ASSUME NEW i \in 1..Len(f)
      PROVE  \/ i \in 1..Len(n)
             \/ i = Len(n) + 1
             \/ i \in (Len(n) + 2)..(Len(n) + 1 + Len(n)) /\ i - Len(n) - 1 \in 1..Len(n)
  BY <1>7
<1>10. \A i \in 1..Len(f) : f[i].kind = "dir" => i = Len(n) + 1
  BY <1>9, <1>8
<1>11. ASSUME NEW i \in 1..Len(f), f[i].kind = "freeze"
      PROVE  /\ i > Len(n) + 1 /\ i - Len(n) - 1 \in 1..Len(n)
             /\ f[i].name = n[i - Len(n) - 1]
  BY <1>9, <1>11, <1>7, <1>8
<1>12. JobTyped(f)
  <2>1. SUFFICES ASSUME NEW i \in 1..Len(f), f[i].kind \in {"snapshot", "freeze"}
                 PROVE  f[i].name \in Names
    BY <1>2 DEF JobTyped
  <2> QED BY <1>3, <1>9, <1>8, <2>1
<1>13. /\ JobTyped(j) /\ Len(f) \in Nat /\ Len(j) \in Nat /\ Len(f) <= Len(j)
       /\ \A i \in 1..Len(f) : j[i] = f[i]
       /\ \A i \in 1..Len(j) :
            j[i].kind \in {"snapshot", "dir", "freeze"} => i \in 1..Len(f)
  <2>1. f \in Seq(JobWrites) /\ j = f \o regenerateLibs(b) /\ b \in Builds
    BY <1>1, <1>2 DEF f, b
  <2> QED BY <2>1, <1>12, WithLibs
<1>14. ASSUME NEW i \in 1..Len(j), j[i].kind = "dir"
       PROVE  DirReady(t, j, i)
  BY <1>5, <1>10, <1>13, <1>14 DEF DirReady, v
<1>15. ASSUME NEW i \in 1..Len(j), j[i].kind = "freeze"
       PROVE  FreezeReady(t, j, i)
  <2> DEFINE x == i - Len(n) - 1
  <2>1. i \in 1..Len(f) /\ i > Len(n) + 1 /\ x \in 1..Len(n) /\ j[i].name = n[x]
    BY <1>11, <1>13, <1>15
  <2>2. v \in Tags /\ n[x] \in Names /\ n[x] \in Range(n) /\ t.frozen[v][n[x]] = NoFile
    BY <1>3, <1>5, <1>6, <2>1
  <2>3. ASSUME NEW k \in 1..Len(j), j[k].kind = "freeze", j[k].name = n[x]
        PROVE  k = i
    <3>1. k \in 1..Len(f) /\ k - Len(n) - 1 \in 1..Len(n) /\ n[k - Len(n) - 1] = n[x]
      BY <1>11, <1>13, <2>3
    <3>2. k - Len(n) - 1 = x
      BY <1>4, <2>1, <3>1
    <3> QED BY <1>7, <2>1, <3>1, <3>2
  <2>4. x \in 1..Len(j) /\ x < i /\ j[x].kind = "snapshot" /\ j[x].name = n[x]
    <3>1. x \in 1..Len(f) /\ x \in 1..Len(j) /\ x < i
      BY <1>13, <1>7, <2>1
    <3> QED BY <1>13, <1>8, <2>1, <3>1
  <2>5. Len(n) + 1 \in 1..Len(j) /\ Len(n) + 1 < i /\ j[Len(n) + 1].kind = "dir"
    <3>1. Len(n) + 1 \in 1..Len(f) /\ Len(n) + 1 \in 1..Len(j) /\ Len(n) + 1 < i
      BY <1>13, <1>7, <2>1
    <3> QED BY <1>13, <1>8, <3>1
  <2> HIDE DEF x
  <2> QED BY <1>5, <2>1, <2>2, <2>3, <2>4, <2>5 DEF FreezeReady, v, n, b
<1> QED BY <1>13, <1>14, <1>15 DEF JobReady

----
(* The steps.                                                               *)

LEMMA TailOf ==
  ASSUME NEW j \in Seq(JobWrites), j # <<>>
  PROVE  /\ Head(j) = j[1] /\ j[1] \in JobWrites /\ Len(j) \in Nat /\ 1 \in 1..Len(j)
         /\ Tail(j) \in Seq(JobWrites) /\ Len(Tail(j)) = Len(j) - 1
         /\ \A i \in 1..Len(Tail(j)) : i + 1 \in 1..Len(j) /\ Tail(j)[i] = j[i + 1]
OBVIOUS

\* What each write changes of a tree.
Changed(t, w, u) ==
  /\ IsTree(u)
  /\ u.source = t.source /\ u.build = t.build /\ u.version = t.version
  /\ u.candidate = IF w.kind = "snapshot"
                   THEN [t.candidate EXCEPT ![w.name] = t.source[w.name]]
                   ELSE t.candidate
  /\ u.named = IF w.kind = "dir"
               THEN [t.named EXCEPT ![t.version] = Range(releaseRecordNames(t.build))]
               ELSE t.named
  /\ u.frozen = IF w.kind = "freeze"
                THEN [t.frozen EXCEPT ![t.version] =
                        [t.frozen[t.version] EXCEPT ![w.name] = t.candidate[w.name]]]
                ELSE t.frozen
  /\ u.lib = IF w.kind = "lib"
             THEN [t.lib EXCEPT ![w.name] = recordPathsForContract(t, w.name)]
             ELSE t.lib
  /\ u.aggregate = IF w.kind = "aggregate" THEN releasedContractNames(t.build)
                   ELSE t.aggregate

LEMMA WrittenParts ==
  ASSUME NEW t, Shape(t), NEW w \in JobWrites, NEW u, u = Written(t, w)
  PROVE  Changed(t, w, u)
<1> USE DEF Changed
<1> DEFINE r == [source |-> t.source, build |-> t.build, version |-> t.version,
                 candidate |-> t.candidate, named |-> t.named, frozen |-> t.frozen,
                 lib |-> t.lib, aggregate |-> t.aggregate]
<1>1. t = r
  BY DEF Shape, IsTree
<1>2. w.kind \in {"snapshot", "dir", "freeze", "lib", "aggregate"}
  BY DEF JobWrites
<1>3. CASE w.kind = "snapshot"
  <2>1. u = [r EXCEPT !.candidate = [t.candidate EXCEPT ![w.name] = t.source[w.name]]]
    BY <1>1, <1>3 DEF Written
  <2> QED BY <2>1, <1>3 DEF IsTree
<1>4. CASE w.kind = "dir"
  <2>1. u = [r EXCEPT !.named =
               [t.named EXCEPT ![t.version] = Range(releaseRecordNames(t.build))]]
    BY <1>1, <1>4 DEF Written
  <2> QED BY <2>1, <1>4 DEF IsTree
<1>5. CASE w.kind = "freeze"
  <2>1. u = [r EXCEPT !.frozen =
               [t.frozen EXCEPT ![t.version] =
                  [t.frozen[t.version] EXCEPT ![w.name] = t.candidate[w.name]]]]
    BY <1>1, <1>5 DEF Written
  <2> QED BY <2>1, <1>5 DEF IsTree
<1>6. CASE w.kind = "lib"
  <2>1. u = [r EXCEPT !.lib = [t.lib EXCEPT ![w.name] = recordPathsForContract(t, w.name)]]
    BY <1>1, <1>6 DEF Written
  <2> QED BY <2>1, <1>6 DEF IsTree
<1>7. CASE w.kind = "aggregate"
  <2>1. u = [r EXCEPT !.aggregate = releasedContractNames(t.build)]
    BY <1>1, <1>7 DEF Written
  <2> QED BY <2>1, <1>7 DEF IsTree
<1> QED BY <1>2, <1>3, <1>4, <1>5, <1>6, <1>7

\* A write of a ready job leaves a tree of that shape and a ready job, and
\* changes nothing of the record but to add to the version being cut, which
\* follows the rest, a file that was not there and is what its source compiles to.
LEMMA WriteStep ==
  ASSUME NEW t, Shape(t), NEW j, JobTyped(j), JobReady(t, j), j # <<>>,
         NEW u, u = Written(t, Head(j))
  PROVE  /\ Shape(u) /\ JobTyped(Tail(j)) /\ JobReady(u, Tail(j))
         /\ \A tag \in Tags, n \in Names :
              u.frozen[tag][n] # t.frozen[tag][n]
                => /\ t.frozen[tag][n] = NoFile /\ u.frozen[tag][n] = t.source[n]
                   /\ \A other \in FrozenTags(t) \ {tag} : tagPrecedes(other, tag)
<1> DEFINE w == j[1]
           n == w.name
           v == t.version
           q == Tail(j)
<1>1. j \in Seq(JobWrites)
  BY DEF JobTyped
<1>2. /\ Head(j) = w /\ w \in JobWrites /\ Len(j) \in Nat /\ 1 \in 1..Len(j)
      /\ q \in Seq(JobWrites) /\ Len(q) = Len(j) - 1
      /\ \A i \in 1..Len(q) : i + 1 \in 1..Len(j) /\ q[i] = j[i + 1]
  BY <1>1, TailOf
<1>3. IsTree(u) /\ u.source = t.source /\ u.build = t.build /\ u.version = v
  BY <1>2, WrittenParts DEF Changed
<1>4. u.candidate = IF w.kind = "snapshot" THEN [t.candidate EXCEPT ![n] = t.source[n]]
                    ELSE t.candidate
  BY <1>2, WrittenParts DEF Changed
<1>5. u.named = IF w.kind = "dir"
                THEN [t.named EXCEPT ![v] = Range(releaseRecordNames(t.build))]
                ELSE t.named
  BY <1>2, WrittenParts DEF Changed
<1>6. u.frozen = IF w.kind = "freeze"
                 THEN [t.frozen EXCEPT ![v] = [t.frozen[v] EXCEPT ![n] = t.candidate[n]]]
                 ELSE t.frozen
  BY <1>2, WrittenParts DEF Changed
<1>7. /\ t.source \in Files /\ t.candidate \in Files /\ t.build \in Builds /\ v \in Versions
      /\ t.named \in [Tags -> SUBSET Names] /\ t.frozen \in [Tags -> Files]
      /\ \A tag \in Tags, m \in Names : t.frozen[tag][m] # NoFile => m \in t.named[tag]
  BY DEF Shape
<1>8. w.kind \in {"snapshot", "freeze"} => n \in Names
  BY <1>2 DEF JobTyped
<1>9. w.kind = "dir" => DirReady(t, j, 1)
  BY <1>2 DEF JobReady
<1>10. w.kind = "freeze" => FreezeReady(t, j, 1)
  BY <1>2 DEF JobReady
<1>11. \A i \in 1..Len(q) : /\ q[i].kind = "dir" => DirReady(t, j, i + 1)
                            /\ q[i].kind = "freeze" => FreezeReady(t, j, i + 1)
  BY <1>2 DEF JobReady
<1>12. Range(releaseRecordNames(t.build)) \subseteq Names
  <2>1. releaseRecordNames(t.build) \in Seq(Names)
    BY <1>7, RecordNames
  <2> QED BY <2>1 DEF Range
<1>13. JobTyped(q)
  <2>1. ASSUME NEW i \in 1..Len(q), q[i].kind \in {"snapshot", "freeze"}
        PROVE  q[i].name \in Names
    <3>1. i + 1 \in 1..Len(j) /\ q[i] = j[i + 1]
      BY <1>2
    <3> QED BY <2>1, <3>1 DEF JobTyped
  <2> QED BY <1>2, <2>1 DEF JobTyped
\* The file a freeze writes.
<1>14. ASSUME w.kind = "freeze"
       PROVE  /\ v \in Tags /\ n \in Names /\ t.frozen[v][n] = NoFile /\ n \in t.named[v]
              /\ t.candidate[n] = t.source[n]
              /\ \A other \in FrozenTags(t) \ {v} : tagPrecedes(other, v)
              /\ \A k \in 1..Len(j) : j[k].kind = "freeze" /\ j[k].name = n => k = 1
  <2>1. FreezeReady(t, j, 1)
    BY <1>10, <1>14
  <2>2. ~ \E k \in 1..Len(j) : k < 1
    BY <1>2
  <2> QED BY <2>1, <2>2, <1>8, <1>14 DEF FreezeReady
<1> HIDE DEF w, n, v, q
<1>15. Shape(u)
  <2>1. u.candidate \in Files
    BY <1>4, <1>7, <1>8 DEF Files
  <2>2. u.named \in [Tags -> SUBSET Names]
    BY <1>5, <1>7, <1>12
  <2>3. u.frozen \in [Tags -> Files]
    <3>1. CASE w.kind = "freeze"
      <4>1. t.candidate[n] \in Codes \cup {NoFile} /\ t.frozen[v] \in Files
        BY <1>7, <1>14, <3>1 DEF Files
      <4>2. [t.frozen[v] EXCEPT ![n] = t.candidate[n]] \in Files
        BY <1>14, <3>1, <4>1 DEF Files
      <4> QED BY <1>6, <1>7, <3>1, <4>2
    <3> QED BY <3>1, <1>6, <1>7
  <2>4. ASSUME NEW tag \in Tags, NEW m \in Names, u.frozen[tag][m] # NoFile
        PROVE  m \in u.named[tag]
    <3>1. CASE w.kind = "freeze"
      <4>1. u.named = t.named
        BY <1>5, <3>1
      <4>2. CASE tag = v /\ m = n
        BY <4>1, <4>2, <1>14, <3>1
      <4>3. CASE ~(tag = v /\ m = n)
        <5>1. u.frozen[tag][m] = t.frozen[tag][m]
          BY <1>6, <1>7, <3>1, <4>3 DEF Files
        <5> QED BY <5>1, <4>1, <2>4, <1>7
      <4> QED BY <4>2, <4>3
    <3>2. CASE w.kind = "dir"
      <4>1. u.frozen = t.frozen /\ v \in Tags /\ t.named[v] = {}
        BY <1>6, <1>9, <3>2 DEF DirReady, v
      <4>2. m \in t.named[tag]
        BY <4>1, <2>4, <1>7
      <4>3. tag # v
        BY <4>1, <4>2
      <4> QED BY <1>5, <1>7, <3>2, <4>2, <4>3
    <3>3. CASE w.kind \notin {"freeze", "dir"}
      BY <3>3, <2>4, <1>5, <1>6, <1>7
    <3> QED BY <3>1, <3>2, <3>3
  <2> QED BY <1>3, <1>7, <2>1, <2>2, <2>3, <2>4 DEF Shape
<1>16. ASSUME NEW i \in 1..Len(q), q[i].kind = "dir"
       PROVE  DirReady(u, q, i)
  <2>1. /\ v \in Tags /\ t.named[v] = {} /\ i + 1 \in 1..Len(j)
        /\ \A k \in 1..Len(j) : j[k].kind = "dir" => k = i + 1
    BY <1>2, <1>11, <1>16 DEF DirReady, v
  <2>2. w.kind # "dir"
    <3>1. 1 # i + 1
      BY <1>2
    <3> QED BY <2>1, <3>1, <1>2 DEF w
  <2>3. u.named = t.named
    BY <1>5, <2>2
  <2>4. ASSUME NEW k \in 1..Len(q), q[k].kind = "dir" PROVE k = i
    <3>1. k + 1 \in 1..Len(j) /\ j[k + 1].kind = "dir"
      BY <1>2, <2>4
    <3>2. k + 1 = i + 1
      BY <2>1, <3>1
    <3> QED BY <1>2, <3>2
  <2> QED BY <1>3, <2>1, <2>3, <2>4 DEF DirReady
<1>17. ASSUME NEW i \in 1..Len(q), q[i].kind = "freeze"
       PROVE  FreezeReady(u, q, i)
  <2> DEFINE m == q[i].name
  <2>1. /\ v \in Tags /\ t.frozen[v][m] = NoFile
        /\ m \in Range(releaseRecordNames(t.build))
        /\ \A other \in FrozenTags(t) \ {v} : tagPrecedes(other, v)
        /\ \A k \in 1..Len(j) : j[k].kind = "freeze" /\ j[k].name = m => k = i + 1
        /\ \/ t.candidate[m] = t.source[m]
           \/ \E k \in 1..Len(j) : k < i + 1 /\ j[k].kind = "snapshot" /\ j[k].name = m
        /\ \/ m \in t.named[v]
           \/ \E k \in 1..Len(j) : k < i + 1 /\ j[k].kind = "dir"
    BY <1>2, <1>11, <1>17 DEF FreezeReady, v
  <2>2. m \in Names /\ i + 1 # 1 /\ i \in Nat
    BY <1>2, <1>12, <2>1
  <2> HIDE DEF m
  <2>3. ASSUME NEW k \in 1..Len(j), k < i + 1, k # 1
        PROVE  k - 1 \in 1..Len(q) /\ k - 1 < i /\ q[k - 1] = j[k]
    <3>1. k - 1 \in 1..Len(q) /\ k - 1 < i /\ (k - 1) + 1 = k
      BY <1>2, <2>2, <2>3
    <3>2. q[k - 1] = j[(k - 1) + 1]
      BY <1>2, <3>1
    <3> QED BY <3>1, <3>2
  <2>4. u.frozen[v][m] = NoFile
    <3>1. CASE w.kind = "freeze"
      <4>1. m # n
        BY <1>2, <2>1, <2>2, <3>1 DEF w, n
      <4> QED BY <4>1, <1>6, <1>7, <2>1, <2>2, <3>1 DEF Files
    <3> QED BY <3>1, <1>6, <2>1
  <2>5. \A other \in FrozenTags(u) \ {v} : tagPrecedes(other, v)
    <3>1. ASSUME NEW other \in FrozenTags(u), other # v PROVE other \in FrozenTags(t)
      <4>1. other \in Tags /\ u.frozen[other] = t.frozen[other]
        BY <1>6, <1>7, <3>1 DEF FrozenTags
      <4> QED BY <3>1, <4>1 DEF FrozenTags, FrozenAt
    <3> QED BY <2>1, <3>1
  <2>6. ASSUME NEW k \in 1..Len(q), q[k].kind = "freeze", q[k].name = m PROVE k = i
    <3>1. k + 1 \in 1..Len(j) /\ j[k + 1].kind = "freeze" /\ j[k + 1].name = m
      BY <1>2, <2>6
    <3>2. k + 1 = i + 1
      BY <2>1, <3>1
    <3> QED BY <1>2, <2>2, <3>2
  <2>7. \/ u.candidate[m] = u.source[m]
        \/ \E k \in 1..Len(q) : k < i /\ q[k].kind = "snapshot" /\ q[k].name = m
    <3>1. CASE t.candidate[m] = t.source[m]
      BY <3>1, <1>3, <1>4, <1>7, <2>2 DEF Files
    <3>2. ASSUME NEW k \in 1..Len(j), k < i + 1, j[k].kind = "snapshot", j[k].name = m
          PROVE  \/ u.candidate[m] = u.source[m]
                 \/ \E l \in 1..Len(q) : l < i /\ q[l].kind = "snapshot" /\ q[l].name = m
      <4>1. CASE k = 1
        <5>1. w.kind = "snapshot" /\ n = m
          BY <3>2, <4>1 DEF w, n
        <5> QED BY <5>1, <1>3, <1>4, <1>7, <2>2 DEF Files
      <4>2. CASE k # 1
        BY <2>3, <3>2, <4>2
      <4> QED BY <4>1, <4>2
    <3> QED BY <2>1, <3>1, <3>2
  <2>8. \/ m \in u.named[v]
        \/ \E k \in 1..Len(q) : k < i /\ q[k].kind = "dir"
    <3>1. CASE m \in t.named[v]
      BY <3>1, <1>5, <1>7, <2>1
    <3>2. ASSUME NEW k \in 1..Len(j), k < i + 1, j[k].kind = "dir"
          PROVE  m \in u.named[v] \/ \E l \in 1..Len(q) : l < i /\ q[l].kind = "dir"
      <4>1. CASE k = 1
        <5>1. w.kind = "dir"
          BY <3>2, <4>1 DEF w
        <5> QED BY <5>1, <1>5, <1>7, <2>1
      <4>2. CASE k # 1
        BY <2>3, <3>2, <4>2
      <4> QED BY <4>1, <4>2
    <3> QED BY <2>1, <3>1, <3>2
  <2> QED BY <1>3, <2>1, <2>4, <2>5, <2>6, <2>7, <2>8 DEF FreezeReady, m
<1>18. ASSUME NEW tag \in Tags, NEW m \in Names, u.frozen[tag][m] # t.frozen[tag][m]
       PROVE  /\ t.frozen[tag][m] = NoFile /\ u.frozen[tag][m] = t.source[m]
              /\ \A other \in FrozenTags(t) \ {tag} : tagPrecedes(other, tag)
  <2>1. w.kind = "freeze"
    BY <1>6, <1>18
  <2>2. tag = v /\ m = n
    BY <1>6, <1>7, <1>14, <1>18, <2>1 DEF Files
  <2>3. u.frozen[v][n] = t.candidate[n]
    BY <1>6, <1>7, <1>14, <2>1 DEF Files
  <2> QED BY <1>14, <2>1, <2>2, <2>3
<1> QED BY <1>13, <1>15, <1>16, <1>17, <1>18 DEF JobReady, q

\* What a merge keeps of a tree: all but the directories with no file in them.
LEMMA CommittedParts ==
  ASSUME NEW t, Shape(t), NEW u, u = Committed(t)
  PROVE  /\ IsTree(u)
         /\ u.source = t.source /\ u.build = t.build /\ u.version = t.version
         /\ u.candidate = t.candidate /\ u.frozen = t.frozen
         /\ u.lib = t.lib /\ u.aggregate = t.aggregate
         /\ u.named = [tag \in Tags |-> IF FrozenAt(t, tag) = {} THEN {} ELSE t.named[tag]]
<1> DEFINE named == [tag \in Tags |-> IF FrozenAt(t, tag) = {} THEN {} ELSE t.named[tag]]
           r == [source |-> t.source, build |-> t.build, version |-> t.version,
                 candidate |-> t.candidate, named |-> t.named, frozen |-> t.frozen,
                 lib |-> t.lib, aggregate |-> t.aggregate]
<1>1. t = r
  BY DEF Shape, IsTree
<1>2. u = [r EXCEPT !.named = named]
  BY <1>1 DEF Committed
<1> HIDE DEF named
<1>3. u = [source |-> t.source, build |-> t.build, version |-> t.version,
           candidate |-> t.candidate, named |-> named, frozen |-> t.frozen,
           lib |-> t.lib, aggregate |-> t.aggregate]
  BY <1>2
<1> QED BY <1>3 DEF named, IsTree

LEMMA MergedShape ==
  ASSUME NEW t, Shape(t), NEW u, u = Committed(t)
  PROVE  Shape(u)
<1>1. /\ u.source = t.source /\ u.build = t.build /\ u.version = t.version
      /\ u.candidate = t.candidate /\ u.frozen = t.frozen
      /\ u.named = [tag \in Tags |-> IF FrozenAt(t, tag) = {} THEN {} ELSE t.named[tag]]
      /\ IsTree(u)
  BY CommittedParts
<1>2. u.named \in [Tags -> SUBSET Names]
  BY <1>1 DEF Shape
<1>3. ASSUME NEW tag \in Tags, NEW m \in Names, t.frozen[tag][m] # NoFile
      PROVE  m \in u.named[tag]
  <2>1. m \in FrozenAt(t, tag) /\ m \in t.named[tag]
    BY <1>3 DEF FrozenAt, Shape
  <2> QED BY <1>1, <2>1
<1> QED BY <1>1, <1>2, <1>3 DEF Shape

LEMMA FirstShape == Shape(FirstTree)
BY ReleaseAssumption, MergedAssumption DEF Tree, Shape, IsTree, FrozenAt

\* What people change of a tree between builds keeps its shape.
LEMMA EditedShape ==
  ASSUME Shape(tree)
  PROVE  /\ \A n \in Names, code \in Codes \cup {NoFile} :
              Shape([tree EXCEPT !.source[n] = code])
         /\ \A b \in Builds : Shape([tree EXCEPT !.build = b])
         /\ \A v \in Versions : Shape([tree EXCEPT !.version = v])
<1> DEFINE t(source, build, version) ==
             [source |-> source, build |-> build, version |-> version,
              candidate |-> tree.candidate, named |-> tree.named, frozen |-> tree.frozen,
              lib |-> tree.lib, aggregate |-> tree.aggregate]
<1>1. tree = t(tree.source, tree.build, tree.version)
  BY DEF Shape, IsTree
<1>2. ASSUME NEW n \in Names, NEW code \in Codes \cup {NoFile}
      PROVE  Shape([tree EXCEPT !.source[n] = code])
  <2>1. [tree.source EXCEPT ![n] = code] \in Files
    BY DEF Shape, Files
  <2>2. [tree EXCEPT !.source[n] = code]
          = t([tree.source EXCEPT ![n] = code], tree.build, tree.version)
    BY <1>1
  <2>3. Shape(t([tree.source EXCEPT ![n] = code], tree.build, tree.version))
    BY <2>1 DEF Shape, IsTree
  <2> QED BY <2>2, <2>3
<1>3. ASSUME NEW b \in Builds PROVE Shape([tree EXCEPT !.build = b])
  <2>1. [tree EXCEPT !.build = b] = t(tree.source, b, tree.version)
    BY <1>1
  <2>2. Shape(t(tree.source, b, tree.version))
    BY DEF Shape, IsTree
  <2> QED BY <2>1, <2>2
<1>4. ASSUME NEW v \in Versions PROVE Shape([tree EXCEPT !.version = v])
  <2>1. [tree EXCEPT !.version = v] = t(tree.source, tree.build, v)
    BY <1>1
  <2>2. Shape(t(tree.source, tree.build, v))
    BY DEF Shape, IsTree
  <2> QED BY <2>1, <2>2
<1> QED BY <1>2, <1>3, <1>4

LEMMA NothingPending ==
  ASSUME NEW t
  PROVE  JobTyped(<<>>) /\ JobReady(t, <<>>)
BY DEF JobTyped, JobReady

\* Whatever is written, refused, killed, edited, discarded or merged, the trees
\* keep their shape, and a pending cut what its writes count on (freeze).
THEOREM RecordInvInductive == Spec => []RecordInv
<1>1. Init => RecordInv
  BY FirstShape, NothingPending DEF Init, RecordInv
<1>2. RecordInv /\ [Next]_vars => RecordInv'
  <2> SUFFICES ASSUME RecordInv, [Next]_vars PROVE RecordInv'
    OBVIOUS
  <2> USE DEF RecordInv
  <2>1. CASE run
    <3>1. tree.build \in Builds
      BY DEF Shape
    <3>2. JobTyped(job') /\ JobReady(tree, job')
      BY <2>1, <3>1, RunIsReady DEF run
    <3> QED BY <2>1, <3>2 DEF run
  <2>2. CASE cutRelease
    <3>1. JobTyped(job') /\ JobReady(tree, job')
      BY <2>2, CutIsReady DEF cutRelease
    <3> QED BY <2>2, <3>1 DEF cutRelease
  <2>3. CASE WriteNext
    <3>1. Shape(tree') /\ JobTyped(job') /\ JobReady(tree', job')
      BY <2>3, WriteStep DEF WriteNext, Idle
    <3> QED BY <2>3, <3>1 DEF WriteNext
  <2>4. CASE Revert
    BY <2>4, NothingPending DEF Revert
  <2>5. CASE Kill
    BY <2>5, NothingPending DEF Kill
  <2>6. CASE EditSource \/ EditBuild \/ SetVersion
    <3>1. /\ \A n \in Names, code \in Codes \cup {NoFile} :
               Shape([tree EXCEPT !.source[n] = code])
          /\ \A b \in Builds : Shape([tree EXCEPT !.build = b])
          /\ \A v \in Versions : Shape([tree EXCEPT !.version = v])
      BY EditedShape
    <3>2. Shape(tree') /\ job = <<>> /\ job' = job /\ main' = main
      BY <2>6, <3>1 DEF EditSource, EditBuild, SetVersion, Edit, Idle
    <3> QED BY <3>2, NothingPending
  <2>7. CASE Discard
    BY <2>7, NothingPending DEF Discard, Idle
  <2>8. CASE Merge
    BY <2>8, MergedShape DEF Merge
  <2>9. CASE Deploy
    BY <2>9 DEF Deploy
  <2>10. CASE Publish
    BY <2>10 DEF Publish
  <2>11. CASE UNCHANGED vars
    BY <2>11 DEF vars
  <2> QED BY <2>1, <2>2, <2>3, <2>4, <2>5, <2>6, <2>7, <2>8, <2>9, <2>10, <2>11 DEF Next
<1> QED BY <1>1, <1>2, PTL DEF Spec

\* For every set of sources, versions and hooks: what a build writes into the
\* record is a new file, of its source, in the latest version there is.
THEOREM RecordGrows == Spec => RecordGrowsFromSource
<1>1. ASSUME RecordInv, [Next]_vars, NEW tag \in Tags, NEW n \in Names,
             tree'.frozen[tag][n] # tree.frozen[tag][n], tree' # main
      PROVE  /\ tree.frozen[tag][n] = NoFile
             /\ tree'.frozen[tag][n] = tree.source[n]
             /\ \A other \in FrozenTags(tree) \ {tag} : VersionBelow(other, tag)
  <2>1. CASE WriteNext
    <3>1. /\ tree.frozen[tag][n] = NoFile /\ tree'.frozen[tag][n] = tree.source[n]
          /\ \A other \in FrozenTags(tree) \ {tag} : tagPrecedes(other, tag)
      BY <1>1, <2>1, WriteStep DEF WriteNext, Idle, RecordInv
    <3>2. FrozenTags(tree) \subseteq Tags
      BY DEF FrozenTags
    <3> QED BY <3>1, <3>2, PrecedesMeansBelow
  <2>2. CASE EditSource \/ EditBuild \/ SetVersion
    <3>1. tree'.frozen = tree.frozen
      BY <1>1, <2>2 DEF EditSource, EditBuild, SetVersion, Edit, RecordInv, Shape, IsTree
    <3> QED BY <1>1, <3>1
  <2>3. CASE Discard
    BY <1>1, <2>3 DEF Discard
  <2>4. CASE UNCHANGED tree
    BY <1>1, <2>4
  <2>5. run \/ cutRelease \/ Revert \/ Kill \/ Merge \/ Deploy \/ Publish \/ UNCHANGED vars
          => UNCHANGED tree
    BY DEF run, cutRelease, Revert, Kill, Merge, Deploy, Publish, vars
  <2> QED BY <1>1, <2>1, <2>2, <2>3, <2>4, <2>5 DEF Next
<1>2. RecordInv /\ [Next]_vars
        => [\A tag \in Tags, n \in Names :
              tree'.frozen[tag][n] # tree.frozen[tag][n] /\ tree' # main
                => /\ tree.frozen[tag][n] = NoFile
                   /\ tree'.frozen[tag][n] = tree.source[n]
                   /\ \A other \in FrozenTags(tree) \ {tag} : VersionBelow(other, tag)]_vars
  BY <1>1
<1> QED BY <1>2, RecordInvInductive, PTL DEF Spec, RecordGrowsFromSource

----
(* Every release is whole, or a cut is making it.                           *)

Has(j, kind) == \E i \in 1..Len(j) : j[i].kind = kind
PendingFiles(j) == {n \in Names : \E i \in 1..Len(j) : j[i].kind = "freeze" /\ j[i].name = n}

\* A release directory lacks only the files its cut has still to write, and
\* once a cut has made its directory nothing is left that could refuse it.
Lacking(t, j, tag) == IF tag = t.version /\ ~Has(j, "dir") THEN PendingFiles(j) ELSE {}
Whole(t, j) ==
  /\ \A tag \in Tags : t.named[tag] = FrozenAt(t, tag) \cup Lacking(t, j, tag)
  /\ \A i, k \in 1..Len(j) : j[k].kind = "dir" =>
       /\ j[i].kind = "snapshot" => i < k
       /\ j[i].kind = "freeze" => k < i
  /\ Has(j, "dir") => PendingFiles(j) = Range(releaseRecordNames(t.build))
  /\ Has(j, "dir") \/ PendingFiles(j) = {} \/ ~Has(j, "snapshot")
  /\ Has(j, "dir") \/ \A n \in PendingFiles(j) : t.candidate[n] # NoFile

WholeInv == kills \in Nat /\ (kills = 0 => Whole(tree, job) /\ Whole(main, <<>>))

LEMMA WholeAtRest ==
  ASSUME NEW t
  PROVE  Whole(t, <<>>) <=> \A tag \in Tags : t.named[tag] = FrozenAt(t, tag)
<1>1. (\A kind : ~Has(<<>>, kind)) /\ PendingFiles(<<>>) = {}
  BY DEF Has, PendingFiles
<1>2. \A tag : Lacking(t, <<>>, tag) = {}
  BY <1>1 DEF Lacking
<1>3. 1..Len(<<>>) = {}
  OBVIOUS
<1> QED BY <1>1, <1>2, <1>3 DEF Whole

LEMMA CutWrites ==
  ASSUME NEW b \in Builds, NEW n, n = releaseRecordNames(b), NEW f, f = freeze(b),
         NEW j, j = f \o regenerateLibs(b)
  PROVE  /\ Len(n) \in Nat /\ Len(n) + 1 \in 1..Len(j) /\ j[Len(n) + 1].kind = "dir"
         /\ \A i \in 1..Len(j) :
              /\ j[i].kind = "snapshot" => i < Len(n) + 1
              /\ j[i].kind = "dir" => i = Len(n) + 1
              /\ j[i].kind = "freeze" => i > Len(n) + 1
         /\ PendingFiles(j) = Range(n)
<1>1. /\ n \in Seq(Names) /\ Len(n) \in Nat /\ DOMAIN n = 1..Len(n)
      /\ JobTyped(f) /\ Len(f) = Len(n) + 1 + Len(n)
      /\ \A i \in 1..Len(f) :
           \/ i \in 1..Len(n) /\ f[i].kind = "snapshot" /\ f[i].name = n[i]
           \/ i = Len(n) + 1 /\ f[i].kind = "dir"
           \/ /\ i > Len(n) + 1 /\ i - Len(n) - 1 \in 1..Len(n)
              /\ f[i].kind = "freeze" /\ f[i].name = n[i - Len(n) - 1]
  <2>1. CutOrder(n, f)
    BY FreezeOrder
  <2> QED BY <2>1 DEF CutOrder
<1>2. /\ JobTyped(j) /\ Len(j) \in Nat /\ Len(f) <= Len(j)
      /\ \A i \in 1..Len(f) : j[i] = f[i]
      /\ \A i \in 1..Len(j) : j[i].kind \in {"snapshot", "dir", "freeze"} => i \in 1..Len(f)
  <2>1. f \in Seq(JobWrites)
    BY <1>1 DEF JobTyped
  <2> QED BY <1>1, <2>1, WithLibs
<1>3. \A i \in 1..Len(n) : n[i] \in Names
  BY <1>1
<1>4. ASSUME NEW i \in 1..Len(j), j[i].kind \in {"snapshot", "dir", "freeze"}
      PROVE  \/ i \in 1..Len(n) /\ j[i].kind = "snapshot"
             \/ i = Len(n) + 1 /\ j[i].kind = "dir"
             \/ /\ i > Len(n) + 1 /\ i - Len(n) - 1 \in 1..Len(n)
                /\ j[i].kind = "freeze" /\ j[i].name = n[i - Len(n) - 1]
  BY <1>1, <1>2, <1>4
<1>5. Len(n) + 1 \in 1..Len(j) /\ j[Len(n) + 1].kind = "dir"
  <2>1. Len(n) + 1 \in 1..Len(f) /\ Len(n) + 1 \in 1..Len(j) /\ Len(n) + 1 \notin 1..Len(n)
    BY <1>1, <1>2
  <2>2. j[Len(n) + 1] = f[Len(n) + 1]
    BY <1>2, <2>1
  <2>3. f[Len(n) + 1].kind = "dir"
    BY <1>1, <2>1
  <2> QED BY <2>1, <2>2, <2>3
<1>6. ASSUME NEW i \in 1..Len(n) PROVE n[i] \in PendingFiles(j)
  <2> DEFINE k == Len(n) + 1 + i
  <2>1. k \in 1..Len(f) /\ k \in 1..Len(j) /\ k > Len(n) + 1 /\ k - Len(n) - 1 = i
        /\ k \notin 1..Len(n)
    BY <1>1, <1>2
  <2> HIDE DEF k
  <2>2. f[k].kind = "freeze" /\ f[k].name = n[i] /\ j[k] = f[k]
    BY <1>1, <1>2, <2>1
  <2> QED BY <2>1, <2>2, <1>3 DEF PendingFiles
<1>7. PendingFiles(j) = Range(n)
  <2>1. ASSUME NEW m \in PendingFiles(j) PROVE m \in Range(n)
    <3>1. PICK i \in 1..Len(j) : j[i].kind = "freeze" /\ j[i].name = m
      BY DEF PendingFiles
    <3>2. i - Len(n) - 1 \in DOMAIN n /\ m = n[i - Len(n) - 1]
      BY <1>1, <1>4, <3>1
    <3> QED BY <3>2 DEF Range
  <2> QED BY <1>1, <1>6, <2>1 DEF Range
<1> QED BY <1>1, <1>4, <1>5, <1>7

LEMMA RunWrites ==
  ASSUME NEW b \in Builds, NEW s, s = regenerateSnapshots(b), NEW j, j = s \o regenerateLibs(b)
  PROVE  ~Has(j, "dir") /\ ~Has(j, "freeze") /\ PendingFiles(j) = {}
<1>1. JobTyped(s) /\ \A i \in 1..Len(s) : s[i].kind = "snapshot"
  BY SnapshotWrites
<1>2. s \in Seq(JobWrites)
  BY <1>1 DEF JobTyped
<1>3. /\ \A i \in 1..Len(s) : j[i] = s[i]
      /\ \A i \in 1..Len(j) : j[i].kind \in {"snapshot", "dir", "freeze"} => i \in 1..Len(s)
  BY <1>1, <1>2, WithLibs
<1>4. \A i \in 1..Len(j) : j[i].kind \notin {"dir", "freeze"}
  BY <1>1, <1>3
<1> QED BY <1>4 DEF Has, PendingFiles

LEMMA WholeStart ==
  ASSUME NEW t, Shape(t), Whole(t, <<>>)
  PROVE  /\ Whole(t, regenerateSnapshots(t.build) \o regenerateLibs(t.build))
         /\ mayFreeze(t) => Whole(t, freeze(t.build) \o regenerateLibs(t.build))
<1>1. t.build \in Builds /\ \A tag \in Tags : t.named[tag] = FrozenAt(t, tag)
  BY WholeAtRest DEF Shape
<1>2. Whole(t, regenerateSnapshots(t.build) \o regenerateLibs(t.build))
  <2> DEFINE j == regenerateSnapshots(t.build) \o regenerateLibs(t.build)
  <2>1. ~Has(j, "dir") /\ ~Has(j, "freeze") /\ PendingFiles(j) = {}
    BY <1>1, RunWrites
  <2> HIDE DEF j
  <2>2. Whole(t, j)
    BY <1>1, <2>1 DEF Whole, Lacking, Has
  <2> QED BY <2>2 DEF j
<1>3. Whole(t, freeze(t.build) \o regenerateLibs(t.build))
  <2> DEFINE j == freeze(t.build) \o regenerateLibs(t.build)
             n == releaseRecordNames(t.build)
  <2>1. /\ Len(n) \in Nat /\ Len(n) + 1 \in 1..Len(j) /\ j[Len(n) + 1].kind = "dir"
        /\ \A i \in 1..Len(j) : /\ j[i].kind = "snapshot" => i < Len(n) + 1
                                /\ j[i].kind = "dir" => i = Len(n) + 1
                                /\ j[i].kind = "freeze" => i > Len(n) + 1
        /\ PendingFiles(j) = Range(n)
    BY <1>1, CutWrites
  <2> HIDE DEF j, n
  <2>2. Has(j, "dir")
    BY <2>1 DEF Has
  <2>3. Whole(t, j)
    BY <1>1, <2>1, <2>2 DEF Whole, Lacking, n
  <2> QED BY <2>3 DEF j
<1> QED BY <1>2, <1>3
\* What the first write of a job leaves pending.
LEMMA TailPending ==
  ASSUME NEW j, JobTyped(j), j # <<>>, NEW q, q = Tail(j)
  PROVE  /\ \A kind : Has(j, kind) <=> j[1].kind = kind \/ Has(q, kind)
         /\ PendingFiles(j)
              = PendingFiles(q) \cup (IF j[1].kind = "freeze" THEN {j[1].name} ELSE {})
         /\ \A i \in 1..Len(q) : i + 1 \in 1..Len(j) /\ q[i] = j[i + 1]
         /\ j[1].kind = "freeze" => j[1].name \in Names
<1>1. /\ Len(j) \in Nat /\ 1 \in 1..Len(j) /\ Len(q) = Len(j) - 1
      /\ \A i \in 1..Len(q) : i + 1 \in 1..Len(j) /\ q[i] = j[i + 1]
  BY TailOf DEF JobTyped
<1>2. ASSUME NEW i \in 1..Len(j), i # 1 PROVE i - 1 \in 1..Len(q) /\ q[i - 1] = j[i]
  <2>1. i - 1 \in 1..Len(q) /\ (i - 1) + 1 = i
    BY <1>1, <1>2
  <2>2. q[i - 1] = j[(i - 1) + 1]
    BY <1>1, <2>1
  <2> QED BY <2>1, <2>2
<1>3. ASSUME NEW kind PROVE Has(j, kind) <=> j[1].kind = kind \/ Has(q, kind)
  BY <1>1, <1>2 DEF Has
<1>4. j[1].kind = "freeze" => j[1].name \in Names
  BY <1>1 DEF JobTyped
<1>5. ASSUME NEW n \in Names
      PROVE  n \in PendingFiles(j)
               <=> n \in PendingFiles(q) \/ (j[1].kind = "freeze" /\ j[1].name = n)
  BY <1>1, <1>2 DEF PendingFiles
<1>6. PendingFiles(j) \subseteq Names /\ PendingFiles(q) \subseteq Names
  BY DEF PendingFiles
<1>7. PendingFiles(j)
        = PendingFiles(q) \cup (IF j[1].kind = "freeze" THEN {j[1].name} ELSE {})
  <2>1. CASE j[1].kind = "freeze"
    BY <2>1, <1>4, <1>5, <1>6
  <2>2. CASE j[1].kind # "freeze"
    BY <2>2, <1>5, <1>6
  <2> QED BY <2>1, <2>2
<1> QED BY <1>1, <1>3, <1>4, <1>7

LEMMA WholeWrite ==
  ASSUME NEW t, Shape(t), NEW j, JobTyped(j), JobReady(t, j), j # <<>>, Whole(t, j),
         ~Refused(t, Head(j)),
         NEW u, u = Written(t, Head(j))
  PROVE  Whole(u, Tail(j))
<1> DEFINE w == j[1]
           n == w.name
           v == t.version
           q == Tail(j)
           r == Range(releaseRecordNames(t.build))
<1>1. Head(j) = w /\ w \in JobWrites /\ Len(j) \in Nat /\ 1 \in 1..Len(j)
  BY TailOf DEF JobTyped
<1>2. /\ \A kind : Has(j, kind) <=> w.kind = kind \/ Has(q, kind)
      /\ PendingFiles(j) = PendingFiles(q) \cup (IF w.kind = "freeze" THEN {n} ELSE {})
      /\ \A i \in 1..Len(q) : i + 1 \in 1..Len(j) /\ q[i] = j[i + 1]
      /\ w.kind = "freeze" => n \in Names
  BY TailPending
<1>3. /\ u.source = t.source /\ u.build = t.build /\ u.version = v
      /\ u.candidate = IF w.kind = "snapshot" THEN [t.candidate EXCEPT ![n] = t.source[n]]
                       ELSE t.candidate
      /\ u.named = IF w.kind = "dir" THEN [t.named EXCEPT ![v] = r] ELSE t.named
      /\ u.frozen = IF w.kind = "freeze"
                    THEN [t.frozen EXCEPT ![v] = [t.frozen[v] EXCEPT ![n] = t.candidate[n]]]
                    ELSE t.frozen
  <2>1. Changed(t, w, u)
    BY <1>1, WrittenParts
  <2> QED BY <2>1 DEF Changed
<1>4. /\ t.candidate \in Files /\ t.named \in [Tags -> SUBSET Names] /\ t.frozen \in [Tags -> Files]
      /\ \A tag \in Tags, m \in Names : t.frozen[tag][m] # NoFile => m \in t.named[tag]
  BY DEF Shape
<1>5. w.kind = "dir" => DirReady(t, j, 1)
  BY <1>1 DEF JobReady
<1>6. w.kind = "freeze" => FreezeReady(t, j, 1)
  BY <1>1 DEF JobReady
<1>7. /\ \A tag \in Tags : t.named[tag] = FrozenAt(t, tag) \cup Lacking(t, j, tag)
      /\ \A i, k \in 1..Len(j) : j[k].kind = "dir" =>
           /\ j[i].kind = "snapshot" => i < k
           /\ j[i].kind = "freeze" => k < i
      /\ Has(j, "dir") => PendingFiles(j) = r
      /\ Has(j, "dir") \/ PendingFiles(j) = {} \/ ~Has(j, "snapshot")
      /\ Has(j, "dir") \/ \A m \in PendingFiles(j) : t.candidate[m] # NoFile
  BY DEF Whole
<1>8. ~Refused(t, w)
  BY <1>1
<1> HIDE DEF w, n, v, q
<1>9. ASSUME NEW i \in 1..Len(q), NEW k \in 1..Len(q), q[k].kind = "dir"
      PROVE  (q[i].kind = "snapshot" => i < k) /\ (q[i].kind = "freeze" => k < i)
  <2>1. /\ i + 1 \in 1..Len(j) /\ k + 1 \in 1..Len(j) /\ q[i] = j[i + 1] /\ q[k] = j[k + 1]
        /\ i \in Int /\ k \in Int
    BY <1>2
  <2>2. (j[i + 1].kind = "snapshot" => i + 1 < k + 1) /\ (j[i + 1].kind = "freeze" => k + 1 < i + 1)
    BY <1>7, <1>9, <2>1
  <2> QED BY <2>1, <2>2
<1>10. CASE w.kind = "dir"
  <2>1. /\ v \in Tags /\ t.named[v] = {}
        /\ \A k \in 1..Len(j) : j[k].kind = "dir" => k = 1
    BY <1>5, <1>10 DEF DirReady, v
  <2>2. ~Has(q, "dir")
    <3> SUFFICES ASSUME NEW i \in 1..Len(q), q[i].kind = "dir" PROVE FALSE
      BY DEF Has
    <3>1. i + 1 \in 1..Len(j) /\ j[i + 1].kind = "dir" /\ i + 1 # 1
      BY <1>2
    <3> QED BY <2>1, <3>1
  <2>3. ~Has(q, "snapshot")
    <3> SUFFICES ASSUME NEW i \in 1..Len(q), q[i].kind = "snapshot" PROVE FALSE
      BY DEF Has
    <3>1. i + 1 \in 1..Len(j) /\ j[i + 1].kind = "snapshot" /\ ~(i + 1 < 1)
      BY <1>2
    <3>2. i + 1 < 1
      BY <3>1, <1>1, <1>7, <1>10 DEF w
    <3> QED BY <3>1, <3>2
  <2>4. PendingFiles(q) = r
    BY <1>2, <1>7, <1>10
  <2>5. \A m \in r : u.candidate[m] # NoFile
    BY <1>3, <1>8, <1>10 DEF Refused
  <2>6. ASSUME NEW tag \in Tags PROVE u.named[tag] = FrozenAt(u, tag) \cup Lacking(u, q, tag)
    <3>1. FrozenAt(u, tag) = FrozenAt(t, tag)
      BY <1>3, <1>10 DEF FrozenAt
    <3>2. CASE tag = v
      <4>1. FrozenAt(t, tag) = {} /\ Lacking(u, q, tag) = r
        BY <1>3, <1>4, <2>1, <2>2, <2>4, <3>2 DEF FrozenAt, Lacking
      <4> QED BY <4>1, <3>1, <3>2, <1>3, <1>4, <1>10, <2>1
    <3>3. CASE tag # v
      <4>1. Lacking(u, q, tag) = {} /\ Lacking(t, j, tag) = {} /\ u.named[tag] = t.named[tag]
        BY <3>3, <1>3, <1>4, <1>10 DEF Lacking, v
      <4> QED BY <4>1, <3>1, <1>7
    <3> QED BY <3>2, <3>3
  <2> QED BY <1>9, <2>2, <2>3, <2>4, <2>5, <2>6 DEF Whole, q
<1>11. CASE w.kind = "freeze"
  <2>1. /\ v \in Tags /\ n \in Names
        /\ \A k \in 1..Len(j) : j[k].kind = "freeze" /\ j[k].name = n => k = 1
    BY <1>2, <1>6, <1>11 DEF FreezeReady, v, n, w
  <2>2. ~Has(j, "dir") /\ ~Has(q, "dir")
    <3> SUFFICES ASSUME NEW k \in 1..Len(j), j[k].kind = "dir" PROVE FALSE
      BY <1>2 DEF Has
    <3>1. k < 1
      BY <1>1, <1>7, <1>11 DEF w
    <3> QED BY <3>1
  <2>3. n \in PendingFiles(j) /\ n \notin PendingFiles(q)
    <3>1. n \in PendingFiles(j)
      BY <1>2, <1>11
    <3>2. ASSUME NEW i \in 1..Len(q), q[i].kind = "freeze", q[i].name = n PROVE FALSE
      <4>1. i + 1 \in 1..Len(j) /\ j[i + 1].kind = "freeze" /\ j[i + 1].name = n /\ i + 1 # 1
        BY <1>2, <3>2
      <4> QED BY <2>1, <4>1
    <3> QED BY <3>1, <3>2 DEF PendingFiles
  <2>4. PendingFiles(j) = PendingFiles(q) \cup {n}
    BY <1>2, <1>11
  <2>5. t.candidate[n] # NoFile
    BY <1>7, <2>2, <2>3
  <2>6. ASSUME NEW tag \in Tags PROVE u.named[tag] = FrozenAt(u, tag) \cup Lacking(u, q, tag)
    <3>1. u.named = t.named
      BY <1>3, <1>11
    <3>2. CASE tag = v
      <4>1. FrozenAt(u, tag) = FrozenAt(t, tag) \cup {n}
        BY <1>3, <1>4, <1>11, <2>1, <2>5, <3>2 DEF FrozenAt, Files
      <4>2. Lacking(u, q, tag) = PendingFiles(q) /\ Lacking(t, j, tag) = PendingFiles(j)
        BY <1>3, <2>2, <3>2 DEF Lacking, v
      <4> QED BY <3>1, <4>1, <4>2, <2>4, <1>7
    <3>3. CASE tag # v
      <4>1. FrozenAt(u, tag) = FrozenAt(t, tag)
        BY <1>3, <1>4, <1>11, <2>1, <3>3 DEF FrozenAt
      <4>2. Lacking(u, q, tag) = {} /\ Lacking(t, j, tag) = {}
        BY <3>3, <1>3 DEF Lacking, v
      <4> QED BY <3>1, <4>1, <4>2, <1>7
    <3> QED BY <3>2, <3>3
  <2>7. ~Has(q, "snapshot")
    BY <1>2, <1>7, <2>2, <2>3
  <2>8. \A m \in PendingFiles(q) : u.candidate[m] # NoFile
    BY <1>3, <1>7, <1>11, <2>2, <2>4
  <2> QED BY <1>9, <2>2, <2>6, <2>7, <2>8 DEF Whole, q
<1>12. CASE w.kind \notin {"dir", "freeze"}
  <2>1. /\ u.named = t.named /\ u.frozen = t.frozen /\ PendingFiles(q) = PendingFiles(j)
        /\ Has(q, "dir") <=> Has(j, "dir")
        /\ Has(q, "snapshot") => Has(j, "snapshot")
    BY <1>2, <1>3, <1>12
  <2>2. ASSUME NEW tag \in Tags PROVE u.named[tag] = FrozenAt(u, tag) \cup Lacking(u, q, tag)
    <3>1. FrozenAt(u, tag) = FrozenAt(t, tag) /\ Lacking(u, q, tag) = Lacking(t, j, tag)
      BY <1>3, <2>1 DEF FrozenAt, Lacking, v
    <3> QED BY <2>1, <3>1, <1>7
  <2>3. Has(q, "dir") \/ \A m \in PendingFiles(q) : u.candidate[m] # NoFile
    <3>1. CASE w.kind = "snapshot"
      <4>1. Has(j, "snapshot")
        BY <1>2, <3>1
      <4> QED BY <4>1, <1>7, <2>1
    <3>2. CASE w.kind # "snapshot"
      BY <3>2, <1>3, <1>7, <2>1
    <3> QED BY <3>1, <3>2
  <2> QED BY <1>3, <1>7, <1>9, <2>1, <2>2, <2>3 DEF Whole, q
<1> QED BY <1>10, <1>11, <1>12

\* A cut that is refused has not made its directory.
LEMMA WholeRefused ==
  ASSUME NEW t, NEW j, JobTyped(j), j # <<>>, Whole(t, j), Refused(t, Head(j))
  PROVE  Whole(t, <<>>)
<1>1. Head(j) = j[1] /\ 1 \in 1..Len(j)
  BY TailOf DEF JobTyped
<1>2. j[1].kind = "snapshot" \/ j[1].kind = "dir"
  BY <1>1 DEF Refused
<1>3. Has(j, "snapshot") \/ Has(j, "dir")
  BY <1>1, <1>2 DEF Has
<1>4. \A tag \in Tags : Lacking(t, j, tag) = {}
  BY <1>3 DEF Whole, Lacking
<1> QED BY <1>4, WholeAtRest DEF Whole

LEMMA WholeMerged ==
  ASSUME NEW t, Shape(t), Whole(t, <<>>)
  PROVE  Whole(Committed(t), <<>>)
<1> DEFINE u == Committed(t)
<1>1. u.frozen = t.frozen
      /\ u.named = [tag \in Tags |-> IF FrozenAt(t, tag) = {} THEN {} ELSE t.named[tag]]
  BY CommittedParts
<1>2. \A tag \in Tags : FrozenAt(u, tag) = FrozenAt(t, tag)
  BY <1>1 DEF FrozenAt
<1> HIDE DEF u
<1>3. \A tag \in Tags : u.named[tag] = FrozenAt(u, tag)
  BY <1>1, <1>2, WholeAtRest
<1> QED BY <1>3, WholeAtRest DEF u

\* For every set of sources, versions and hooks: until a build is killed,
\* every release directory holds the files its cut named (freeze).
THEOREM WholeUnlessKilledTheorem == Spec => []WholeUnlessKilled
<1>1. Init => WholeInv
  BY WholeAtRest, MergedAssumption DEF Init, WholeInv
<1>2. RecordInv /\ WholeInv /\ [Next]_vars => WholeInv'
  <2> SUFFICES ASSUME RecordInv, WholeInv, [Next]_vars
               PROVE  /\ kills' \in Nat
                      /\ kills' = 0 => Whole(tree', job') /\ Whole(main', <<>>)
    BY DEF WholeInv
  <2>1. kills' = kills \/ (Kill /\ kills' = kills + 1)
    BY DEF Next, vars, run, cutRelease, WriteNext, Revert, Kill, EditSource, EditBuild, SetVersion,
           Edit, Discard, Merge, Deploy, Publish
  <2> SUFFICES ASSUME kills' = 0 PROVE Whole(tree', job') /\ Whole(main', <<>>)
    BY <2>1 DEF WholeInv
  <2>2. kills = 0 /\ ~Kill
    BY <2>1 DEF WholeInv, Kill
  <2>3. Whole(tree, job) /\ Whole(main, <<>>) /\ Shape(tree)
    BY <2>2 DEF WholeInv, RecordInv
  <2>4. CASE run
    BY <2>3, <2>4, WholeStart DEF run, Idle
  <2>5. CASE cutRelease
    BY <2>3, <2>5, WholeStart DEF cutRelease, Idle
  <2>6. CASE WriteNext
    BY <2>3, <2>6, WholeWrite DEF WriteNext, Idle, RecordInv
  <2>7. CASE Revert
    BY <2>3, <2>7, WholeRefused DEF Revert, Idle, RecordInv
  <2>8. CASE EditSource \/ EditBuild \/ SetVersion
    <3>1. job = <<>> /\ job' = job /\ main' = main
      BY <2>8 DEF EditSource, EditBuild, SetVersion, Edit, Idle
    <3>2. tree'.named = tree.named /\ tree'.frozen = tree.frozen
      BY <2>3, <2>8 DEF EditSource, EditBuild, SetVersion, Edit, Shape, IsTree
    <3>3. \A tag \in Tags : FrozenAt(tree', tag) = FrozenAt(tree, tag)
      BY <3>2 DEF FrozenAt
    <3>4. \A tag \in Tags : tree'.named[tag] = FrozenAt(tree', tag)
      BY <2>3, <3>1, <3>2, <3>3, WholeAtRest
    <3> QED BY <2>3, <3>1, <3>4, WholeAtRest
  <2>9. CASE Discard
    BY <2>3, <2>9 DEF Discard, Idle
  <2>10. CASE Merge
    BY <2>3, <2>10, WholeMerged DEF Merge, Idle
  <2>11. CASE Deploy \/ Publish \/ UNCHANGED vars
    BY <2>3, <2>11 DEF Deploy, Publish, vars
  <2> QED BY <2>2, <2>4, <2>5, <2>6, <2>7, <2>8, <2>9, <2>10, <2>11 DEF Next
<1>3. WholeInv => WholeUnlessKilled
  BY WholeAtRest DEF WholeInv, WholeUnlessKilled, Idle
<1> QED BY <1>1, <1>2, <1>3, RecordInvInductive, PTL DEF Spec

----
(* A build that has ended declares the record.                              *)

RecordOf(t, c) == {tag \in Tags : t.frozen[tag][c] # NoFile}
LibShape(t) == IsFiniteSet(FrozenTags(t)) /\ t.lib \in [Contracts -> Seq(Tags)]

\* What is declared is what is recorded, or is still to be written, after the
\* last file of the release.
LibReady(t, j, c) ==
  \/ t.lib[c] = recordPathsForContract(t, c) /\ ~Has(j, "freeze")
  \/ \E i \in 1..Len(j) :
       /\ j[i].kind = "lib" /\ j[i].name = c
       /\ \A k \in 1..Len(j) : j[k].kind = "freeze" => k < i
LibsReady(t, j) ==
  /\ checkedGeneratedContracts(t.build)
  /\ t.aggregate = releasedContractNames(t.build) \/ Has(j, "aggregate")
  /\ \A c \in Range(releasedContractNames(t.build)) : LibReady(t, j, c)

LibsInv ==
  /\ LibShape(tree) /\ LibShape(main)
  /\ built => job = <<>>
  /\ built \/ job # <<>> => LibsReady(tree, job)

LEMMA RecordIsSorted ==
  ASSUME NEW t, IsFiniteSet(FrozenTags(t)), NEW c \in Contracts
  PROVE  /\ RecordOf(t, c) \in SUBSET Tags /\ IsFiniteSet(RecordOf(t, c))
         /\ recordPathsForContract(t, c) = sortedRecordPaths(RecordOf(t, c))
         /\ recordPathsForContract(t, c) \in Seq(Tags)
<1>1. RecordOf(t, c) \in SUBSET FrozenTags(t) /\ RecordOf(t, c) \in SUBSET Tags
  BY DEF RecordOf, FrozenTags, FrozenAt, Names
<1>2. IsFiniteSet(RecordOf(t, c))
  BY <1>1, FS_Subset
<1>3. recordPathsForContract(t, c) = sortedRecordPaths(RecordOf(t, c))
  BY DEF recordPathsForContract, RecordOf
<1>4. recordPathsForContract(t, c) \in Seq(RecordOf(t, c))
  BY <1>1, <1>2, <1>3, SortedRecord
<1> QED BY <1>1, <1>2, <1>3, <1>4

\* A job that ends with the libs rewrites each of them, after all else.
LEMMA LibsOfJob ==
  ASSUME NEW t, NEW b \in Builds, t.build = b, checkedGeneratedContracts(b),
         NEW f, JobTyped(f), NEW j, j = f \o regenerateLibs(b)
  PROVE  LibsReady(t, j)
<1> DEFINE l == regenerateLibs(b)
<1>1. f \in Seq(JobWrites)
  BY DEF JobTyped
<1>2. /\ l \in Seq(JobWrites)
      /\ \A c \in Range(releasedContractNames(b)) :
           \E i \in 1..Len(l) : l[i].kind = "lib" /\ l[i].name = c
      /\ \E i \in 1..Len(l) : l[i].kind = "aggregate"
  BY LibWrites
<1>3. j = f \o l
  OBVIOUS
<1>4. /\ Len(f) \in Nat
      /\ \A i \in 1..Len(j) : j[i].kind \in {"snapshot", "dir", "freeze"} => i \in 1..Len(f)
  BY <1>1, WithLibs
<1> HIDE DEF l
<1>5. /\ Len(l) \in Nat /\ Len(j) = Len(f) + Len(l)
      /\ \A i \in (Len(f) + 1)..(Len(f) + Len(l)) : j[i] = l[i - Len(f)]
  BY <1>1, <1>2, <1>3, Concat
<1>6. ASSUME NEW i \in 1..Len(l)
      PROVE  /\ Len(f) + i \in 1..Len(j) /\ j[Len(f) + i] = l[i]
             /\ \A k \in 1..Len(j) : j[k].kind = "freeze" => k < Len(f) + i
  <2> DEFINE k == Len(f) + i
  <2>1. k \in 1..Len(j) /\ k \in (Len(f) + 1)..(Len(f) + Len(l)) /\ k - Len(f) = i
    BY <1>4, <1>5
  <2>2. \A x \in 1..Len(j) : j[x].kind = "freeze" => x < k
    BY <1>4, <1>5
  <2> HIDE DEF k
  <2>3. j[k] = l[i]
    BY <1>5, <2>1
  <2> QED BY <2>1, <2>2, <2>3 DEF k
<1>7. Has(j, "aggregate")
  BY <1>2, <1>6 DEF Has
<1>8. ASSUME NEW c \in Range(releasedContractNames(b))
      PROVE  \E i \in 1..Len(j) :
               /\ j[i].kind = "lib" /\ j[i].name = c
               /\ \A k \in 1..Len(j) : j[k].kind = "freeze" => k < i
  <2>1. PICK i \in 1..Len(l) : l[i].kind = "lib" /\ l[i].name = c
    BY <1>2
  <2> QED BY <1>6, <2>1
<1> QED BY <1>7, <1>8 DEF LibsReady, LibReady

LEMMA LibsStart ==
  ASSUME NEW t, Shape(t), checkedGeneratedContracts(t.build)
  PROVE  /\ LibsReady(t, regenerateSnapshots(t.build) \o regenerateLibs(t.build))
         /\ LibsReady(t, freeze(t.build) \o regenerateLibs(t.build))
<1>1. t.build \in Builds
  BY DEF Shape
<1>2. JobTyped(regenerateSnapshots(t.build)) /\ JobTyped(freeze(t.build))
  BY <1>1, SnapshotWrites, FreezeOrder DEF CutOrder
<1> QED BY <1>1, <1>2, LibsOfJob

LEMMA LibsWrite ==
  ASSUME NEW t, Shape(t), LibShape(t), NEW j, JobTyped(j), JobReady(t, j), j # <<>>,
         LibsReady(t, j),
         NEW u, u = Written(t, Head(j))
  PROVE  LibShape(u) /\ LibsReady(u, Tail(j))
<1> DEFINE w == j[1]
           n == w.name
           v == t.version
           q == Tail(j)
           r == releasedContractNames(t.build)
<1>1. Head(j) = w /\ w \in JobWrites
  BY TailOf DEF JobTyped
<1>11. Len(j) \in Nat /\ Len(q) = Len(j) - 1
  BY TailOf DEF JobTyped
<1>2. /\ \A kind : Has(j, kind) <=> w.kind = kind \/ Has(q, kind)
      /\ \A i \in 1..Len(q) : i + 1 \in 1..Len(j) /\ q[i] = j[i + 1]
      /\ w.kind = "freeze" => n \in Names
  BY TailPending
<1>3. /\ u.build = t.build
      /\ u.frozen = IF w.kind = "freeze"
                    THEN [t.frozen EXCEPT ![v] = [t.frozen[v] EXCEPT ![n] = t.candidate[n]]]
                    ELSE t.frozen
      /\ u.lib = IF w.kind = "lib" THEN [t.lib EXCEPT ![n] = recordPathsForContract(t, n)]
                 ELSE t.lib
      /\ u.aggregate = IF w.kind = "aggregate" THEN r ELSE t.aggregate
  <2>1. Changed(t, w, u)
    BY <1>1, WrittenParts
  <2> QED BY <2>1 DEF Changed
<1>4. /\ t.frozen \in [Tags -> Files] /\ t.build \in Builds
      /\ IsFiniteSet(FrozenTags(t)) /\ t.lib \in [Contracts -> Seq(Tags)]
  BY DEF Shape, LibShape
<1>5. /\ checkedGeneratedContracts(t.build)
      /\ t.aggregate = r \/ Has(j, "aggregate")
      /\ \A c \in Range(r) : LibReady(t, j, c)
  BY DEF LibsReady
<1>6. Range(r) \subseteq Contracts
  BY <1>4, <1>5, RecordNamesDiffer
<1> HIDE DEF w, n, v, q, r
<1>7. IsFiniteSet(FrozenTags(u))
  <2>1. CASE w.kind = "freeze"
    <3>1. FrozenTags(u) \in SUBSET (FrozenTags(t) \cup {v})
      BY <2>1, <1>3, <1>4 DEF FrozenTags, FrozenAt
    <3>2. IsFiniteSet(FrozenTags(t) \cup {v})
      BY <1>4, FS_AddElement
    <3> QED BY <3>1, <3>2, FS_Subset
  <2>2. CASE w.kind # "freeze"
    <3>1. FrozenTags(u) = FrozenTags(t)
      BY <2>2, <1>3 DEF FrozenTags, FrozenAt
    <3> QED BY <3>1, <1>4
  <2> QED BY <2>1, <2>2
<1>8. u.lib \in [Contracts -> Seq(Tags)]
  <2>1. \A c \in Contracts : recordPathsForContract(t, c) \in Seq(Tags)
    BY <1>4, RecordIsSorted
  <2> QED BY <2>1, <1>3, <1>4
<1>9. u.aggregate = r \/ Has(q, "aggregate")
  BY <1>2, <1>3, <1>5
<1>10. ASSUME NEW c \in Range(r) PROVE LibReady(u, q, c)
  <2>1. CASE t.lib[c] = recordPathsForContract(t, c) /\ ~Has(j, "freeze")
    <3>1. ~Has(q, "freeze") /\ w.kind # "freeze"
      BY <2>1, <1>2
    <3>2. recordPathsForContract(u, c) = recordPathsForContract(t, c)
      BY <3>1, <1>3 DEF recordPathsForContract
    <3>3. u.lib[c] = t.lib[c]
      <4>1. CASE w.kind = "lib" /\ n = c
        BY <4>1, <2>1, <1>3, <1>4, <1>6
      <4>2. CASE w.kind # "lib" \/ n # c
        BY <4>2, <1>3, <1>4, <1>6
      <4> QED BY <4>1, <4>2
    <3> QED BY <2>1, <3>1, <3>2, <3>3 DEF LibReady
  <2>2. ASSUME NEW i \in 1..Len(j), j[i].kind = "lib", j[i].name = c,
               \A k \in 1..Len(j) : j[k].kind = "freeze" => k < i
        PROVE  LibReady(u, q, c)
    <3>1. CASE i = 1
      <4>1. w.kind = "lib" /\ n = c
        BY <2>2, <3>1 DEF w, n
      <4>2. \A k \in 1..Len(j) : j[k].kind # "freeze"
        BY <2>2, <3>1
      <4>3. ~Has(q, "freeze")
        BY <1>2, <4>2 DEF Has
      <4>4. recordPathsForContract(u, c) = recordPathsForContract(t, c)
        BY <4>1, <1>3 DEF recordPathsForContract
      <4>5. u.lib[c] = recordPathsForContract(t, c)
        BY <4>1, <1>3, <1>4, <1>6
      <4> QED BY <4>3, <4>4, <4>5 DEF LibReady
    <3>2. CASE i # 1
      <4> DEFINE m == i - 1
      <4>1. m \in 1..Len(q) /\ m + 1 = i
        BY <1>11, <3>2
      <4> HIDE DEF m
      <4>2. q[m].kind = "lib" /\ q[m].name = c
        BY <1>2, <2>2, <4>1
      <4>3. ASSUME NEW k \in 1..Len(q), q[k].kind = "freeze" PROVE k < m
        <5>1. k + 1 \in 1..Len(j) /\ j[k + 1].kind = "freeze"
          BY <1>2, <4>3
        <5>2. k + 1 < m + 1
          BY <2>2, <4>1, <5>1
        <5> QED BY <1>11, <4>1, <5>2
      <4> QED BY <4>1, <4>2, <4>3 DEF LibReady
    <3> QED BY <3>1, <3>2
  <2> QED BY <1>5, <2>1, <2>2 DEF LibReady
<1> QED BY <1>3, <1>5, <1>7, <1>8, <1>9, <1>10 DEF LibShape, LibsReady, q, r

LEMMA MergedLibs ==
  ASSUME NEW t, Shape(t), LibShape(t)
  PROVE  LibShape(Committed(t))
<1> DEFINE u == Committed(t)
<1>1. u.frozen = t.frozen /\ u.lib = t.lib
  BY CommittedParts
<1> HIDE DEF u
<1>2. FrozenTags(u) = FrozenTags(t)
  BY <1>1 DEF FrozenTags, FrozenAt
<1> QED BY <1>1, <1>2 DEF LibShape, u

LEMMA LibsAtRest ==
  ASSUME NEW t
  PROVE  LibsReady(t, <<>>) <=>
           /\ checkedGeneratedContracts(t.build)
           /\ t.aggregate = releasedContractNames(t.build)
           /\ \A c \in Range(releasedContractNames(t.build)) :
                t.lib[c] = recordPathsForContract(t, c)
<1>1. (\A kind : ~Has(<<>>, kind)) /\ 1..Len(<<>>) = {}
  BY DEF Has
<1> QED BY <1>1 DEF LibsReady, LibReady

\* Whatever is written, refused, killed, edited, discarded or merged, a list
\* that is written says the record as it stands (writeReleasedSuitesLib).
THEOREM LibsInvInductive == Spec => []LibsInv
<1>1. Init => LibsInv
  <2> SUFFICES ASSUME Init PROVE LibsInv
    OBVIOUS
  <2>1. LibShape(FirstTree)
    BY ReleaseAssumption, MergedAssumption DEF Tree, LibShape
  <2>2. LibsReady(FirstTree, <<>>)
    BY MergedAssumption, LibsAtRest DEF GitIsClean
  <2> QED BY <2>1, <2>2 DEF Init, LibsInv
<1>2. RecordInv /\ LibsInv /\ [Next]_vars => LibsInv'
  <2> SUFFICES ASSUME RecordInv, LibsInv, [Next]_vars PROVE LibsInv'
    OBVIOUS
  <2> USE DEF LibsInv
  <2>1. CASE run
    BY <2>1, LibsStart DEF run, RecordInv
  <2>2. CASE cutRelease
    BY <2>2, LibsStart DEF cutRelease, RecordInv
  <2>3. CASE WriteNext
    <3>1. LibShape(tree') /\ LibsReady(tree', job')
      BY <2>3, LibsWrite DEF WriteNext, Idle, RecordInv
    <3>2. built' => job' = <<>>
      <4>1. Len(job) = 1 => Tail(job) = <<>>
        <5>1. job \in Seq(JobWrites) /\ job # <<>>
          BY <2>3 DEF RecordInv, JobTyped, WriteNext, Idle
        <5>2. Tail(job) \in Seq(JobWrites) /\ Len(Tail(job)) = Len(job) - 1
          BY <5>1, TailOf
        <5>3. Len(Tail(job)) = 0 => Tail(job) = <<>>
          BY <5>2, EmptySeq
        <5>4. Len(job) = 1 => Len(Tail(job)) = 0
          BY <5>2
        <5> QED BY <5>3, <5>4
      <4> QED BY <2>3, <4>1 DEF WriteNext
    <3> QED BY <2>3, <3>1, <3>2 DEF WriteNext
  <2>4. CASE Revert \/ Kill
    BY <2>4 DEF Revert, Kill, Idle
  <2>5. CASE EditSource \/ EditBuild \/ SetVersion
    <3>1. tree'.lib = tree.lib /\ tree'.frozen = tree.frozen
      BY <2>5 DEF EditSource, EditBuild, SetVersion, Edit, RecordInv, Shape, IsTree
    <3>2. LibShape(tree')
      BY <3>1 DEF LibShape, FrozenTags, FrozenAt
    <3> QED BY <2>5, <3>2 DEF EditSource, EditBuild, SetVersion, Edit, Idle
  <2>6. CASE Discard
    BY <2>6 DEF Discard, Idle
  <2>7. CASE Merge
    BY <2>7, MergedLibs DEF Merge, RecordInv
  <2>8. CASE Deploy \/ Publish \/ UNCHANGED vars
    BY <2>8 DEF Deploy, Publish, vars
  <2> QED BY <2>1, <2>2, <2>3, <2>4, <2>5, <2>6, <2>7, <2>8 DEF Next
<1> QED BY <1>1, <1>2, RecordInvInductive, PTL DEF Spec

\* For every set of sources, versions and hooks: a build that ran to its end
\* declares each release of each contract it names, once and in order
\* (regenerateLibs).
THEOREM BuiltTreesDeclareTheirRecordTheorem == Spec => []BuiltTreesDeclareTheirRecord
<1>1. RecordInv /\ LibsInv => BuiltTreesDeclareTheirRecord
  <2> SUFFICES ASSUME RecordInv, LibsInv, Idle, built,
                      NEW c \in Range(tree.build.generated) \cup Range(tree.build.retired)
               PROVE  DeclaresItsRecord(tree, c)
    BY DEF BuiltTreesDeclareTheirRecord
  <2> DEFINE r == releasedContractNames(tree.build)
             l == tree.lib[c]
  <2>1. /\ checkedGeneratedContracts(tree.build) /\ tree.aggregate = r
        /\ \A d \in Range(r) : tree.lib[d] = recordPathsForContract(tree, d)
    BY LibsAtRest DEF LibsInv, Idle
  <2>2. tree.build \in Builds /\ IsFiniteSet(FrozenTags(tree))
    BY DEF RecordInv, Shape, LibsInv, LibShape
  <2>3. /\ \A i, k \in DOMAIN r : r[i] = r[k] => i = k
        /\ c \in Range(r) /\ c \in Contracts
    BY <2>1, <2>2, RecordNamesDiffer
  <2>4. Cardinality({i \in DOMAIN tree.aggregate : tree.aggregate[i] = c}) = 1
    BY <2>1, <2>3, OccursOnce
  <2>5. /\ RecordOf(tree, c) \in SUBSET Tags /\ IsFiniteSet(RecordOf(tree, c))
        /\ l = sortedRecordPaths(RecordOf(tree, c))
    BY <2>1, <2>2, <2>3, RecordIsSorted
  <2>6. /\ Range(l) = RecordOf(tree, c)
        /\ \A i, j \in DOMAIN l : i < j => tagPrecedes(l[i], l[j])
    BY <2>5, SortedRecord
  <2>7. \A i \in DOMAIN l : l[i] \in Tags
    BY <2>5, <2>6 DEF Range
  <2>8. \A i, j \in DOMAIN l : i < j => VersionBelow(l[i], l[j])
    BY <2>6, <2>7, PrecedesMeansBelow
  <2> QED BY <2>4, <2>6, <2>8 DEF DeclaresItsRecord, RecordOf
<1> QED BY <1>1, RecordInvInductive, LibsInvInductive, PTL

----
(* What is published is merged, declared and live.                          *)

PassedChecks ==
  /\ GitIsClean(main) /\ checkFrozenSnapshotsReleased(main)
  /\ testVersionIsTheNewestFrozenRelease(main) /\ checkSuitesLive(main, live)

\* The working tree holds every merged release as it was merged, and a cut
\* adds to none of them.
Follows(t, m, j) ==
  /\ \A tag \in FrozenTags(m) : t.frozen[tag] = m.frozen[tag]
  /\ Has(j, "dir") \/ Has(j, "freeze") => t.version \notin FrozenTags(m)

PublishedMerged ==
  /\ published \in Seq([tag : Tags, files : Files])
  /\ \A i \in 1..Len(published) :
       /\ published[i].tag \in FrozenTags(main)
       /\ published[i].files = main.frozen[published[i].tag]
       /\ \A j \in 1..Len(published) : i < j => tagPrecedes(published[i].tag, published[j].tag)

PublishInv == PassedChecks /\ Follows(tree, main, job) /\ PublishedMerged

LEMMA FollowsItself == ASSUME NEW t PROVE Follows(t, t, <<>>)
<1>1. \A kind : ~Has(<<>>, kind)
  BY DEF Has
<1> QED BY <1>1 DEF Follows

LEMMA FollowsStart ==
  ASSUME NEW t, Shape(t), NEW m, Follows(t, m, <<>>)
  PROVE  /\ Follows(t, m, regenerateSnapshots(t.build) \o regenerateLibs(t.build))
         /\ mayFreeze(t) => Follows(t, m, freeze(t.build) \o regenerateLibs(t.build))
<1>1. t.build \in Builds
  BY DEF Shape
<1>2. Follows(t, m, regenerateSnapshots(t.build) \o regenerateLibs(t.build))
  BY <1>1, RunWrites DEF Follows
<1>3. ASSUME mayFreeze(t) PROVE t.version \notin FrozenTags(m)
  <2>1. SUFFICES ASSUME t.version \in FrozenTags(m) PROVE FALSE
    OBVIOUS
  <2>2. t.frozen[t.version] = m.frozen[t.version] /\ t.version \in Tags
    BY <2>1 DEF Follows, FrozenTags
  <2>3. PICK n \in Names : m.frozen[t.version][n] # NoFile
    BY <2>1 DEF FrozenTags, FrozenAt
  <2>4. n \in t.named[t.version]
    BY <2>2, <2>3 DEF Shape
  <2> QED BY <1>3, <2>4 DEF mayFreeze
<1> QED BY <1>2, <1>3 DEF Follows

LEMMA FollowsWrite ==
  ASSUME NEW t, Shape(t), NEW j, JobTyped(j), JobReady(t, j), j # <<>>,
         NEW m, Follows(t, m, j),
         NEW u, u = Written(t, Head(j))
  PROVE  Follows(u, m, Tail(j))
<1> DEFINE w == j[1]
           v == t.version
<1>1. Head(j) = w /\ w \in JobWrites
  BY TailOf DEF JobTyped
<1>2. \A kind : Has(j, kind) <=> w.kind = kind \/ Has(Tail(j), kind)
  BY TailPending
<1>3. /\ u.version = v
      /\ u.frozen = IF w.kind = "freeze"
                    THEN [t.frozen EXCEPT ![v] = [t.frozen[v] EXCEPT ![w.name] = t.candidate[w.name]]]
                    ELSE t.frozen
  <2>1. Changed(t, w, u)
    BY <1>1, WrittenParts
  <2> QED BY <2>1 DEF Changed
<1> HIDE DEF w, v
<1>4. t.frozen \in [Tags -> Files] /\ FrozenTags(m) \subseteq Tags
  BY DEF Shape, FrozenTags
<1>5. ASSUME NEW tag \in FrozenTags(m) PROVE u.frozen[tag] = m.frozen[tag]
  <2>1. t.frozen[tag] = m.frozen[tag]
    BY DEF Follows
  <2>2. CASE w.kind = "freeze"
    <3>1. tag # v
      BY <1>2, <2>2 DEF Follows, v
    <3> QED BY <2>1, <2>2, <3>1, <1>3, <1>4
  <2> QED BY <2>1, <2>2, <1>3
<1> QED BY <1>2, <1>3, <1>5 DEF Follows, v

\* The checks read nothing a merge leaves out.
LEMMA MergedChecks ==
  ASSUME NEW t, Shape(t), NEW deployed, NEW u, u = Committed(t)
  PROVE  /\ GitIsClean(t) => GitIsClean(u)
         /\ checkFrozenSnapshotsReleased(t) => checkFrozenSnapshotsReleased(u)
         /\ testVersionIsTheNewestFrozenRelease(t) => testVersionIsTheNewestFrozenRelease(u)
         /\ checkSuitesLive(t, deployed) => checkSuitesLive(u, deployed)
         /\ FrozenTags(u) = FrozenTags(t) /\ u.frozen = t.frozen
<1>1. /\ u.source = t.source /\ u.build = t.build /\ u.version = t.version
      /\ u.candidate = t.candidate /\ u.frozen = t.frozen
      /\ u.lib = t.lib /\ u.aggregate = t.aggregate
  BY CommittedParts
<1>2. FrozenTags(u) = FrozenTags(t)
  BY <1>1 DEF FrozenTags, FrozenAt
<1>3. \A c : recordPathsForContract(u, c) = recordPathsForContract(t, c)
  BY <1>1 DEF recordPathsForContract
<1>4. GitIsClean(t) => GitIsClean(u)
  BY <1>1, <1>3 DEF GitIsClean
<1>5. \A code, c : DeclaredCount(u, code, c) = DeclaredCount(t, code, c) /\ Records(u, code, c) = Records(t, code, c)
  BY <1>1 DEF DeclaredCount, Records
<1>6. checkFrozenSnapshotsReleased(t) => checkFrozenSnapshotsReleased(u)
  BY <1>5 DEF checkFrozenSnapshotsReleased
<1>7. testVersionIsTheNewestFrozenRelease(t) => testVersionIsTheNewestFrozenRelease(u)
  BY <1>1, <1>2 DEF testVersionIsTheNewestFrozenRelease, newestFrozenTag
<1>8. checkSuitesLive(t, deployed) => checkSuitesLive(u, deployed)
  BY <1>1 DEF checkSuitesLive
<1> QED BY <1>1, <1>2, <1>4, <1>6, <1>7, <1>8

\* The version a tree is at follows every other release of it.
LEMMA NewestFollows ==
  ASSUME NEW t, testVersionIsTheNewestFrozenRelease(t), NEW tag \in FrozenTags(t), tag # t.version
  PROVE  tagPrecedes(tag, t.version) /\ t.version \in FrozenTags(t)
<1>1. t.version \in FrozenTags(t) /\ ~ \E other \in FrozenTags(t) : tagPrecedes(t.version, other)
  BY DEF testVersionIsTheNewestFrozenRelease, newestFrozenTag
<1>2. t.version \in Tags /\ tag \in Tags
  BY <1>1 DEF FrozenTags
<1> QED BY <1>1, <1>2, TagsAreOrdered

\* What passed the checks declares each release of a contract once, live.
LEMMA DeclaredOnce ==
  ASSUME NEW t, Shape(t), LibShape(t), GitIsClean(t), checkFrozenSnapshotsReleased(t),
         NEW deployed, checkSuitesLive(t, deployed),
         NEW tag \in Tags, NEW c \in Contracts, t.frozen[tag][c] # NoFile
  PROVE  /\ <<c, t.frozen[tag][c]>> \in deployed
         /\ Cardinality({i \in DOMAIN t.aggregate : t.aggregate[i] = c}) = 1
         /\ Cardinality({k \in DOMAIN t.lib[c] : t.lib[c][k] = tag}) = 1
<1> DEFINE r == releasedContractNames(t.build)
           l == t.lib[c]
           code == t.frozen[tag][c]
           occurs == {i \in DOMAIN t.aggregate : t.aggregate[i] = c}
           declares == {k \in DOMAIN l : t.frozen[l[k]][c] = code}
<1>1. t.build \in Builds /\ t.frozen \in [Tags -> Files] /\ IsFiniteSet(FrozenTags(t)) /\ l \in Seq(Tags)
  BY DEF Shape, LibShape
<1>2. /\ checkedGeneratedContracts(t.build) /\ t.aggregate = r
      /\ \A d \in Range(r) : t.lib[d] = recordPathsForContract(t, d)
  BY DEF GitIsClean
<1>3. code \in Codes
  BY <1>1 DEF Files, Names
<1>4. Cardinality(Records(t, code, c)) <= DeclaredCount(t, code, c)
  BY <1>3 DEF checkFrozenSnapshotsReleased
<1>5. Cardinality(Records(t, code, c)) \in Nat /\ Cardinality(Records(t, code, c)) # 0
  <2>1. Records(t, code, c) \in SUBSET FrozenTags(t)
    BY DEF Records, FrozenTags, FrozenAt, Names
  <2>2. tag \in Records(t, code, c)
    BY DEF Records
  <2>3. IsFiniteSet(Records(t, code, c))
    BY <1>1, <2>1, FS_Subset
  <2> QED BY <2>2, <2>3, FS_CardinalityType, FS_EmptySet
<1>6. \A i, k \in DOMAIN t.aggregate : t.aggregate[i] = t.aggregate[k] => i = k
  BY <1>1, <1>2, RecordNamesDiffer
<1>7. Cardinality(occurs) = IF c \in Range(t.aggregate) THEN 1 ELSE 0
  BY <1>6, OccursOnce
<1>8. Cardinality(declares) \in Nat
  <2>1. DOMAIN l = 1..Len(l) /\ Len(l) \in Nat
    BY <1>1
  <2>2. IsFiniteSet(DOMAIN l)
    BY <2>1, FS_Interval
  <2>3. declares \in SUBSET DOMAIN l
    OBVIOUS
  <2> QED BY <2>2, <2>3, FS_Subset, FS_CardinalityType
<1>9. DeclaredCount(t, code, c) = Cardinality(occurs) * Cardinality(declares)
  BY DEF DeclaredCount
<1> HIDE DEF occurs, declares, code, r, l
<1>10. c \in Range(t.aggregate)
  <2>1. SUFFICES ASSUME c \notin Range(t.aggregate) PROVE FALSE
    OBVIOUS
  <2>2. Cardinality(occurs) * Cardinality(declares) = 0
    BY <1>7, <1>8, <2>1
  <2> QED BY <1>4, <1>5, <1>9, <2>2
<1>11. l = sortedRecordPaths(RecordOf(t, c)) /\ RecordOf(t, c) \in SUBSET Tags /\ IsFiniteSet(RecordOf(t, c))
  BY <1>1, <1>2, <1>10, RecordIsSorted DEF l
<1>12. Range(l) = RecordOf(t, c) /\ \A i, k \in DOMAIN l : l[i] = l[k] => i = k
  BY <1>11, SortedRecord
<1>13. tag \in Range(l)
  BY <1>12 DEF RecordOf
<1>14. Cardinality({k \in DOMAIN l : l[k] = tag}) = 1
  BY <1>12, <1>13, OccursOnce
<1>15. <<c, code>> \in deployed
  <2>1. PICK i \in DOMAIN t.aggregate : t.aggregate[i] = c
    BY <1>10 DEF Range
  <2>2. PICK k \in DOMAIN l : l[k] = tag
    BY <1>13 DEF Range
  <2> QED BY <2>1, <2>2 DEF checkSuitesLive, l, code
<1> QED BY <1>7, <1>10, <1>14, <1>15 DEF occurs, l, code

\* Whatever is built or edited before a merge, what is merged has passed the
\* checks and keeps every release there was (the workflow's checks).
THEOREM PublishInvInductive == Spec => []PublishInv
<1>1. Init => PublishInv
  <2> SUFFICES ASSUME Init PROVE PublishInv
    OBVIOUS
  <2>1. PassedChecks
    BY MergedAssumption DEF Init, PassedChecks
  <2>2. Follows(tree, main, job)
    BY FollowsItself DEF Init
  <2>3. PublishedMerged
    <3>1. /\ FirstReleased \in Seq(Tags) /\ DOMAIN FirstReleased = 1..Len(FirstReleased)
          /\ Len(FirstReleased) \in Nat
      BY ReleaseAssumption
    <3>2. FirstTree.frozen \in [Tags -> Files]
      BY FirstShape DEF Shape
    <3>3. published = [i \in 1..Len(FirstReleased) |->
            [tag |-> FirstReleased[i], files |-> FirstTree.frozen[FirstReleased[i]]]]
      BY <3>1 DEF Init
    <3>4. \A i \in 1..Len(FirstReleased) : FirstReleased[i] \in Tags
      BY <3>1
    <3>5. published \in [1..Len(FirstReleased) -> [tag : Tags, files : Files]]
      BY <3>2, <3>3, <3>4
    <3>6. published \in Seq([tag : Tags, files : Files]) /\ Len(published) = Len(FirstReleased)
      <4> DEFINE n == Len(FirstReleased)
                 S == [tag : Tags, files : Files]
      <4>1. n \in Nat /\ published \in [1..n -> S]
        BY <3>1, <3>5
      <4> HIDE DEF n, S
      <4>2. published \in Seq(S) /\ Len(published) = n
        BY <4>1
      <4> QED BY <4>2 DEF n, S
    <3>7. \A i \in 1..Len(published) : /\ published[i].tag = FirstReleased[i]
                                       /\ published[i].files = FirstTree.frozen[FirstReleased[i]]
      BY <3>3, <3>6
    <3> QED BY <3>1, <3>6, <3>7, MergedAssumption DEF PublishedMerged, Init
  <2> QED BY <2>1, <2>2, <2>3 DEF PublishInv
<1>2. RecordInv /\ PublishInv /\ [Next]_vars => PublishInv'
  <2> SUFFICES ASSUME RecordInv, PublishInv, [Next]_vars PROVE PublishInv'
    OBVIOUS
  <2> USE DEF PublishInv
  <2>1. CASE run
    <3>1. Follows(tree', main', job')
      BY <2>1, FollowsStart DEF run, Idle, RecordInv
    <3> QED BY <2>1, <3>1 DEF run, PassedChecks, PublishedMerged
  <2>2. CASE cutRelease
    <3>1. Follows(tree', main', job')
      BY <2>2, FollowsStart DEF cutRelease, Idle, RecordInv
    <3> QED BY <2>2, <3>1 DEF cutRelease, PassedChecks, PublishedMerged
  <2>3. CASE WriteNext
    <3>1. Follows(tree', main', job')
      BY <2>3, FollowsWrite DEF WriteNext, Idle, RecordInv
    <3> QED BY <2>3, <3>1 DEF WriteNext, PassedChecks, PublishedMerged
  <2>4. CASE Revert \/ Kill
    <3>1. \A kind : ~Has(<<>>, kind)
      BY DEF Has
    <3>2. Follows(tree', main', job')
      <4>1. tree' = tree /\ main' = main /\ job' = <<>>
        BY <2>4 DEF Revert, Kill
      <4> QED BY <3>1, <4>1 DEF Follows
    <3> QED BY <2>4, <3>2 DEF Revert, Kill, PassedChecks, PublishedMerged
  <2>5. CASE EditSource \/ EditBuild \/ SetVersion
    <3>1. \A kind : ~Has(<<>>, kind)
      BY DEF Has
    <3>2. tree'.frozen = tree.frozen /\ job' = <<>> /\ main' = main
      BY <2>5 DEF EditSource, EditBuild, SetVersion, Edit, Idle, RecordInv, Shape, IsTree
    <3>3. Follows(tree', main', job')
      BY <3>1, <3>2 DEF Follows
    <3> QED BY <2>5, <3>3 DEF EditSource, EditBuild, SetVersion, Edit, PassedChecks, PublishedMerged
  <2>6. CASE Discard
    BY <2>6, FollowsItself DEF Discard, Idle, PassedChecks, PublishedMerged
  <2>7. CASE Merge
    <3>1. PassedChecks' /\ FrozenTags(main') = FrozenTags(tree) /\ main'.frozen = tree.frozen
      BY <2>7, MergedChecks DEF Merge, PassedChecks, RecordInv
    <3>2. job' = <<>> /\ tree' = tree /\ published' = published
      BY <2>7 DEF Merge, Idle
    <3>3. Follows(tree', main', job')
      <4>1. \A kind : ~Has(<<>>, kind)
        BY DEF Has
      <4> QED BY <3>1, <3>2, <4>1 DEF Follows
    <3>4. FrozenTags(main) \subseteq FrozenTags(main')
          /\ \A tag \in FrozenTags(main) : main'.frozen[tag] = main.frozen[tag]
      BY <3>1 DEF Follows, FrozenTags, FrozenAt
    <3>5. PublishedMerged'
      BY <3>2, <3>4 DEF PublishedMerged
    <3> QED BY <3>1, <3>3, <3>5
  <2>8. CASE Deploy
    <3>1. live \subseteq live' /\ UNCHANGED <<tree, main, job, published>>
      BY <2>8 DEF Deploy
    <3>2. PassedChecks'
      BY <3>1 DEF PassedChecks, checkSuitesLive
    <3> QED BY <3>1, <3>2 DEF PublishedMerged
  <2>9. CASE Publish
    <3> DEFINE x == [tag |-> main.version, files |-> main.frozen[main.version]]
               S == [tag : Tags, files : Files]
    <3>1. main.version \in FrozenTags(main)
      BY DEF PassedChecks, testVersionIsTheNewestFrozenRelease, newestFrozenTag
    <3>2. x \in S
      BY <3>1 DEF RecordInv, Shape, FrozenTags
    <3>3. UNCHANGED <<tree, main, job, live>> /\ published' = Append(published, x)
      BY <2>9 DEF Publish
    <3>4. \A i \in 1..Len(published) : published[i].tag # main.version
      BY <2>9 DEF Publish, PublishedMerged
    <3>5. published \in Seq(S) /\ Len(published) \in Nat
      BY DEF PublishedMerged
    <3> HIDE DEF x, S
    <3>6. /\ published' \in Seq(S) /\ Len(published') = Len(published) + 1
          /\ \A i \in 1..Len(published) : published'[i] = published[i]
          /\ published'[Len(published) + 1] = x
      BY <3>2, <3>3, <3>5, AppendProperties
    <3>7. x.tag = main.version /\ x.files = main.frozen[main.version]
      BY DEF x
    <3>8. \A i \in 1..Len(published) : tagPrecedes(published[i].tag, main.version)
      <4> SUFFICES ASSUME NEW i \in 1..Len(published) PROVE tagPrecedes(published[i].tag, main.version)
        OBVIOUS
      <4>1. published[i].tag \in FrozenTags(main) /\ published[i].tag # main.version
        BY <3>4 DEF PublishedMerged
      <4> QED BY <4>1, NewestFollows DEF PassedChecks
    <3>9. ASSUME NEW i \in 1..Len(published')
          PROVE  /\ published'[i].tag \in FrozenTags(main)
                 /\ published'[i].files = main.frozen[published'[i].tag]
                 /\ \A j \in 1..Len(published') :
                      i < j => tagPrecedes(published'[i].tag, published'[j].tag)
      <4>1. CASE i \in 1..Len(published)
        <5>1. published'[i] = published[i]
          BY <3>6, <4>1
        <5>2. ASSUME NEW j \in 1..Len(published'), i < j
              PROVE  tagPrecedes(published'[i].tag, published'[j].tag)
          <6>1. CASE j \in 1..Len(published)
            BY <3>6, <4>1, <5>1, <5>2, <6>1 DEF PublishedMerged
          <6>2. CASE j = Len(published) + 1
            BY <3>6, <3>7, <3>8, <4>1, <5>1, <6>2
          <6> QED BY <3>5, <3>6, <6>1, <6>2
        <5> QED BY <4>1, <5>1, <5>2 DEF PublishedMerged
      <4>2. CASE i = Len(published) + 1
        <5>1. ~ \E j \in 1..Len(published') : i < j
          BY <3>5, <3>6, <4>2
        <5> QED BY <3>1, <3>6, <3>7, <4>2, <5>1
      <4> QED BY <3>5, <3>6, <4>1, <4>2
    <3>10. PublishedMerged'
      BY <3>3, <3>6, <3>9 DEF PublishedMerged, S
    <3>11. PassedChecks' /\ Follows(tree', main', job')
      BY <3>3 DEF PassedChecks
    <3> QED BY <3>10, <3>11
  <2>10. CASE UNCHANGED vars
    BY <2>10 DEF vars, PassedChecks, PublishedMerged
  <2> QED BY <2>1, <2>2, <2>3, <2>4, <2>5, <2>6, <2>7, <2>8, <2>9, <2>10 DEF Next
<1> QED BY <1>1, <1>2, RecordInvInductive, PTL DEF Spec

\* For every set of sources, versions and hooks: what is published stays
\* merged, declared and live, in order (the checks in the way of every merge).
THEOREM PublishedStaysDeclaredTheorem == Spec => []PublishedStaysDeclared
<1>1. RecordInv /\ LibsInv /\ PublishInv => PublishedStaysDeclared
  <2> SUFFICES ASSUME RecordInv, LibsInv, PublishInv, NEW i \in DOMAIN published
               PROVE  LET tag == published[i].tag IN
                        /\ main.frozen[tag] = published[i].files
                        /\ \A j \in DOMAIN published : i < j => VersionBelow(tag, published[j].tag)
                        /\ \A c \in Contracts : published[i].files[c] # NoFile =>
                             /\ <<c, published[i].files[c]>> \in live
                             /\ Cardinality({j \in DOMAIN main.aggregate : main.aggregate[j] = c}) = 1
                             /\ Cardinality({k \in DOMAIN main.lib[c] : main.lib[c][k] = tag}) = 1
    BY DEF PublishedStaysDeclared
  <2> DEFINE tag == published[i].tag
  <2>1. DOMAIN published = 1..Len(published)
    BY DEF PublishInv, PublishedMerged
  <2>2. /\ tag \in FrozenTags(main) /\ published[i].files = main.frozen[tag]
        /\ \A j \in DOMAIN published : /\ published[j].tag \in FrozenTags(main)
                                       /\ i < j => tagPrecedes(tag, published[j].tag)
    BY <2>1 DEF PublishInv, PublishedMerged
  <2>3. FrozenTags(main) \subseteq Tags
    BY DEF FrozenTags
  <2>4. \A j \in DOMAIN published : i < j => VersionBelow(tag, published[j].tag)
    BY <2>2, <2>3, PrecedesMeansBelow
  <2>5. /\ Shape(main) /\ LibShape(main) /\ GitIsClean(main) /\ checkFrozenSnapshotsReleased(main)
        /\ checkSuitesLive(main, live)
    BY DEF RecordInv, LibsInv, PublishInv, PassedChecks
  <2> HIDE DEF tag
  <2>6. ASSUME NEW c \in Contracts, main.frozen[tag][c] # NoFile
        PROVE  /\ <<c, main.frozen[tag][c]>> \in live
               /\ Cardinality({j \in DOMAIN main.aggregate : main.aggregate[j] = c}) = 1
               /\ Cardinality({k \in DOMAIN main.lib[c] : main.lib[c][k] = tag}) = 1
    BY <2>2, <2>3, <2>5, <2>6, DeclaredOnce
  <2> QED BY <2>2, <2>4, <2>6 DEF tag
<1> QED BY <1>1, RecordInvInductive, LibsInvInductive, PublishInvInductive, PTL
====
