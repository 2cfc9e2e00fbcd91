---- MODULE Release ----
(***************************************************************************)
(* How a deploy repo records a release: script/Build.sol over              *)
(* src/abstract/BuildScript.sol and src/lib/LibRainDeploySnapshot.sol, with *)
(* the checks of the snapshot and chain groups that stand between a tree    *)
(* and the main branch, and the tag that publishes it.                      *)
(*                                                                          *)
(* A build is a list of file writes, made one at a time.  Filesystem        *)
(* cheatcodes are not undone by a revert, so a build that is refused midway *)
(* or killed leaves what it had written.                                    *)
(*                                                                          *)
(* A name stands for everything keyed by it: a contract's suite key, its    *)
(* artifact path, its snapshot file and its released-suites lib.  What it   *)
(* compiles to stands for the creation code, the runtime code and, for a    *)
(* contract, the one address the Zoltu factory gives them.                  *)
(***************************************************************************)
EXTENDS Integers, Sequences, FiniteSets, SequencesExt

CONSTANTS
  Contracts,      \* the contracts the repo has ever declared
  Parameterised,  \* the parameterised contracts, in order: frozen, no suites
  Codes,          \* what a name may compile to
  NoFile,         \* no such source, or no such file
  Versions,       \* what `[external.package].version' may say: a sequence of components
  Builds,         \* the declarations and Build.sol hooks the repo may hold
  FirstTree,      \* what the repo holds at the start, all of it merged
  FirstReleased,  \* the releases published by then, in order
  FirstLive,      \* the <<contract, code>> deployed by then
  MaxEdits,       \* how many changes people make to the sources, the hooks and the version
  MaxKills        \* how many builds are killed

Names == Contracts \cup Range(Parameterised)
Files == [Names -> Codes \cup {NoFile}]
\* A release directory is named for a version of three numbers.
isStrictTriple(version) == Len(version) = 3
Tags == {v \in Versions : isStrictTriple(v)}
Build == [candidates : SUBSET Contracts, generated : Seq(Contracts), retired : Seq(Contracts)]
Tree == [source : Files,                      \* what each name compiles to
         build : Builds,
         version : Versions,
         candidate : Files,                   \* the rolling snapshots
         named : [Tags -> SUBSET Names],      \* what its cut named; {}: no directory
         frozen : [Tags -> Files],            \* the files of each release directory
         lib : [Contracts -> Seq(Tags)],      \* the released-suites libs' entries
         aggregate : Seq(Contracts)]          \* the libs the aggregate concatenates

ASSUME ReleaseAssumption ==
  /\ NoFile \notin Codes
  /\ Versions \subseteq Seq(Nat) /\ Builds \subseteq Build
  /\ Parameterised \in Seq(Range(Parameterised)) /\ IsInjective(Parameterised)
  /\ Contracts \cap Range(Parameterised) = {}
  /\ FirstTree \in Tree /\ FirstTree.version \in Tags
  /\ FirstReleased \in Seq(Tags)
  /\ FirstLive \subseteq Contracts \X Codes
  /\ MaxEdits \in Nat /\ MaxKills \in Nat

VARIABLES
  tree,       \* the working tree
  main,       \* the main branch
  job,        \* the writes the running build has still to make
  live,       \* the <<contract, code>> deployed on every supported network
  published,  \* the releases published: [tag, files], in order
  edits, kills, \* how many of each there were
  built       \* whether the last build ended and nothing was changed since

vars == <<tree, main, job, live, published, edits, kills, built>>

Idle == job = <<>>

----
(* Reading the record.                                                      *)

\* Tags compare as versions, component by component.
tagPrecedes(a, b) ==
  \E i \in 1..3 : a[i] < b[i] /\ \A j \in 1..(i - 1) : a[j] = b[j]

FrozenAt(t, tag) == {n \in Names : t.frozen[tag][n] # NoFile}
\* A directory with no file in it is in no walk of the record.
FrozenTags(t) == {tag \in Tags : FrozenAt(t, tag) # {}}
\* newestFrozenTag, as the set of it: empty when nothing is frozen.
newestFrozenTag(t) ==
  {tag \in FrozenTags(t) : ~ \E other \in FrozenTags(t) : tagPrecedes(tag, other)}
\* The newest precedes the version exactly when every one does.
checkReleaseFollowsRecord(t) == \A tag \in FrozenTags(t) : tagPrecedes(tag, t.version)
\* In version order: as many come before the i-th as there are below it.
sortedRecordPaths(record) ==
  [i \in 1..Cardinality(record) |->
     CHOOSE tag \in record : Cardinality({other \in record : tagPrecedes(other, tag)}) = i - 1]
recordPathsForContract(t, c) == sortedRecordPaths({tag \in Tags : t.frozen[tag][c] # NoFile})

----
(* The two entry points of the build script, and the writes they make.      *)

\* A build's hooks name every candidate once, and no retired contract.
checkedGeneratedContracts(b) ==
  /\ IsInjective(b.generated) /\ Range(b.generated) = b.candidates
  /\ IsInjective(b.retired) /\ Range(b.generated) \cap Range(b.retired) = {}
releaseRecordNames(b) == b.generated \o Parameterised
releasedContractNames(b) == b.retired \o b.generated

Writes(kind, names) == [i \in DOMAIN names |-> [kind |-> kind, name |-> names[i]]]
Write(kind) == [kind |-> kind, name |-> NoFile]
regenerateSnapshots(b) == Writes("snapshot", releaseRecordNames(b))
regenerateLibs(b) == Writes("lib", releasedContractNames(b)) \o <<Write("aggregate")>>
\* Mutants of freeze: it copies the snapshots it finds, or makes its directory first.
freezeWithoutRegenerating(b) == <<Write("dir")>> \o Writes("freeze", releaseRecordNames(b))
freezeIntoItsDirectory(b) ==
  <<Write("dir")>> \o regenerateSnapshots(b) \o Writes("freeze", releaseRecordNames(b))
freeze(b) == regenerateSnapshots(b) \o <<Write("dir")>> \o Writes("freeze", releaseRecordNames(b))

run ==
  /\ Idle /\ checkedGeneratedContracts(tree.build)
  /\ job' = regenerateSnapshots(tree.build) \o regenerateLibs(tree.build)
  /\ built' = FALSE
  /\ UNCHANGED <<tree, main, live, published, edits, kills>>

\* What a cut refuses before it writes anything.
mayFreeze(t) ==
  /\ isStrictTriple(t.version)
  /\ t.named[t.version] = {}
  /\ releaseRecordNames(t.build) # <<>>
  /\ checkReleaseFollowsRecord(t)

\* Mutant: the libs are generated from the record before the release is in it.
cutReleaseLibsFirst ==
  /\ Idle /\ checkedGeneratedContracts(tree.build) /\ mayFreeze(tree)
  /\ job' = regenerateLibs(tree.build) \o freeze(tree.build)
  /\ built' = FALSE
  /\ UNCHANGED <<tree, main, live, published, edits, kills>>
cutRelease ==
  /\ Idle /\ checkedGeneratedContracts(tree.build) /\ mayFreeze(tree)
  /\ job' = freeze(tree.build) \o regenerateLibs(tree.build)
  /\ built' = FALSE
  /\ UNCHANGED <<tree, main, live, published, edits, kills>>

\* vm.getCode of a source that is gone reverts; so does a cut with nothing to freeze.
Refused(t, write) ==
  \/ write.kind = "snapshot" /\ t.source[write.name] = NoFile
  \/ write.kind = "dir" /\ \E n \in Range(releaseRecordNames(t.build)) : t.candidate[n] = NoFile

\* A frozen file is the rolling one, read before the directory was created
\* and not rewritten by the rest of the build.
Written(t, write) ==
  LET n == write.name IN
  CASE write.kind = "snapshot"  -> [t EXCEPT !.candidate[n] = t.source[n]]
    [] write.kind = "dir"       -> [t EXCEPT !.named[t.version] = Range(releaseRecordNames(t.build))]
    [] write.kind = "freeze"    -> [t EXCEPT !.frozen[t.version][n] = t.candidate[n]]
    [] write.kind = "lib"       -> [t EXCEPT !.lib[n] = recordPathsForContract(t, n)]
    [] write.kind = "aggregate" -> [t EXCEPT !.aggregate = releasedContractNames(t.build)]

WriteNext ==
  /\ ~Idle /\ ~Refused(tree, Head(job))
  /\ tree' = Written(tree, Head(job))
  /\ job' = Tail(job)
  /\ built' = (Len(job) = 1)
  /\ UNCHANGED <<main, live, published, edits, kills>>

\* What was written stays.
Revert ==
  /\ ~Idle /\ Refused(tree, Head(job))
  /\ job' = <<>>
  /\ UNCHANGED <<tree, main, live, published, edits, kills, built>>

Kill ==
  /\ ~Idle /\ kills < MaxKills
  /\ job' = <<>> /\ kills' = kills + 1
  /\ UNCHANGED <<tree, main, live, published, edits, built>>

----
(* What people do to a tree between builds.                                 *)

Edit(changed) ==
  /\ Idle /\ edits < MaxEdits /\ changed # tree
  /\ tree' = changed /\ edits' = edits + 1 /\ built' = FALSE
  /\ UNCHANGED <<main, job, live, published, kills>>

EditSource == \E n \in Names, code \in Codes \cup {NoFile} : Edit([tree EXCEPT !.source[n] = code])
EditBuild == \E b \in Builds : Edit([tree EXCEPT !.build = b])
SetVersion == \E v \in Versions : Edit([tree EXCEPT !.version = v])

\* Back to what is merged, the files git does not know included.
Discard ==
  /\ Idle /\ tree # main
  /\ tree' = main /\ built' = FALSE
  /\ UNCHANGED <<main, job, live, published, edits, kills>>

----
(* The checks, the main branch, the chains and the registry of packages.    *)

\* The declared releases are the aggregate's libs, concatenated.
DeclaredCount(t, code, c) ==
  Cardinality({i \in DOMAIN t.aggregate : t.aggregate[i] = c})
    * Cardinality({k \in DOMAIN t.lib[c] : t.frozen[t.lib[c][k]][c] = code})
Records(t, code, c) == {tag \in Tags : t.frozen[tag][c] = code}

checkCandidatesAnchoredToSource(t) == \A c \in t.build.candidates : t.candidate[c] = t.source[c]

\* Mutant: without the count, and only of what the build still generates.
checkGeneratedSnapshotsReleased(t) ==
  \A c \in Contracts \cap t.build.candidates, code \in Codes :
    Records(t, code, c) # {} => DeclaredCount(t, code, c) > 0

\* As many declared releases at an address as there are records of it.
checkFrozenSnapshotsReleased(t) ==
  \A c \in Contracts, code \in Codes : Cardinality(Records(t, code, c)) <= DeclaredCount(t, code, c)

\* No release lacks a contract of the one before it, unless that is retired.
checkNoReleaseDropsAContract(t) ==
  \A tag, next \in FrozenTags(t) :
    (/\ tagPrecedes(tag, next)
     /\ ~ \E mid \in FrozenTags(t) : tagPrecedes(tag, mid) /\ tagPrecedes(mid, next))
      => FrozenAt(t, tag) \subseteq FrozenAt(t, next) \cup Range(t.build.retired)

testVersionIsTheNewestFrozenRelease(t) == newestFrozenTag(t) = {t.version}

checkSuitesLive(t, deployed) ==
  \A i \in DOMAIN t.aggregate : LET c == t.aggregate[i] IN
    \A k \in DOMAIN t.lib[c] : <<c, t.frozen[t.lib[c][k]][c]>> \in deployed

\* `Git is clean': the build runs, and leaves the tree as it is.
GitIsClean(t) ==
  /\ checkedGeneratedContracts(t.build)
  /\ \A n \in Range(releaseRecordNames(t.build)) :
       t.source[n] # NoFile /\ t.candidate[n] = t.source[n]
  /\ \A c \in Range(releasedContractNames(t.build)) : t.lib[c] = recordPathsForContract(t, c)
  /\ t.aggregate = releasedContractNames(t.build)

\* A merge commits no empty directory.
Committed(t) == [t EXCEPT !.named = [tag \in Tags |-> IF FrozenAt(t, tag) = {} THEN {} ELSE @[tag]]]

Merge ==
  /\ Idle /\ tree # main /\ GitIsClean(tree)
  /\ checkCandidatesAnchoredToSource(tree) /\ checkFrozenSnapshotsReleased(tree)
  /\ checkNoReleaseDropsAContract(tree) /\ testVersionIsTheNewestFrozenRelease(tree)
  /\ checkSuitesLive(tree, live)
  /\ main' = Committed(tree)
  /\ UNCHANGED <<tree, job, live, published, edits, kills, built>>

\* One dispatch of script/Deploy.sol, all the way to every network: a candidate
\* or a declared release that is not there yet.
Deploy ==
  /\ Idle /\ checkCandidatesAnchoredToSource(tree)
  /\ \E c \in Contracts, code \in Codes :
       /\ \/ c \in tree.build.candidates /\ tree.candidate[c] = code
          \/ DeclaredCount(tree, code, c) > 0
       /\ <<c, code>> \notin live
       /\ live' = live \cup {<<c, code>>}
  /\ UNCHANGED <<tree, main, job, published, edits, kills, built>>

\* The tag's frozen-equals-regenerated check, and the package it publishes.
Publish ==
  /\ \A i \in DOMAIN published : published[i].tag # main.version
  /\ \A n \in Range(releaseRecordNames(main.build)) : main.frozen[main.version][n] = main.source[n]
  /\ published' = Append(published, [tag |-> main.version, files |-> main.frozen[main.version]])
  /\ UNCHANGED <<tree, main, job, live, edits, kills, built>>

----
\* What is merged at the start passed the checks in the way of it, and no cut
\* was killed on its way there.
ASSUME MergedAssumption ==
  /\ IsFiniteSet(FrozenTags(FirstTree))
  /\ \A tag \in Tags : FirstTree.named[tag] = FrozenAt(FirstTree, tag)
  /\ GitIsClean(FirstTree) /\ checkFrozenSnapshotsReleased(FirstTree)
  /\ testVersionIsTheNewestFrozenRelease(FirstTree)
  /\ checkSuitesLive(FirstTree, FirstLive)
  /\ \A i \in DOMAIN FirstReleased :
       /\ FirstReleased[i] \in FrozenTags(FirstTree)
       /\ \A j \in DOMAIN FirstReleased : i < j => tagPrecedes(FirstReleased[i], FirstReleased[j])

Init ==
  /\ tree = FirstTree /\ main = FirstTree /\ job = <<>>
  /\ live = FirstLive
  /\ published = [i \in DOMAIN FirstReleased |->
       [tag |-> FirstReleased[i], files |-> FirstTree.frozen[FirstReleased[i]]]]
  /\ edits = 0 /\ kills = 0 /\ built = TRUE

Next ==
  \/ run \/ cutRelease \/ WriteNext \/ Revert \/ Kill
  \/ EditSource \/ EditBuild \/ SetVersion \/ Discard
  \/ Merge \/ Deploy \/ Publish

Spec == Init /\ [][Next]_vars

----
(* Properties.                                                              *)

\* As numbers, component by component.
VersionBelow(a, b) ==
  \/ a[1] < b[1]
  \/ a[1] = b[1] /\ a[2] < b[2]
  \/ a[1] = b[1] /\ a[2] = b[2] /\ a[3] < b[3]

\* The record grows at its end, once, from the sources: whatever a build writes
\* into it is a file that was not there, what its source compiles to, in the
\* latest version there is; no refused, killed or repeated build rewrites a
\* release, freezes a stale snapshot or adds to a release another has followed
\* (freeze: regenerate first, refuse a directory that is there, follow the record).
RecordGrowsFromSource ==
  [][\A tag \in Tags, n \in Names :
       tree'.frozen[tag][n] # tree.frozen[tag][n] /\ tree' # main
         => /\ tree.frozen[tag][n] = NoFile
            /\ tree'.frozen[tag][n] = tree.source[n]
            /\ \A other \in FrozenTags(tree) \ {tag} : VersionBelow(other, tag)]_vars

\* While nobody kills a build, a release is whole or not begun: whatever a cut
\* is refused for, it is refused before its directory exists, so the version
\* is never wedged (freeze: every guard and every read before createDir).
WholeUnlessKilled ==
  Idle /\ kills = 0 => \A tag \in Tags : tree.named[tag] = FrozenAt(tree, tag)

\* A build that ran to its end declares each frozen release of every contract
\* it names exactly once, in version order, the one it has just cut included
\* (regenerateLibs after freeze, recordPathsForContract, the aggregate).
DeclaresItsRecord(t, c) ==
  /\ Cardinality({i \in DOMAIN t.aggregate : t.aggregate[i] = c}) = 1
  /\ Range(t.lib[c]) = {tag \in Tags : t.frozen[tag][c] # NoFile}
  /\ \A i, j \in DOMAIN t.lib[c] : i < j => VersionBelow(t.lib[c][i], t.lib[c][j])
BuiltTreesDeclareTheirRecord ==
  Idle /\ built =>
    \A c \in Range(tree.build.generated) \cup Range(tree.build.retired) :
      DeclaresItsRecord(tree, c)

\* Once published a release stays: what follows it is of a later version, and
\* every later merge keeps its files and declares each of its contracts, live
\* on chain, exactly once, whatever was added, dropped or retired in between
\* and whatever cuts were killed (the checks in the way of every merge).
PublishedStaysDeclared ==
  \A i \in DOMAIN published : LET tag == published[i].tag IN
    /\ main.frozen[tag] = published[i].files
    /\ \A j \in DOMAIN published : i < j => VersionBelow(tag, published[j].tag)
    /\ \A c \in Contracts : published[i].files[c] # NoFile =>
         /\ <<c, published[i].files[c]>> \in live
         /\ Cardinality({j \in DOMAIN main.aggregate : main.aggregate[j] = c}) = 1
         /\ Cardinality({k \in DOMAIN main.lib[c] : main.lib[c][k] = tag}) = 1
====
