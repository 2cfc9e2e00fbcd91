# Verification of rain.deploy

A formal development kept beside the code: TLA+ modules of its parts, TLC
configurations that check them on small instances, and proofs that TLAPS checks
for every value of the constants. The code is the reference throughout; where
this file says "the code" it means the repository's own Solidity and TypeScript,
and a path such as `src/lib/LibRainDeploy.sol` is a path of the repository.
`PROJECT.json` names, for each definition, the lines it models.

## 1. The system

rain.deploy is the deployment tooling of the Rain contracts. It has two
contracts on chain, a set of forge scripts that act on many chains at once, the
libraries that consumers and migration scripts call, and a subgraph.

| Part | State it keeps | Operations | Talks to |
| --- | --- | --- | --- |
| `MigrationRegistry` | a record per writer, namespace and migration; a head per line | `applyMigrationV5`, `applyMigrationHistoryV5`, `headV5`, `appliedV5`, `appliedAfterV5`, `appliedOntoV5`, `appliedByV5` | its callers; emits events for the subgraph |
| `ConfigRegistry` | a binding (value, type hash, moment) per authority and name | `registerV5`, `getV5` | its callers; emits events for the subgraph |
| `RegistryDelegates` | scoped and unscoped approvals per account | `approveV5`, `revokeV5` and their unscoped forms, `checkWrite` | inherited by both registries |
| `LibConfigRegistry` | what a consumer's constructor snapshots | `resolve`, `resolveSafe` | `ConfigRegistry` |
| `LibMigrationRegistry` | none; what it builds lands later | `applyMigrationV4Call` and the checks around it | `MigrationRegistry`, through a Safe or a broadcast |
| `LibConfigRegistryRegister`, `RegisterConfig` | forks; binds signed and not yet mined | `registerOnNetworks`, `checkRegisteredOnNetworks` | `ConfigRegistry` on every selected network |
| `LibRegistryDelegatesApprove`, `Approve*Delegate` | forks; approvals signed and not yet mined | approve or revoke one delegate for many scopes | either registry on every selected network |
| `LibRainDeploy`, `RainDeployBroadcast`, `LibRainDeployDescribedByMeta` | forks; deploys and emissions signed and not yet mined; the emission blocks the tree declares | a dispatch of one suite to many networks | the Zoltu factory, the metaboard |
| `LibBlockSearch` | the block the fork is rolled to | `findDeployBlock`, `findTransitionBlock`, `isStartBlock` | one fork |
| subgraph handlers | entities of both registries | one handler per event | events and contract calls of graph-node |
| subgraph decoders (`abitype.ts`, `abiencoding.ts`, `rainmeta.ts`) | a position in what they read | the status of a bound value against its type; the preimages a meta claims | the subgraph handlers |
| `BuildScript`, `LibRainDeploySnapshot`, `RainDeployVerify*` | rolling snapshots, the record of releases, released-suites libs | `run`, `cutRelease`, the checks of a tree | the file system, the chains, the main branch, published packages |
| `SafeBundleScript`, `LibSafeTx` and the other Safe libraries | a bundle artifact at one nonce | author, verify, rehearse | a Gnosis Safe |
| `LibTimelockController` | the roles a deploy asserts | deploy, rehearse | OpenZeppelin's timelock |
| `LibHyperCore`, `CreditHyperCore` | none | one credit transfer | HyperCore |

### What is hard about it

* **What was read is not what is written to.** Every script reads a fork,
  decides, simulates and signs; the transaction lands blocks later. Every
  decision (bind or skip, deploy or skip, emit or not, which head a migration
  goes onto) can be stale by then, and the contracts and a later run have to
  make the staleness harmless.
* **Many chains, no atomicity.** A run is all-or-nothing only up to the moment
  it signs. After that it may stop with some networks done and some not, and
  the only recovery is to run it again.
* **Everything is open.** The Zoltu factory and the metaboard take calls from
  anyone, so somebody else may finish half of a dispatch, or build a contract
  before the contracts it reads.
* **Transactions outlive the process that sent them.** A dispatch that died has
  left its transaction in the mempool, competing for the nonce of the next.
* **Retrying.** An operator cannot tell a late transaction from a lost one;
  what is done twice must count once.
* **Delegation is read when a write lands**, with two kinds of approval, and
  revocation races what the delegate already signed.
* **A file write is not undone by a revert**, and the record of releases is
  append-only: a build that stops midway leaves what it wrote, and what is frozen
  wrongly is declared, demanded on chain and published for ever.
* **Zero is everything at once**: the unwritten slot, the empty line's head, the
  genesis and the moment that is not there.
* **Anybody's bytes.** The type and value of a binding and the document of a meta are
  whatever their emitter wrote: the subgraph parses them with hand-written decoders,
  which must neither trap, nor loop, nor read what no other reader reads.
* **Clocks.** Two writes may share a block, and a chain's clock may step back.
* **The indexer sees the end of a block** when it asks a contract about an event
  in the middle of it, and may be handed an event again.

`PROJECT.json` lists each of these at the line where it bites, with the
properties that would catch it going wrong; the ones no property covers yet say
why.

### What makes each part correct

* MigrationRegistry: a line is one chain, never a fork or a loop; its head
  reaches all of it; nothing recorded changes; moments follow the chain; the
  order across lines has no cycle; only an authorised sender extends a line.
* ConfigRegistry and its consumers: a read is the last bind of that key; a moment
  names one binding; a consumer holds what was bound, as the type it decodes,
  and, if it asked for that, only after the binding stood.
* Dispatching scripts: an effect happens once, with its record, in the order its
  prerequisites state, and of two scripts for one head one loses.
* The multi-network scripts: a refused run signs nothing; a bind reaches only the
  chains that were named; a run repeated until it does nothing has brought every
  network to its target.
* Broadcast: what the deploy key builds stands on its dependencies; what it
  describes is there; a network counted as done holds the suite; emissions are
  not repeated; re-dispatching finishes what was left.
* Block search: what is returned is a start block, the first one wherever that
  is well defined, and the fork is put back.
* Releases: a release is cut whole, once, after every other, from the sources; a
  finished build declares each of its contracts' releases once; what is published
  keeps its files, its declaration and its code on chain through every later merge.
* Subgraph: rows say what happened, the index agrees with the registries, and a
  meta names the write it came with.
* Decoders: a type is accepted exactly when the grammar has it and it nests within
  the limit; a value is VALID exactly when it is what `abi.encode` makes of some value;
  nothing is read twice or past the end; a document is read as the format's grammar
  reads it, and verifies against the keys of one write only.

## 2. The modules

```
RegistryDelegates ---- INSTANCE ----> MigrationRegistry --- MigrationRegistryProofs
        |                                  +-- EXTENDS --> MigrationRegistryLog -- implements --> MigrationLog
        |                                  +-- INSTANCE --> MigrationDispatch --- MigrationDispatchProofs
        |                                  |       +-- implements --> MigrationHistory
        |                                  +-- INSTANCE --> Indexer --- SubgraphProofs
        +--- INSTANCE ----> ConfigRegistry                     ^
        |                     +-- INSTANCE --------------------+
        |                     +-- EXTENDS --> ConfigConsumers --- ConfigConsumersProofs
        +--- INSTANCE ----> RegisterConfig (one per chain) --- RegisterConfigProofs
Broadcast --- BroadcastProofs                 BlockSearch --- SubgraphProofs
ApproveDelegates --- ApproveDelegatesProofs   Release --- ReleaseProofs

AbiType -- EXTENDS --> ParseAbiType --- SubgraphProofs
   |                        +-- EXTENDS --> EventPayloads
   +------> AbiEncoding -- INSTANCE ------------> |  <-- INSTANCE -- AbiReference
            RainMeta ----- INSTANCE ------------> |  <-- INSTANCE -- CborReference
            VerifyPreimages -- EXTENDS ---------> |      (VerifyPreimages --- SubgraphProofs)
```

A definition has the name of the function it models. A call the code refuses
reverts, and a reverted call or script leaves nothing behind, so a refusal is a
step that is not enabled; the guards are the refusals. A definition called a
mutant, or named for what it drops (`checkHeadSkipped`, `inAnyOrder`), is not
part of the model: it is the same definition with a plausible bug, kept beside
it, and `PROJECT.json` pairs each with the property that notices it.

**RegistryDelegates** (`src/abstract/RegistryDelegates.sol`). The two approval
tables, the four entry points with their key checks, and `checkWrite`. The
checks the registries override (`checkAccount`, `checkScope`) are its constants
`KeyedAccounts` and `KeyedScopes`.

**MigrationRegistry** (`src/concrete/MigrationRegistry.sol`). Storage is total, as
Solidity has it: every slot exists and reads zero, and zero and genesis are words
like any other. `ApplyStep` is both entry points, each with the whole of
`applyMigrationRecord`: the write check, the arguments, the two passes over the
prerequisites, the moment, the record and the head. `Calls` has the calls a
caller may send, malformed ones included. A multicall is a sequence of these
steps in one block.

**MigrationLog** is the abstract specification of the registry, as its readers are
promised it: a log per line, and one action besides time passing, by which one line
gets one more entry at its end. The entry is the first of its migration in its line, is
dated no earlier than the one before it and no later than now, and waits only on entries
of other lines that are there already. Its initial state has no entry; there is no
storage in it, no head, no approval and no refusal. **MigrationRegistryLog** has the
refinement mapping. Storage keeps no log, only a head per line and one word per record,
`appliedOntoV5`; the log of a line is the chain these spell (`IsChain`: all that was
applied, each onto the one before it, from genesis to the head), and what an entry waits on
is the record's list without its first element. `ImplementsLog` is Log!Spec. A line whose
storage spelled no chain would show an empty log, so a step that broke one would be a
step of no log.

**MigrationDispatch** (`src/lib/LibMigrationRegistry.sol`). A script is fixed when
it is written: sender, line, migration, prerequisites. `Dispatch` builds its
batch (the code hash check), `Land` executes it whole (effects and the registry
call, both or neither), `Drop` loses it; copies of a batch are outstanding
together, because an operator dispatches again what seems lost.

**MigrationHistory** is the abstract specification of that: one variable, the scripts
whose effects took place, and one action, by which a script continues its line from
where the line is, once, after everything it waits on. There is no registry in it, no
batch, no block and no failure. `ImplementsHistory` states that MigrationDispatch
implements it, with `ran` for the history.

**ConfigRegistry** (`src/concrete/ConfigRegistry.sol`). `registerV5`, `getV5`, and
the `Register` events as a log. The clock ticks, stands still between calls and
may step back, as the contract's own tests warp it.

**ConfigConsumers** (`src/lib/LibConfigRegistry.sol`). A consumer's constructor calls
`resolve` or `resolveSafe` once and keeps what it got; the registry may not be on
the chain yet.

**RegisterConfig** (`src/lib/LibConfigRegistryRegister.sol`). One run is one step:
until it signs it only reads forks, and the chains are independent. What it signs
is pending until it lands, is lost or reverts, while others bind the name,
approvals move and blocks pass. A transaction remembers whether its run passed
every check, and whether the name was bound since the fork; the code has neither,
the properties ask about both.

**ApproveDelegates** (`src/lib/LibRegistryDelegatesApprove.sol`,
`script/ApproveRegistryDelegate.sol`). A run reads every network on a fork and signs
one transaction per network over the approvals that are not at its target there;
the rest is skipped on what the fork showed. A transaction carries the nonce its
fork showed, so of those signed over one state of a chain a single one is mined:
`mempool[chain]` holds them, and whatever lands, or anything else the authority
sends, voids the others. A transaction remembers the whole list its run named,
which the code does not keep and the property asks about.

**Broadcast** (`src/abstract/RainDeployBroadcast.sol`, `src/lib/LibRainDeploy.sol`,
`src/lib/LibRainDeployDescribedByMeta.sol`, `script/Deploy.sol`). `Dispatch` is the
simulation of a whole dispatch on forks and what it records per network; `Send`
and `Mine` are what forge does with that afterwards, one outstanding transaction
per network (`--slow`); `Fail` and `Die` end a dispatch midway; everybody else
deploys, emits, brings the factory or the metaboard, and the maintainer declares
the emission's block, rightly or wrongly. `mempool[n]` holds the deploy key's
transactions for its next nonce there: one is mined and voids the rest. Code at a
suite's address is the recorded code or `other`, what its constructor left when it
ran before its dependencies were there; either is permanent.

**BlockSearch** (`src/lib/LibBlockSearch.sol`). Both searches: what they refuse, and
the bisection, each turn rolling the fork. The history of the chain is any
function from block to what the check sees there.

**Indexer** (`subgraph/src`). Every handler of both subgraphs over the two
registries' modules. Calls land in blocks, several to a transaction or a block,
and emit events; the indexer is handed the events of finished blocks in order,
late, and sometimes again (the replays of the subgraph's own tests); a contract
call is answered as of the end of the event's block. A hash stands for what it
hashes, a meta for the two preimages it claims, and a type the decoder cannot
round-trip reads as `NotSet`.

**AbiType**, **ParseAbiType** (`subgraph/src/lib/abitype.ts`). `parseAbiType` as a machine:
a step reads one more token of a type string, chosen freely, and `mode` is the place in
the code's loops. A run of letters and digits is one token of its letters and its
digits, so the code's tests of single characters become tests of tokens; the counts
of levels and the frames are the code's own. A type is the record its constructor
makes, and remembers at which depths it has leaves, which the code does not and the
theorem asks about.

**AbiEncoding** (`subgraph/src/lib/abiencoding.ts`). The walk over a value, method by
method, over bytes. A walk remembers which words it read, which the code does not. A
read past the end of the data would be an error of the checker, as it is a trap in
the code.

**RainMeta** (`subgraph/src/lib/rainmeta.ts`). Every method of `CborReader`, byte by
byte, and `documentItems`. The reader is a record that each operator
is given and gives back. What reads to a break or loops is recursive. A payload
stands for its own hash.

**VerifyPreimages** is `verifyPreimages` over what `documentItems` reads, which is a
constant operator here (`ItemsOf`): the run gives it RainMeta's, as `ItemsAssumption` has
it, and the theorems leave it any.

**AbiReference**, **CborReference**. Written from the formats and not from the code:
the language of type strings, the words `abi.encode` lays a value out in, and the
readings of a document by a grammar. They work the other way round (sets of layouts and
of readings, not one pass), so that an error of the code is not repeated in them. What
the subgraph takes for a rain meta item (mandatory keys, each once, limits of depth,
indefinite lengths) is part of the grammar.

**EventPayloads** (`configValueStatus` of `subgraph/src/configregistry.ts`). Composes them:
a Register with a type string, read token by token, and then a value; or a MetaV1_2 with
a document that has one byte replaced, inserted or dropped, or is cut short.

**Release** (`script/Build.sol`, `src/abstract/BuildScript.sol`,
`src/lib/LibRainDeploySnapshot.sol`). A build is the list of the writes it will
make, and a step makes one; it can be refused at a write (`Revert`) or killed
between two (`Kill`), and what it wrote stays. `run` and `cutRelease` are the two
entry points, with every guard of `freeze`. Between builds people edit the sources,
the declarations and hooks, and the version, or discard what they have. `Merge` is a
pull request that passes the repository's checks (candidates anchored to source,
frozen snapshots released, no contract dropped, the version is the newest release,
released suites live, the build leaves the tree as it is); `Deploy` is a whole
dispatch, `Publish` the `sol-v*` tag with its frozen-equals-regenerated check. A name
stands for a contract's suite key, artifact path, files and lib; a code for what it
compiles to, and so for its one Zoltu address. Versions are lists of numbers and tags
compare by component; the directory of a cut that wrote no file is in no walk of the
record and in no commit, but a later cut finds it.
Assumed: one build at a time; nobody edits the record or a generated file by hand,
or a source while a build runs; every candidate has a source; nothing reaches the
main branch past the checks.

`MC*.tla` give the constants of the runs; `BlockSearch` needs none and is checked
directly.

### Not in the modules

Inside the modelled parts: metas of writes, except in Indexer (they change no
storage); the syntax of canonical names; the read of addresses a suite resolves at
dispatch; deploy mechanisms other than the Zoltu factory; a network named twice in
`deployNetworks`; the text of generated files, the alias libs and the staged
config a build also writes, records with an address per network, and the consistency
of one record with itself; reorganisations of a chain; block and sender columns in the
subgraph. The run of the decoders has arguments of CBOR heads of up to three bytes;
those of four and eight are the same arm of `head`. A value of more than a few
words, and the thirty-two bytes of a word, are left to the code's own tests.

Whole parts, each listed in `PROJECT.json` with its reason: the Safe libraries, the timelock
and HyperCore are planned (section 6). Generated snapshots are data, and the text of
configuration sections, the big-blocks request and CI have no state worth a model.

## 3. The runs

Each property has a comment in its module that says which behaviour of the code
it is about.

| Run | Bounds | What it shows |
| --- | --- | --- |
| `migration_registry` | a writer and a delegate, 2 namespaces, 2 migrations, `MaxTime` 2, well-formed and malformed calls | Whatever is written, by whom and in what order: storage refers only to what is there (`StorageIsConsistent`), the head reaches the whole line, lines never fork, moments follow the chain, the order across lines is acyclic; only an authorised hand writes; and the registry comes to the histories of MigrationLog (`ImplementsLog`), in which nothing but the end of a line ever changes. |
| `migration_dispatch` | 2 writers, 5 scripts that wait on each other across lines, one of them a sibling of another, 2 copies of a batch, `MaxTime` 1 | Retried, late and reordered batches come to a history of MigrationHistory (`ImplementsHistory`): effects happen once, on the end of their line, after their prerequisites, and exactly with their record; every script takes effect or has lost its head. |
| `config_consumers` | an authority and a delegate, 2 names, 2 values, 2 types, 3 consumers, `MaxTime` 3, `MaxRegisters` 3 | A moment names one binding, on a clock that steps back too; a snapshot is what was bound, as that type; a value resolved safely had stood. |
| `register_config` | 3 chains, aliases that are good, undeclared, without the registry, or whose endpoint serves another chain; 2 pending transactions, 1 bind by others | A refused run signs nothing on any network and no run signs for a chain it did not name, a redundant bind is only ever the result of a race, and repeated runs converge. Deadlock is checked. |
| `approve_delegates` | 3 chains, one without the registry; 2 scopes and the unscoped approval; a goal that revokes, 4 other runs, one refused run per refusal | Whatever is signed brings every approval its run named to the run's target whenever it is mined, those it skipped included, and touches no other; repeated runs converge although older runs are still to be mined. Deadlock is checked. |
| `broadcast` | 2 chains, a suite over another, counters to 2, one mishap (a dispatch that dies, or a block misdeclared) | What the deploy key built stands on its dependencies, a reached network holds the suite, only what is there is described, and emissions never outnumber the dispatches that were accepted to make them. |
| `broadcast_converges` | the same, emissions not counted | Dispatching what is unfinished brings every suite and its declared emission to every supported network, unless somebody built one before its dependencies. |
| `indexer` | one name bound as 2 types, one of them lossy; a line of 2 migrations; a delegate; 4 blocks, 3 events and their metas | Rows say what each call did although contract calls see the end of the block; once caught up the index answers as the registries do; a meta is linked to the write it came with and verified only against it. |
| `block_search` | 5 blocks, every history, start block and current block, both searches | What is returned is a start block on any history, the first one on a monotone history; the fork is restored on return and on refusal; every search ends. |
| `release` | 2 contracts, a parameterised one, 2 codes, a release published before, tags 0.0.9, 0.1.9 and 0.1.10 and a version that is no tag; hooks that keep, retire, drop and forget a contract; `MaxEdits` 4, `MaxKills` 1 | Whatever a build writes into the record is new, fresh and above every release; unless a build is killed no release is partial; a finished build declares the record exactly; what is published stays, declared once and live. |
| `event_payloads` | words of 2 bytes, nesting of 2, a cap of 40; type strings of up to 9 tokens; per accepted type its smallest and largest values of up to 6 words, whole, one byte changed, and cut or drawn out; 10 documents of everything the reader distinguishes, each with one edit by 52 byte values | The parser accepts exactly the grammar; the status of a value is exactly what `abi.encode` and the lengths in it say; no word is read twice; a document is read as the grammar reads it; it verifies for one write only. |
| `register_config_refusals` | as `register_config` | A counterexample, see below. |

**Why the bounds are enough.** The interesting cases are between two of something:
two scripts for one head, two binds in one block, a transaction of a dead dispatch
and one of the next, a network done and one not. Each run has two of what its
properties relate, and one more (a third chain, a third consumer, a fifth script)
where an error path needs an instance of its own. A second namespace and a second
name show that an approval or a write does not leak to the next key. Three moments
let two calls share a block, be a block apart, and straddle the boundary of a
minimum age. Four edits and a kill are what it takes to publish a second and a
third release, one of them cut again after a killed cut, or to retire a contract in
between; 0.1.9 and 0.1.10 are in one order as text and in the other as versions. The
mutants are the test that the bounds are not too small: each
property is broken by a plausible bug within the same bounds.

**Why so small a word.** The decoder is uniform in the size of a word, of which it
reads the last bytes as a number and checks the rest for zeroes or signs; with words of
two bytes both parts are there (`SIZE_BYTES` is one), every kind of elementary type has
widths below and at a word, and a byte changed is a change of an offset, a length,
padding or a sign. A nesting of two has siblings that nest differently; a cap of forty
is below `[99]` and above every value, as the code's 2^40 is above every event.

**Counterexample.** `register_config_refusals` states what the comment of
`SenderNotApproved` says, that the registry would refuse the bind. `checkSender` asks for
the scoped approval only, so the script refuses a sender that the registry would
accept: it is stricter than it needs to be. The unscoped approval came after the text, and
after the text of `IMigrationRegistryV5` as well, which says that only the writer or an
account approved for *that namespace* may write a line; `checkWrite` accepts one approved
unscoped too, as `IRegistryDelegatesV3` has it and `RecordsAreAuthorised` states.

**Deadlock.** Except in `register_config` and `approve_delegates` the systems may stop: bounded time and
bounded logs run out, a search returns, nothing has to be dispatched, and a record
whose last release is published needs no further build.

**What a killed cut can leave.** `WholeUnlessKilled` needs its premise. A cut killed
between two files leaves a directory without some of them, and the checks of a pull
request see a missing file only where the release before had it: a contract whose
first release this would be can be missing from a release that merges. The tag's
frozen-equals-regenerated check refuses to publish it, and no retry of the cut
completes it, since the directory exists. `PublishedStaysDeclared` holds there too.

**The type invariants** are theorems (section 5) of ConfigConsumers, Broadcast,
BlockSearch, ApproveDelegates, RegisterConfig and MigrationRegistry, in MigrationDispatch as
part of its `IInv` and in Release as part of `RecordInv`.

## 4. Fairness

Only the liveness properties need it.

* `MigrationDispatch`: the registry is deployed some day, the clock ticks, an
  operator keeps dispatching a script (weak fairness), and a batch that keeps
  coming back while it would succeed is not lost for ever (strong fairness, since
  each `Drop` disables it). Without the last, a signer who never signs would
  refute any such property and say nothing of the code.
* `RegisterConfig`: the authority keeps running the script (strong: a run is
  refused while a bind stands in the current block), blocks pass, nothing stays
  pending for ever, and of the authority's binds that keep being sent to a chain
  one lands. Others stop binding because `MaxRebinds` runs out, which is the
  premise of `RunsConverge`.
* `ApproveDelegates`: the operator repeats the goal (weak), what other runs left in a
  mempool is mined or lost some day (weak), and of the goal's transactions that keep
  being sent to a chain one is mined (strong). Other runs end after `MaxOthers`.
* `Broadcast`: chains include what is sent, forge reads receipts and moves on, the
  factory and the metaboard reach every chain, the maintainer declares what was
  emitted and takes back what was declared wrongly, and an unfinished suite that
  can be dispatched again and again is (strong, per suite). Deaths and
  misdeclarations are finite (`MaxMishaps`). Nothing is assumed of strangers.
* `BlockSearch`: a call runs to its end.

Nothing the code itself could refuse for ever is made fair: whether the guards
open again is what the properties are about.

## 5. The proofs

TLAPS checks every leaf with its own backends; nothing is assumed beyond the
`ASSUME` of each module, which TLC evaluates in the runs.

**MigrationRegistryProofs.** Constants: zero, genesis and the migrations are
distinct, the zero address is nobody's. `StorageIsConsistent` is the inductive
invariant: types; records only under keys a reader accepts; a record's list
begins with its own line at genesis or at a record; the rest of the list exists;
a head is a record, or genesis of an empty line. No shape property is inductive
without it: that the new record's predecessor is the old head needs the head to
be one of the line's records, and that the new record was nobody's predecessor
needs every predecessor to exist already. A step lemma (`StepLemma`) reduces
`Next` to "nothing moved" or "one new record on its line's head"; each property
is then one induction over that: no fork (the new record takes the head nobody
was applied onto), reach (a set closed under predecessors contains the new head,
so the old one, so the rest), moments, and acyclicity (a cycle through the new
record would need an old record that names it, and old records name only old
ones). The action properties (`RecordsNeverChange`, `HeadsOnlyAdvance`) follow from the
same lemma.

`ImplementsLogTheorem` is the refinement, with one more invariant, `LinesAreChains`: the
records of a line are finitely many and spell a chain. That makes the mapping a
function, since a line spells one chain at most (`OneChain`): two chains agree at the
head, and from there down, each migration having one `appliedOntoV5`; the place nearest
the head where they part would have one nearer. An application lengthens the chain of its
own line by the new head (`ChainGrows`, `LineGrows`) and leaves the chain of every other
line, and every entry already there, as it is (`LineKept`); a step of time or of an
approval leaves them all. What is left is that the new entry is one `Extend` accepts
(`EntryIsNext`): its moment is the block's and at least the head's, its migration is in
no earlier entry, and each of its prerequisites is in the log of its line. That the
readers' view is right does not follow from the shape properties above, which say nothing
of one step against the next.

**MigrationDispatchProofs.** The plan of the scripts is any. `EffectsAreRecorded` is what
carries the rest: a batch that lands writes one record, its own, that was not there,
so a script that ran cannot run again; and whatever its list names was a record, so
of a script that ran. It needs that a batch in flight was built where the registry is
(`OutstandingNeedsRegistry`: a call to an empty account would let effects happen
without a record), and that the head a line is at is a record (`HeadsAreRecorded`),
since the first entry of the list is only compared with the head.

`ImplementsHistoryTheorem` is the refinement. The initial states map, and of the steps
only `Land` moves `ran`: it must be `Run` of the same script (`LandRuns`), and every other
step is a stutter. Three of `Run`'s conditions are the invariant's `EffectsAreRecorded`
read once more, what is done being what is recorded. The fourth, that the script continues the
end of its own line, needs one more conjunct, `HeadsEndTheirLines`: the head in storage,
genesis included, is of the last script of the line that ran. So the comparison of a list's
first entry with the head, one slot, stands for an order over the whole history.

**ConfigConsumersProofs.** `RegistryInv` relates storage to the log (a read is the
last bind of its key), with two strengthenings: a bound key has a last bind, and
no bind in the log of a key is later than the moment stored for it. The second is
what makes moments increase on a clock that steps back: `checkTimestamp` compares
with storage, the property speaks of the log. `ConsumersInv` adds what a consumer
saw, bounded by the length of the log, so that a later bind is none of its own.

**ApproveDelegatesProofs.** `IInv` is the type and `MempoolIsCurrent`: the calls of a
transaction that can still be mined are exactly what its chain lacks of its run's
target, now and not only on the fork. It stays so because everything that moves an
approval takes the nonce, and with it the transaction. So a skip is never stale
where it matters.

**BroadcastProofs.** `IInv` says what is safe about work in progress: while no
dispatch runs nothing is queued or awaited (`IdleIsEmpty`); a deploy that is
queued, sent, or left in a mempool by a dispatch that died, has its dependencies
in place, at an address that is empty or already holds the recorded code; an
emission in flight is about an address that holds it (`QueueIsSafe`,
`MempoolIsSafe`). Code only ever appears where there was none (`NextIsCodeStep`)
and by CREATE2 it stays, so what the fork showed is still so when the transaction
lands: that is why `BuiltOnDependencies` holds although the check and the write
are blocks apart. `EmissionsAreCounted` needs what may still be emitted counted as
emitted (`EmissionsAreAccountedFor`): an emission moves from the queue to the mempool to
the chain, and only an accepted dispatch adds one.

**SubgraphProofs** has the subgraph: the block a suite's events start at (BlockSearch),
what is indexed from there (Indexer), and the decoders' limit (ParseAbiType).

*BlockSearch.* The invariant is the one `findDeployBlock` states in its
comment: the upper end always holds, and the lower end is the start or one past a
block that does not. When the ends meet, that is `isStartBlock`; on a monotone
history it is the first block. `SearchComesCloser` is what `SearchEnds` rests on and
needs no fairness: a natural number that every step lowers, and a range that every turn
of the loop at least halves.

*Indexer.* All three properties follow from one invariant, `IndexInv`, which is inductive
because it has the event log in the middle and never compares the store with the
registries. Every event is about one thing, a binding, a line or a delegate
(`Subject`), and `Newest` is the last of the events about it.
* `ChainInv` says what the log says of the registries: a name is bound to what the
  last `Register` of it says and was bound as often as there are such events, a line
  is at the migration of its last `Migrated`, a delegate is approved exactly when the
  last event about it approved it. It keeps two things that no entity shows and
  the handlers count on. `BlocksAnswer`: what a name is bound to at the END of a block
  is what the one `Register` of it in that block bound; it holds because a rebind needs
  a later moment (`checkTimestamp`) and a block has one, so the moment of a bind in
  the running block is now. `LogOrdered`: ids by transaction and log index increase
  along the log, so two events never share a row. And a meta comes straight after the
  write it is about (`MetaFollows`).
* `StoreInv` says the same of the entities, about the first `indexed` events only: so
  it is not disturbed by what the chain does meanwhile, and an event handed over again
  finds its row and changes nothing. `WriteShown` is for metas: the subject of the last
  write handled leads to that write's row, which is all a meta needs since it is next.

A handler is reduced to what it saves (`Handled`: which table gets which row), and each
part of `StoreInv` is then stepped from n events to n + 1. When `indexed` is the length
of the log the two halves are about the same events, and `IndexMirrorsRegistries` is
what is left when the log is taken out. No bound of the runs is used: blocks, events,
transactions and calls are any.

*ParseAbiType.* `TypesNestWithinTheLimit`: no type the parser accepts has a leaf
deeper than `MAX_NESTING`, for every limit and every set of names. The code keeps two
counts instead of looking at the type: `levels` for the type being read and one count for
each open tuple. The invariant is that each is at least the depth of what it counts
(`LevelsAreKept`, `EnclosingIsKept`), and that the type and the components it is about are
well-formed enough to have leaves at all. The run checks the rest of the grammar.

*VerifyPreimages.* `VerifyPreimagesIsExact` is the comment of `verifyPreimages` as an
equation, whatever items a document is read as; that the item the loop found last holds
the key is that every one of the magic does. `OneWriteOnlyTheorem` follows from the same
reading: two keys of one magic that a document verified would be the payload of the same
item.

**ReleaseProofs.** `RecordInv` has the shape of both trees (a file is only in a
directory whose cut named it) and speaks of the writes a build still has to make:
a directory to be made is not there, and is the only one; a file to be frozen is for
an empty place, comes once, below no other release, after its directory, and after a
snapshot of its source that is either written already or earlier in the list. It is
inductive because a cut checks all of this before its list begins (`CutIsReady`),
each write leaves it true of the rest of the list (`WriteStep`), and people edit only
when the list is empty. `RecordGrowsFromSource` is what it says of the first write;
that tags compare as numbers (`PrecedesIsBelow`) makes it about versions.
Three more invariants stand on it, each of the pending writes again:
* `WholeInv`: until a kill, a release directory lacks only the files its cut has still
  to write, and from the moment the directory is made no write of the cut can be
  refused. `WholeUnlessKilled` follows when nothing is pending.
* `LibsInv`: a released-suites list says the record as it stands, or is still to be
  written after the last file of the release. So a build that ended declares its record
  (`BuiltTreesDeclareTheirRecord`). That `sortedRecordPaths` puts every release in the
  list once and in order is `SortedRecord`: the rank of a version among the others is a
  bijection onto the places of the list, which says what its CHOOSE picks.
* `PublishInv`: the main branch has passed the checks in the way of a merge, the tree
  that is worked on has every release of the main branch unchanged (`Follows`: nothing in
  the model deletes a record, and a cut writes above all of them), and what is published
  is merged, in order. `PublishedStaysDeclared` follows because the merge checks that no
  contract was dropped and that the lists say the record: that is where the code relies
  on its checks and not on its build.

`MergedAssumption` is what these three start from: the branch the model begins with had
passed the checks itself. `WholeInv` needs no such thing of later merges.

**RegisterConfigProofs.** `IInv` is the type and that every pending transaction is
`Sound`: its run passed every check, its alias resolves to the chain that was named,
which has the registry, and if its chain is at the target by now it was raced. It is
inductive because a bind of a chain, whoever makes it, marks what is pending there as
raced in the same step (`RacedWerePending`: each marked transaction was pending,
unmarked, under the same alias and the same checks), and because a run signs nothing
for a chain that its fork showed at the target. That at most `MaxPending` are pending is
the bound of the runs, and a sum over a function: it is not part of the theorem.

**Only model-checked.** Liveness (`EveryScriptSettles`, `RunsConverge`,
`Converges`, `SearchEnds`), which is beyond the prover;
and what the decoders compute (`ParsesTheGrammar` but for its depth, `StatusIsExact`,
`WordsReadOnce`, `DocumentsAreRead`), which is by recursion over their data. Recursive
operators are in AbiEncoding, RainMeta, AbiReference and CborReference only, about which
nothing is proved; elsewhere sums and sequences are the library's folds. The library's
induction theorems take an operator and cannot be used; where a proof needs an induction
over numbers (`OneChain`, `LastPosition`) it takes the least counterexample, which the
well-founded order of the naturals gives.

## 6. Plan

Built, in this order: MigrationRegistry with its delegates and proofs,
MigrationDispatch over it, ConfigRegistry and its consumers with proofs,
RegisterConfig, Broadcast with proofs, Indexer over both registries, BlockSearch
with proofs, ApproveDelegates with proofs, Release with proofs, the decoders with EventPayloads
and the proof of the parser's limit, the proofs of MigrationDispatch, of the counts of
Broadcast, of what Release publishes, of RegisterConfig and of Indexer, and the two
abstract specifications: MigrationHistory, which MigrationDispatch is proved to implement,
and MigrationLog, which MigrationRegistry is. ConfigRegistry needs none of its own: its
module keeps the `Register` events as a log, and `RegistryInv` proves storage to be what
that log says last.

Next:

1. **SafeBundle**: authoring against a live Safe, the artifact, verification and
   execution at a later nonce, and the ascending sort of owners as an algorithm.
2. **HyperCore** (rounding and balance arithmetic) and **Timelock** (the roles a deploy
   asserts).
