---- MODULE Broadcast ----
(***************************************************************************)
(* One dispatch of script/Deploy.sol at a time: RainDeployBroadcast.run    *)
(* takes one suite to every deploy network, then emits its described-by    *)
(* meta there.  The script simulates the whole of it on forks, and only a  *)
(* simulation with no refusal leaves transactions to send; the chains move *)
(* on between the forks and the transactions, by the hands of anyone,      *)
(* because the Zoltu factory and the metaboard are open to all.            *)
(*                                                                         *)
(* `--slow' sends a network's next transaction on the receipt of the one   *)
(* before it.  A dispatch may die with a transaction sent and no receipt   *)
(* read; that transaction stays in the mempool, competing for the deploy   *)
(* key's next nonce with whatever a later dispatch sends.                  *)
(***************************************************************************)
EXTENDS Integers, FiniteSets

CONSTANTS
  Chains,            \* the catalogue's networks
  Supported,         \* the declaration's `networks'
  DeployNetworks,    \* the values `deployNetworks' takes over time
  Suites,            \* the declared suites, by the address each records
  DependsOn,         \* suite |-> the suites it declares as `dependencies'
  RequiredOn,        \* suite |-> its `networks' and its candidate's
  Described,         \* the suites carrying a described-by meta
  Answering,         \* those whose recorded code answers `describedByMetaV1()' with its hash
  SeatsDeployKey,    \* suite |-> chains where, built by the deploy key, it answers `owner()' with it
  MetaBoardDeclared, \* whether the declaration names a metaboard
  PresentAtStart,    \* chain |-> which of the Zoltu factory and the metaboard it starts with
  NoSuite,           \* no dispatch is running
  MaxCount,          \* where the emission counters saturate
  MaxMishaps         \* how many dispatches die midway or blocks are misdeclared

ASSUME BroadcastAssumption ==
  /\ Supported \subseteq Chains /\ DeployNetworks \subseteq SUBSET Chains
  /\ DependsOn \in [Suites -> SUBSET Suites]
  /\ RequiredOn \in [Suites -> SUBSET Chains]
  /\ Described \subseteq Suites /\ Answering \subseteq Described
  /\ SeatsDeployKey \in [Suites -> SUBSET Chains]
  /\ MetaBoardDeclared \in BOOLEAN
  /\ PresentAtStart \in [Chains -> SUBSET {"factory", "metaboard"}]
  /\ NoSuite \notin Suites
  /\ MaxCount \in Nat /\ MaxMishaps \in Nat

VARIABLES
  code,       \* chain |-> suite |-> what is at the suite's recorded address
  present,    \* chain |-> which of the Zoltu factory and the metaboard it has
  emitted,    \* the <<chain, suite>> whose meta the metaboard has a log of
  declared,   \* chain |-> suite |-> what the tree declares as its emission block
  mempool,    \* chain |-> the deploy key's transactions for its next nonce
  running,    \* the suite of the running dispatch
  reach,      \* the networks it goes to
  todo,       \* chain |-> the kinds of transaction it has still to send
  sent,       \* chain |-> the kind it awaits the receipt of, or "failed"
  mishaps,    \* how many dispatches died midway or blocks were misdeclared
  byKey,      \* the <<chain, suite>> the deploy key's transactions built
  keyEmissions,  \* chain |-> suite |-> emissions the deploy key made (saturating)
  openDispatches \* chain |-> suite |-> dispatches accepted with none declared (saturating)

chainVars == <<code, present, emitted>>
dispatchVars == <<running, reach, todo, sent>>
historyVars == <<mishaps, byKey, keyEmissions, openDispatches>>
vars == <<chainVars, declared, mempool, dispatchVars, historyVars>>

Kinds == {"deploy", "emit"}
Transactions == [suite : Suites, kind : Kinds]
Saturate(count) == IF count < MaxCount THEN count + 1 ELSE count

----
(* What a chain answers, and what the factory builds there.                *)

\* `other' is code whose constructor ran before its dependencies were there.
CodeAt == {"none", "recorded", "other"}

checkDeclaredDependencies(n, s) == \A d \in DependsOn[s] : code[n][d] = "recorded"

\* CREATE2 at a zero salt: one address per suite, taken once, for good.
Built(n, s) == IF checkDeclaredDependencies(n, s) THEN "recorded" ELSE "other"

\* isEmittedAt: the log is found by subject and meta, whoever sent it.
isEmittedAt(n, s) == declared[n][s] = "itsBlock"

----
(* The simulation, network by network on its fork.                         *)

DeploysCleanlyAskingWhenSkipping(n, s) ==
  /\ code[n][s] # "none" => checkDeclaredDependencies(n, s) /\ code[n][s] = "recorded"
  /\ code[n][s] = "none" => "factory" \in present[n]

DeploysCleanlyAnyCode(n, s) ==
  /\ checkDeclaredDependencies(n, s)
  /\ code[n][s] = "none" => "factory" \in present[n]

DeploysCleanlyOnce(n, s) ==
  /\ checkDeclaredDependencies(n, s)
  /\ code[n][s] = "none" /\ "factory" \in present[n]

\* selectCheckedFork, then deployStepToSelectedFork: its dependencies are
\* asked for whether it deploys or not, the factory only when it does.
DeploysCleanly(n, s) ==
  /\ checkDeclaredDependencies(n, s)
  /\ code[n][s] = "none" => "factory" \in present[n]
  /\ code[n][s] # "none" => code[n][s] = "recorded"

\* emitUnlessDeclared, after the suite is in place on the fork.
EmitsCleanly(n, s) ==
  s \in Described =>
    /\ "metaboard" \in present[n]
    /\ declared[n][s] # "none" => isEmittedAt(n, s)
    /\ declared[n][s] = "none" => s \in Answering

checkDeployNetworksDeclared(networks) == networks \subseteq Supported

\* Built locally under the chain id of every network it is required on, then
\* of the dispatched ones: one seat refuses the dispatch to all.
seatTargets(s, networks) == RequiredOn[s] \cup networks
checkSeatsNoDeployKey(s, networks) == seatTargets(s, networks) \cap SeatsDeployKey[s] = {}

checkedMetaBoard(s) == s \in Described => MetaBoardDeclared

Simulates(s, networks) ==
  /\ checkDeployNetworksDeclared(networks)
  /\ checkSeatsNoDeployKey(s, networks)
  /\ checkedMetaBoard(s)
  /\ networks # {}
  /\ \A n \in networks : DeploysCleanly(n, s) /\ EmitsCleanly(n, s)

RecordedEmittingAlways(n, s) ==
  {kind \in Kinds :
     \/ kind = "deploy" /\ code[n][s] = "none"
     \/ kind = "emit" /\ s \in Described}

\* What a clean simulation recorded for `n', in nonce order.
Recorded(n, s) ==
  {kind \in Kinds :
     \/ kind = "deploy" /\ code[n][s] = "none"
     \/ kind = "emit" /\ s \in Described /\ declared[n][s] = "none"}

----
(* The dispatch.                                                           *)

Init ==
  /\ code = [n \in Chains |-> [s \in Suites |-> "none"]]
  /\ present = PresentAtStart
  /\ emitted = {}
  /\ declared = [n \in Chains |-> [s \in Suites |-> "none"]]
  /\ mempool = [n \in Chains |-> {}]
  /\ running = NoSuite
  /\ reach = {}
  /\ todo = [n \in Chains |-> {}]
  /\ sent = [n \in Chains |-> {}]
  /\ mishaps = 0
  /\ byKey = {}
  /\ keyEmissions = [n \in Chains |-> [s \in Suites |-> 0]]
  /\ openDispatches = [n \in Chains |-> [s \in Suites |-> 0]]

\* RainDeployBroadcast.run.  A refusal anywhere reverts the script before
\* anything is sent, so a refused dispatch is no step at all.
Dispatch(s, networks) ==
  /\ running = NoSuite
  /\ Simulates(s, networks)
  /\ running' = s
  /\ reach' = networks
  /\ todo' = [n \in Chains |-> IF n \in networks THEN Recorded(n, s) ELSE {}]
  /\ openDispatches' =
       [n \in Chains |->
          IF n \in networks /\ declared[n][s] = "none"
          THEN [openDispatches[n] EXCEPT ![s] = Saturate(@)] ELSE openDispatches[n]]
  /\ UNCHANGED <<chainVars, declared, mempool, sent, mishaps, byKey, keyEmissions>>

inAnyOrder(n, kind) == TRUE

\* broadcastSuite deploys on every network before it emits on any, so a
\* network's deploy is recorded, and sent, before its emission.
inRecordedOrder(n, kind) == kind = "emit" => "deploy" \notin todo[n]

\* forge sends a network's transactions in the order they were recorded.
Send(n, kind) ==
  /\ running # NoSuite
  /\ kind \in todo[n] /\ sent[n] = {}
  /\ inRecordedOrder(n, kind)
  /\ todo' = [todo EXCEPT ![n] = @ \ {kind}]
  /\ sent' = [sent EXCEPT ![n] = {kind}]
  /\ mempool' = [mempool EXCEPT ![n] = @ \cup {[suite |-> running, kind |-> kind]}]
  /\ UNCHANGED <<chainVars, declared, running, reach, historyVars>>

\* One transaction takes the nonce; the others competing for it are void.  A
\* deploy that finds its address taken builds nothing, and its receipt may say
\* either; forge carries on only past a receipt of success of its own.
Outcome(n, tx) ==
  IF sent[n] = {} THEN {{}}
  ELSE IF running # tx.suite \/ tx.kind \notin sent[n] THEN {{"failed"}}
  ELSE IF tx.kind = "deploy" /\ code[n][tx.suite] # "none" THEN {{}, {"failed"}}
  ELSE {{}}

MineDeploy(n, s) ==
  /\ IF code[n][s] = "none"
     THEN /\ code' = [code EXCEPT ![n][s] = Built(n, s)]
          /\ byKey' = byKey \cup {<<n, s>>}
     ELSE UNCHANGED <<code, byKey>>
  /\ UNCHANGED <<emitted, keyEmissions>>

MineEmission(n, s) ==
  /\ emitted' = emitted \cup {<<n, s>>}
  /\ keyEmissions' = [keyEmissions EXCEPT ![n][s] = Saturate(@)]
  /\ UNCHANGED <<code, byKey>>

Mine(n, tx) ==
  /\ tx \in mempool[n]
  /\ mempool' = [mempool EXCEPT ![n] = {}]
  /\ \E outcome \in Outcome(n, tx) : sent' = [sent EXCEPT ![n] = outcome]
  /\ \/ tx.kind = "deploy" /\ MineDeploy(n, tx.suite)
     \/ tx.kind = "emit" /\ MineEmission(n, tx.suite)
  /\ UNCHANGED <<present, declared, running, reach, todo, mishaps, openDispatches>>

Finish ==
  /\ running # NoSuite
  /\ \A n \in Chains : todo[n] = {} /\ sent[n] = {}
  /\ running' = NoSuite
  /\ reach' = {}
  /\ UNCHANGED <<chainVars, declared, mempool, todo, sent, historyVars>>

\* Nothing more is sent, and what was sent stays in the mempool.
Abandon ==
  /\ running' = NoSuite
  /\ reach' = {}
  /\ todo' = [n \in Chains |-> {}]
  /\ sent' = [n \in Chains |-> {}]
  /\ UNCHANGED <<chainVars, declared, mempool, byKey, keyEmissions, openDispatches>>

Fail ==
  /\ running # NoSuite
  /\ \E n \in Chains : "failed" \in sent[n]
  /\ Abandon /\ UNCHANGED mishaps

\* A lost endpoint, a cancelled job.
Die ==
  /\ running # NoSuite /\ mishaps < MaxMishaps
  /\ mishaps' = mishaps + 1
  /\ Abandon

----
(* Everyone else.                                                          *)

\* The factory and the metaboard reach a chain by somebody's transaction.
Arrive(n, what) ==
  /\ what \notin present[n]
  /\ present' = [present EXCEPT ![n] = @ \cup {what}]
  /\ UNCHANGED <<code, emitted, declared, mempool, dispatchVars, historyVars>>

\* Anyone may hand the factory a suite's creation code, dependencies or not.
AnyoneDeploys(n, s) ==
  /\ "factory" \in present[n] /\ code[n][s] = "none"
  /\ code' = [code EXCEPT ![n][s] = Built(n, s)]
  /\ UNCHANGED <<present, emitted, declared, mempool, dispatchVars, historyVars>>

AnyoneEmits(n, s) ==
  /\ "metaboard" \in present[n] /\ <<n, s>> \notin emitted
  /\ emitted' = emitted \cup {<<n, s>>}
  /\ UNCHANGED <<code, present, declared, mempool, dispatchVars, historyVars>>

\* The maintainer commits the block of the emission's receipt.
Declare(n, s) ==
  /\ <<n, s>> \in emitted /\ declared[n][s] # "itsBlock"
  /\ declared' = [declared EXCEPT ![n][s] = "itsBlock"]
  /\ UNCHANGED <<chainVars, mempool, dispatchVars, historyVars>>

\* Or a block that holds no emission of it, until that is taken back.
Misdeclare(n, s) ==
  /\ declared[n][s] = "none" /\ mishaps < MaxMishaps
  /\ mishaps' = mishaps + 1
  /\ declared' = [declared EXCEPT ![n][s] = "another"]
  /\ UNCHANGED <<chainVars, mempool, dispatchVars, byKey, keyEmissions, openDispatches>>

Undeclare(n, s) ==
  /\ declared[n][s] = "another" /\ <<n, s>> \notin emitted
  /\ declared' = [declared EXCEPT ![n][s] = "none"]
  /\ UNCHANGED <<chainVars, mempool, dispatchVars, historyVars>>

Next ==
  \/ \E s \in Suites, networks \in DeployNetworks : Dispatch(s, networks)
  \/ \E n \in Chains, kind \in Kinds : Send(n, kind)
  \/ \E n \in Chains : \E tx \in mempool[n] : Mine(n, tx)
  \/ Finish
  \/ Fail
  \/ Die
  \/ \E n \in Chains, what \in {"factory", "metaboard"} : Arrive(n, what)
  \/ \E n \in Chains, s \in Suites : AnyoneDeploys(n, s)
  \/ \E n \in Chains, s \in Described : AnyoneEmits(n, s)
  \/ \E n \in Chains, s \in Described : Declare(n, s) \/ Misdeclare(n, s) \/ Undeclare(n, s)

Spec == Init /\ [][Next]_vars

\* The chains include what is sent, forge reads receipts and moves on, the
\* maintainer declares what was emitted and dispatches again, to every
\* supported network, whatever a dispatch would still have to send.
Unfinished(s) == \E n \in Supported : Recorded(n, s) # {}
Progress ==
  /\ \A n \in Chains :
       /\ WF_vars(\E kind \in Kinds : Send(n, kind))
       /\ WF_vars(\E tx \in mempool[n] : Mine(n, tx))
       /\ WF_vars(\E what \in {"factory", "metaboard"} : Arrive(n, what))
       /\ WF_vars(\E s \in Described : Declare(n, s) \/ Undeclare(n, s))
  /\ WF_vars(Finish) /\ WF_vars(Fail)
  /\ \A s \in Suites : SF_vars(Unfinished(s) /\ Dispatch(s, Supported))

FairSpec == Spec /\ Progress

----
(* Properties.                                                             *)

\* Every variable holds what the code can put there, the counters within bounds.
TypeOK ==
  /\ code \in [Chains -> [Suites -> CodeAt]]
  /\ present \in [Chains -> SUBSET {"factory", "metaboard"}]
  /\ emitted \subseteq Chains \X Suites
  /\ declared \in [Chains -> [Suites -> {"none", "itsBlock", "another"}]]
  /\ mempool \in [Chains -> SUBSET Transactions]
  /\ running \in Suites \cup {NoSuite} /\ reach \subseteq Chains
  /\ todo \in [Chains -> SUBSET Kinds]
  /\ sent \in [Chains -> SUBSET (Kinds \cup {"failed"})]
  /\ mishaps \in 0 .. MaxMishaps
  /\ byKey \subseteq Chains \X Suites
  /\ keyEmissions \in [Chains -> [Suites -> 0 .. MaxCount]]
  /\ openDispatches \in [Chains -> [Suites -> 0 .. MaxCount]]

\* What the deploy key built on a network is the recorded code over its
\* recorded dependencies, although the dependencies were read on a fork and
\* the transaction landed later, perhaps a dispatch later.
BuiltOnDependencies ==
  \A n \in Chains, s \in Suites :
    <<n, s>> \in byKey => code[n][s] = "recorded" /\ checkDeclaredDependencies(n, s)

\* A network a dispatch has no deploy left for holds the recorded code,
\* whether it deployed there, skipped it, or was beaten to it.
ReachedNetworksHoldTheSuite ==
  \A n \in reach :
    "deploy" \notin todo[n] /\ sent[n] = {} => code[n][running] = "recorded"

\* The deploy key describes only what is there with the code that answers for
\* the meta: never an address its deploy did not reach.
EmissionDescribesDeployed ==
  \A n \in Chains, s \in Suites :
    keyEmissions[n][s] > 0 => code[n][s] = "recorded" /\ s \in Answering

\* A meta is emitted at most once for each dispatch accepted before its block
\* was declared: no retry, replay or overtaken transaction repeats it.
EmissionsAreCounted ==
  \A n \in Chains, s \in Suites : keyEmissions[n][s] <= openDispatches[n][s]

\* Whatever stopped a dispatch midway is fixed by dispatching again: every
\* suite that seats nobody ends recorded, and described by a declared
\* emission, on every supported network, unless someone built one without its
\* dependencies, which no dispatch repairs.
Converges ==
  <>[](\/ \E n \in Chains, s \in Suites : code[n][s] = "other"
       \/ \A s \in Suites :
            SeatsDeployKey[s] \cap Supported = {} =>
              \A n \in Supported :
                code[n][s] = "recorded" /\ (s \in Described => declared[n][s] = "itsBlock"))
====
