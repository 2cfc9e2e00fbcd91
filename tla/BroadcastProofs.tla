---- MODULE BroadcastProofs ----
(***************************************************************************)
(* Proofs about Broadcast for every set of chains and suites.  A dispatch  *)
(* checks forks and its transactions land on chains that moved on; what    *)
(* makes that sound is that an address, once it has code, keeps it.  The   *)
(* inductive invariant says it of everything in flight: a deploy queued,   *)
(* sent or left in a mempool is over recorded dependencies, at an address  *)
(* that is empty or holds the recorded code already, and an emission in    *)
(* flight is about an address that holds it.                               *)
(***************************************************************************)
EXTENDS Broadcast, TLAPS

Buildable(n, s) ==
  checkDeclaredDependencies(n, s) /\ code[n][s] \in {"none", "recorded"}

\* No dispatch running leaves nothing queued and nothing awaited.
IdleIsEmpty ==
  running = NoSuite => reach = {} /\ \A n \in Chains : todo[n] = {} /\ sent[n] = {}

\* What the running dispatch has queued or awaits.
QueueIsSafe ==
  running # NoSuite =>
    \A n \in Chains :
      /\ "deploy" \in todo[n] => Buildable(n, running)
      /\ "emit" \in todo[n] => n \in reach /\ running \in Answering
      /\ n \in reach /\ "deploy" \notin todo[n] /\ sent[n] \subseteq {"emit"} =>
           code[n][running] = "recorded"

\* What the deploy key has signed and no block has included.
MempoolIsSafe ==
  \A n \in Chains : \A tx \in mempool[n] :
    /\ tx.kind = "deploy" => Buildable(n, tx.suite)
    /\ tx.kind = "emit" => code[n][tx.suite] = "recorded" /\ tx.suite \in Answering

IInv ==
  /\ TypeOK
  /\ IdleIsEmpty /\ QueueIsSafe /\ MempoolIsSafe
  /\ BuiltOnDependencies /\ EmissionDescribesDeployed

----
(* Code only ever appears where there is none.                             *)

Builds(n, s) == code[n][s] = "none" /\ code' = [code EXCEPT ![n][s] = Built(n, s)]
CodeStep == code' = code \/ \E n \in Chains, s \in Suites : Builds(n, s)

LEMMA NextIsCodeStep == TypeOK /\ Next => CodeStep
<1> SUFFICES ASSUME TypeOK, Next PROVE CodeStep
  OBVIOUS
<1>1. CASE \E n \in Chains : \E tx \in mempool[n] : Mine(n, tx)
  <2>1. PICK n \in Chains : \E tx \in mempool[n] : Mine(n, tx)
    BY <1>1
  <2>2. PICK tx \in mempool[n] : Mine(n, tx)
    BY <2>1
  <2>3. tx.suite \in Suites
    BY DEF TypeOK, Transactions
  <2>4. CASE tx.kind = "deploy" /\ MineDeploy(n, tx.suite)
    BY <2>3, <2>4 DEF MineDeploy, CodeStep, Builds
  <2>5. CASE tx.kind = "emit" /\ MineEmission(n, tx.suite)
    BY <2>5 DEF MineEmission, CodeStep
  <2> QED BY <2>2, <2>4, <2>5 DEF Mine
<1>2. CASE \E n \in Chains, s \in Suites : AnyoneDeploys(n, s)
  BY <1>2 DEF AnyoneDeploys, CodeStep, Builds
<1>3. CASE \E s \in Suites, networks \in DeployNetworks : Dispatch(s, networks)
  BY <1>3 DEF Dispatch, chainVars, CodeStep
<1>4. CASE \E n \in Chains, kind \in Kinds : Send(n, kind)
  BY <1>4 DEF Send, chainVars, CodeStep
<1>5. CASE Finish \/ Fail \/ Die
  BY <1>5 DEF Finish, Fail, Die, Abandon, chainVars, CodeStep
<1>6. CASE \E n \in Chains, what \in {"factory", "metaboard"} : Arrive(n, what)
  BY <1>6 DEF Arrive, CodeStep
<1>7. CASE \E n \in Chains, s \in Described : AnyoneEmits(n, s)
  BY <1>7 DEF AnyoneEmits, CodeStep
<1>8. CASE \E n \in Chains, s \in Described :
             Declare(n, s) \/ Misdeclare(n, s) \/ Undeclare(n, s)
  BY <1>8 DEF Declare, Misdeclare, Undeclare, chainVars, CodeStep
<1> QED BY <1>1, <1>2, <1>3, <1>4, <1>5, <1>6, <1>7, <1>8 DEF Next

LEMMA RecordedStays ==
  ASSUME TypeOK, CodeStep, NEW n \in Chains, NEW s \in Suites, code[n][s] # "none"
  PROVE  code'[n][s] = code[n][s]
<1>1. CASE code' = code
  BY <1>1
<1>2. CASE \E m \in Chains, t \in Suites : Builds(m, t)
  <2>1. PICK m \in Chains, t \in Suites : Builds(m, t)
    BY <1>2
  <2>2. ~(m = n /\ t = s)
    BY <2>1 DEF Builds
  <2> QED BY <2>1, <2>2 DEF Builds, TypeOK
<1> QED BY <1>1, <1>2 DEF CodeStep

LEMMA DependenciesStay ==
  ASSUME TypeOK, CodeStep, NEW n \in Chains, NEW s \in Suites, checkDeclaredDependencies(n, s)
  PROVE  checkDeclaredDependencies(n, s)'
<1>1. \A d \in DependsOn[s] : d \in Suites
  BY BroadcastAssumption
<1>2. ASSUME NEW d \in DependsOn[s] PROVE code'[n][d] = "recorded"
  <2>1. code[n][d] = "recorded" /\ d \in Suites
    BY <1>1 DEF checkDeclaredDependencies
  <2> QED BY <2>1, RecordedStays
<1> QED BY <1>2 DEF checkDeclaredDependencies

\* A buildable address stays so: whoever builds there, with the dependencies
\* in place, builds the recorded code.
LEMMA BuildableStays ==
  ASSUME TypeOK, CodeStep, NEW n \in Chains, NEW s \in Suites, Buildable(n, s)
  PROVE  Buildable(n, s)'
<1>1. checkDeclaredDependencies(n, s)'
  BY DependenciesStay DEF Buildable
<1>2. code'[n][s] \in {"none", "recorded"}
  <2>1. CASE code' = code
    BY <2>1 DEF Buildable
  <2>2. CASE \E m \in Chains, t \in Suites : Builds(m, t)
    <3>1. PICK m \in Chains, t \in Suites : Builds(m, t)
      BY <2>2
    <3>2. CASE m = n /\ t = s
      <4>1. Built(n, s) = "recorded"
        BY DEF Buildable, Built
      <4> QED BY <3>1, <3>2, <4>1 DEF Builds, TypeOK
    <3>3. CASE ~(m = n /\ t = s)
      BY <3>1, <3>3 DEF Builds, TypeOK, Buildable
    <3> QED BY <3>2, <3>3
  <2> QED BY <2>1, <2>2 DEF CodeStep
<1> QED BY <1>1, <1>2 DEF Buildable

----
(* Types.                                                                  *)

LEMMA SaturateType == ASSUME NEW count \in 0 .. MaxCount PROVE Saturate(count) \in 0 .. MaxCount
BY BroadcastAssumption DEF Saturate

LEMMA BuiltType == ASSUME NEW n, NEW s PROVE Built(n, s) \in CodeAt
BY DEF Built, CodeAt

LEMMA BuildType ==
  ASSUME TypeOK, NEW n \in Chains, NEW s \in Suites, MineDeploy(n, s)
  PROVE  code' \in [Chains -> [Suites -> CodeAt]] /\ byKey' \subseteq Chains \X Suites
<1>1. Built(n, s) \in CodeAt
  BY BuiltType
<1>2. code' \in [Chains -> [Suites -> CodeAt]]
  <2>1. CASE code[n][s] = "none"
    <3>1. code' = [code EXCEPT ![n][s] = Built(n, s)] /\ code \in [Chains -> [Suites -> CodeAt]]
      BY <2>1 DEF MineDeploy, TypeOK
    <3> HIDE DEF Built, CodeAt
    <3> QED BY <1>1, <3>1
  <2>2. CASE code[n][s] # "none"
    BY <2>2 DEF MineDeploy, TypeOK
  <2> QED BY <2>1, <2>2
<1>3. byKey' \subseteq Chains \X Suites
  BY DEF MineDeploy, TypeOK
<1> QED BY <1>2, <1>3

LEMMA InitType == Init => TypeOK
BY BroadcastAssumption DEF Init, TypeOK, CodeAt

LEMMA StepType == TypeOK /\ [Next]_vars => TypeOK'
<1> SUFFICES ASSUME TypeOK, [Next]_vars PROVE TypeOK'
  OBVIOUS
<1>1. CASE \E s \in Suites, networks \in DeployNetworks : Dispatch(s, networks)
  <2>1. PICK s \in Suites, networks \in DeployNetworks : Dispatch(s, networks)
    BY <1>1
  <2>2. networks \subseteq Chains
    BY BroadcastAssumption
  <2>3. todo' \in [Chains -> SUBSET Kinds]
    BY <2>1 DEF Dispatch, Recorded
  <2>4. \A n \in Chains : [openDispatches[n] EXCEPT ![s] = Saturate(@)] \in [Suites -> 0 .. MaxCount]
    BY SaturateType DEF TypeOK
  <2>5. openDispatches' \in [Chains -> [Suites -> 0 .. MaxCount]]
    BY <2>1, <2>4 DEF Dispatch, TypeOK
  <2> QED BY <2>1, <2>2, <2>3, <2>5 DEF Dispatch, TypeOK, chainVars
<1>2. CASE \E n \in Chains, kind \in Kinds : Send(n, kind)
  <2>1. PICK n \in Chains, kind \in Kinds : Send(n, kind)
    BY <1>2
  <2>2. [suite |-> running, kind |-> kind] \in Transactions
    BY <2>1 DEF Send, Transactions, TypeOK
  <2> QED BY <2>1, <2>2 DEF Send, TypeOK, chainVars, historyVars
<1>3. CASE \E n \in Chains : \E tx \in mempool[n] : Mine(n, tx)
  <2>1. PICK n \in Chains : \E tx \in mempool[n] : Mine(n, tx)
    BY <1>3
  <2>2. PICK tx \in mempool[n] : Mine(n, tx)
    BY <2>1
  <2>3. tx.suite \in Suites /\ mempool' \in [Chains -> SUBSET Transactions]
    BY <2>2 DEF TypeOK, Transactions, Mine
  <2>4. sent' \in [Chains -> SUBSET (Kinds \cup {"failed"})]
    BY <2>2 DEF Mine, Outcome, TypeOK
  <2>5. /\ code' \in [Chains -> [Suites -> CodeAt]]
        /\ byKey' \subseteq Chains \X Suites
        /\ emitted' \subseteq Chains \X Suites
        /\ keyEmissions' \in [Chains -> [Suites -> 0 .. MaxCount]]
    <3>1. CASE tx.kind = "deploy" /\ MineDeploy(n, tx.suite)
      <4>1. code' \in [Chains -> [Suites -> CodeAt]] /\ byKey' \subseteq Chains \X Suites
        BY <2>3, <3>1, BuildType
      <4> QED BY <3>1, <4>1 DEF MineDeploy, TypeOK
    <3>2. CASE tx.kind = "emit" /\ MineEmission(n, tx.suite)
      BY <2>3, <3>2, SaturateType DEF MineEmission, TypeOK
    <3> QED BY <2>2, <3>1, <3>2 DEF Mine
  <2> QED BY <2>2, <2>3, <2>4, <2>5 DEF Mine, TypeOK
<1>4. CASE Finish
  BY <1>4 DEF Finish, TypeOK, chainVars, historyVars
<1>5. CASE Fail
  BY <1>5 DEF Fail, Abandon, TypeOK, chainVars
<1>6. CASE Die
  BY <1>6, BroadcastAssumption DEF Die, Abandon, TypeOK, chainVars
<1>7. CASE \E n \in Chains, what \in {"factory", "metaboard"} : Arrive(n, what)
  BY <1>7 DEF Arrive, TypeOK, dispatchVars, historyVars
<1>8. CASE \E n \in Chains, s \in Suites : AnyoneDeploys(n, s)
  BY <1>8, BuiltType DEF AnyoneDeploys, TypeOK, dispatchVars, historyVars
<1>9. CASE \E n \in Chains, s \in Described : AnyoneEmits(n, s)
  BY <1>9, BroadcastAssumption DEF AnyoneEmits, TypeOK, dispatchVars, historyVars
<1>10. CASE \E n \in Chains, s \in Described :
              Declare(n, s) \/ Misdeclare(n, s) \/ Undeclare(n, s)
  <2>1. PICK n \in Chains, s \in Described : Declare(n, s) \/ Misdeclare(n, s) \/ Undeclare(n, s)
    BY <1>10
  <2>2. CASE Declare(n, s)
    BY <2>2 DEF Declare, TypeOK, chainVars, dispatchVars, historyVars
  <2>3. CASE Misdeclare(n, s)
    BY <2>3, BroadcastAssumption DEF Misdeclare, TypeOK, chainVars, dispatchVars
  <2>4. CASE Undeclare(n, s)
    BY <2>4 DEF Undeclare, TypeOK, chainVars, dispatchVars, historyVars
  <2> QED BY <2>1, <2>2, <2>3, <2>4
<1>11. CASE UNCHANGED vars
  BY <1>11 DEF vars, TypeOK, chainVars, dispatchVars, historyVars
<1> QED BY <1>1, <1>2, <1>3, <1>4, <1>5, <1>6, <1>7, <1>8, <1>9, <1>10, <1>11 DEF Next

\* Every reachable state of the dispatches and the chains is well typed, for
\* any set of chains, suites and dependencies.
THEOREM TypeCorrect == Spec => []TypeOK
<1> QED BY InitType, StepType, PTL DEF Spec
----
(* What is in flight.                                                      *)

LEMMA InitInv == Init => IInv
<1> SUFFICES ASSUME Init PROVE IInv
  OBVIOUS
<1>1. TypeOK
  BY InitType
<1> QED BY <1>1 DEF Init, IInv, IdleIsEmpty, QueueIsSafe, MempoolIsSafe,
          BuiltOnDependencies, EmissionDescribesDeployed

\* The histories of the deploy key survive whatever else happens to code.
LEMMA HistoryStays ==
  ASSUME TypeOK, CodeStep, BuiltOnDependencies, EmissionDescribesDeployed,
         UNCHANGED <<byKey, keyEmissions>>
  PROVE  BuiltOnDependencies' /\ EmissionDescribesDeployed'
<1>1. ASSUME NEW n \in Chains, NEW s \in Suites, <<n, s>> \in byKey'
      PROVE  code'[n][s] = "recorded" /\ checkDeclaredDependencies(n, s)'
  <2>1. code[n][s] = "recorded" /\ checkDeclaredDependencies(n, s)
    BY <1>1 DEF BuiltOnDependencies
  <2> QED BY <2>1, RecordedStays, DependenciesStay
<1>2. ASSUME NEW n \in Chains, NEW s \in Suites, keyEmissions'[n][s] > 0
      PROVE  code'[n][s] = "recorded" /\ s \in Answering
  <2>1. code[n][s] = "recorded" /\ s \in Answering
    BY <1>2 DEF EmissionDescribesDeployed
  <2> QED BY <2>1, RecordedStays
<1> QED BY <1>1, <1>2 DEF BuiltOnDependencies, EmissionDescribesDeployed

LEMMA MempoolStays ==
  ASSUME TypeOK, CodeStep, MempoolIsSafe,
         \A n \in Chains : mempool'[n] \subseteq mempool[n]
  PROVE  MempoolIsSafe'
<1> SUFFICES ASSUME NEW n \in Chains, NEW tx \in mempool'[n]
             PROVE  /\ tx.kind = "deploy" => Buildable(n, tx.suite)'
                    /\ tx.kind = "emit" => code'[n][tx.suite] = "recorded" /\ tx.suite \in Answering
  BY DEF MempoolIsSafe
<1>1. tx \in mempool[n] /\ tx.suite \in Suites
  BY DEF TypeOK, Transactions
<1>2. CASE tx.kind = "deploy"
  BY <1>1, <1>2, BuildableStays DEF MempoolIsSafe
<1>3. CASE tx.kind = "emit"
  BY <1>1, <1>3, RecordedStays DEF MempoolIsSafe
<1> QED BY <1>2, <1>3

LEMMA QueueStays ==
  ASSUME TypeOK, CodeStep, QueueIsSafe, UNCHANGED dispatchVars
  PROVE  QueueIsSafe'
<1> SUFFICES ASSUME running # NoSuite, NEW n \in Chains
             PROVE  /\ "deploy" \in todo[n] => Buildable(n, running)'
                    /\ "emit" \in todo[n] => n \in reach /\ running \in Answering
                    /\ n \in reach /\ "deploy" \notin todo[n] /\ sent[n] \subseteq {"emit"} =>
                         code'[n][running] = "recorded"
  BY DEF QueueIsSafe, dispatchVars
<1>1. running \in Suites /\ running' = running
  BY DEF TypeOK, dispatchVars
<1>2. ASSUME Buildable(n, running) PROVE Buildable(n, running)'
  <2>1. checkDeclaredDependencies(n, running)
    BY <1>2 DEF Buildable
  <2>2. PICK s \in Suites : s = running
    BY <1>1
  <2>3. Buildable(n, s)'
    BY <1>2, <2>2, BuildableStays
  <2> QED BY <1>1, <2>2, <2>3 DEF Buildable, checkDeclaredDependencies
<1>3. ASSUME code[n][running] = "recorded" PROVE code'[n][running] = "recorded"
  BY <1>1, <1>3, RecordedStays
<1> QED BY <1>2, <1>3 DEF QueueIsSafe

LEMMA MineInv ==
  ASSUME IInv, TypeOK', CodeStep, NEW n \in Chains, NEW tx \in mempool[n], Mine(n, tx)
  PROVE  IInv'
<1>1. tx.suite \in Suites /\ tx.kind \in Kinds
  BY DEF IInv, TypeOK, Transactions
<1>2. PICK s \in Suites : s = tx.suite
  BY <1>1
<1>3. CodeStep /\ TypeOK
  BY DEF IInv
<1>4. MempoolIsSafe'
  <2>1. \A m \in Chains : mempool'[m] \subseteq mempool[m]
    BY DEF Mine, IInv, TypeOK
  <2> QED BY <1>3, <2>1, MempoolStays DEF IInv
<1>5. running' = running /\ reach' = reach /\ todo' = todo
  BY DEF Mine
<1>6. \A m \in Chains : m # n => sent'[m] = sent[m]
  BY DEF Mine, IInv, TypeOK
<1>7. sent'[n] \in Outcome(n, tx)
  BY DEF Mine, IInv, TypeOK
<1>8. IdleIsEmpty'
  <2> SUFFICES ASSUME running = NoSuite, NEW m \in Chains
               PROVE  reach = {} /\ todo[m] = {} /\ sent'[m] = {}
    BY <1>5 DEF IdleIsEmpty
  <2>1. reach = {} /\ todo[m] = {} /\ sent[m] = {}
    BY DEF IInv, IdleIsEmpty
  <2> QED BY <1>6, <1>7, <2>1 DEF Outcome
<1>9. ASSUME tx.kind = "deploy"
      PROVE  code[n][s] \in {"none", "recorded"} /\ code'[n][s] = "recorded"
             /\ checkDeclaredDependencies(n, s)'
  <2>1. Buildable(n, s)
    BY <1>2, <1>9 DEF IInv, MempoolIsSafe
  <2>2. MineDeploy(n, s)
    BY <1>2, <1>9 DEF Mine
  <2>3. Built(n, s) = "recorded"
    BY <2>1 DEF Built, Buildable
  <2>4. code'[n][s] = "recorded"
    BY <2>1, <2>2, <2>3, <1>3 DEF MineDeploy, Buildable, TypeOK
  <2>5. checkDeclaredDependencies(n, s)'
    BY <2>1, <1>3, DependenciesStay DEF Buildable
  <2> QED BY <2>1, <2>4, <2>5 DEF Buildable
<1>10. QueueIsSafe'
  <2> SUFFICES ASSUME running # NoSuite, NEW m \in Chains
               PROVE  /\ "deploy" \in todo[m] => Buildable(m, running)'
                      /\ "emit" \in todo[m] => m \in reach /\ running \in Answering
                      /\ m \in reach /\ "deploy" \notin todo[m] /\ sent'[m] \subseteq {"emit"} =>
                           code'[m][running] = "recorded"
    BY <1>5 DEF QueueIsSafe
  <2>1. PICK r \in Suites : r = running
    BY <1>3 DEF TypeOK
  <2>2. ASSUME Buildable(m, r) PROVE Buildable(m, r)'
    BY <1>3, <2>2, BuildableStays
  <2>3. "deploy" \in todo[m] => Buildable(m, running)'
    <3>1. ASSUME "deploy" \in todo[m] PROVE Buildable(m, r)
      BY <2>1, <3>1 DEF IInv, QueueIsSafe
    <3> QED BY <1>5, <2>1, <2>2, <3>1 DEF Buildable, checkDeclaredDependencies
  <2>4. "emit" \in todo[m] => m \in reach /\ running \in Answering
    BY DEF IInv, QueueIsSafe
  <2>5. ASSUME m \in reach, "deploy" \notin todo[m], sent'[m] \subseteq {"emit"}
        PROVE  code'[m][r] = "recorded"
    <3>1. CASE sent[m] \subseteq {"emit"}
      <4>1. code[m][r] = "recorded"
        BY <2>1, <2>5, <3>1 DEF IInv, QueueIsSafe
      <4> QED BY <1>3, <4>1, RecordedStays
    <3>2. CASE ~(sent[m] \subseteq {"emit"})
      <4>1. m = n /\ sent[n] # {}
        BY <1>6, <2>5, <3>2
      <4>2. running = tx.suite /\ tx.kind \in sent[n]
        BY <1>7, <2>5, <4>1 DEF Outcome
      <4>3. CASE tx.kind = "deploy"
        BY <1>2, <1>9, <2>1, <4>1, <4>2, <4>3
      <4>4. CASE tx.kind = "emit"
        <5>1. code[n][s] = "recorded"
          BY <1>2, <4>4 DEF IInv, MempoolIsSafe
        <5> QED BY <1>2, <1>3, <2>1, <4>1, <4>2, <5>1, RecordedStays
      <4> QED BY <1>1, <4>3, <4>4 DEF Kinds
    <3> QED BY <3>1, <3>2
  <2> QED BY <2>1, <2>3, <2>4, <2>5
<1>11. BuiltOnDependencies' /\ EmissionDescribesDeployed'
  <2>1. CASE tx.kind = "deploy"
    <3>1. MineDeploy(n, s)
      BY <1>2, <2>1 DEF Mine
    <3>2. keyEmissions' = keyEmissions
      BY <3>1 DEF MineDeploy
    <3>3. \A m \in Chains, t \in Suites : <<m, t>> \in byKey' => <<m, t>> \in byKey \/ (m = n /\ t = s)
      BY <3>1 DEF MineDeploy
    <3>4. ASSUME NEW m \in Chains, NEW t \in Suites, <<m, t>> \in byKey'
          PROVE  code'[m][t] = "recorded" /\ checkDeclaredDependencies(m, t)'
      <4>1. CASE m = n /\ t = s
        BY <1>9, <2>1, <4>1
      <4>2. CASE <<m, t>> \in byKey
        <5>1. code[m][t] = "recorded" /\ checkDeclaredDependencies(m, t)
          BY <4>2 DEF IInv, BuiltOnDependencies
        <5> QED BY <1>3, <5>1, RecordedStays, DependenciesStay
      <4> QED BY <3>3, <3>4, <4>1, <4>2
    <3>5. ASSUME NEW m \in Chains, NEW t \in Suites, keyEmissions'[m][t] > 0
          PROVE  code'[m][t] = "recorded" /\ t \in Answering
      <4>1. code[m][t] = "recorded" /\ t \in Answering
        BY <3>2, <3>5 DEF IInv, EmissionDescribesDeployed
      <4> QED BY <1>3, <4>1, RecordedStays
    <3> QED BY <3>4, <3>5 DEF BuiltOnDependencies, EmissionDescribesDeployed
  <2>2. CASE tx.kind = "emit"
    <3>1. MineEmission(n, s)
      BY <1>2, <2>2 DEF Mine
    <3>2. code' = code /\ byKey' = byKey
      BY <3>1 DEF MineEmission
    <3>3. BuiltOnDependencies'
      BY <3>2 DEF IInv, BuiltOnDependencies, checkDeclaredDependencies
    <3>4. ASSUME NEW m \in Chains, NEW t \in Suites, keyEmissions'[m][t] > 0
          PROVE  code'[m][t] = "recorded" /\ t \in Answering
      <4>1. CASE m = n /\ t = s
        BY <1>2, <2>2, <3>2, <4>1 DEF IInv, MempoolIsSafe
      <4>2. CASE ~(m = n /\ t = s)
        <5>1. keyEmissions'[m][t] = keyEmissions[m][t]
          BY <1>3, <3>1, <4>2 DEF MineEmission, TypeOK
        <5> QED BY <3>2, <3>4, <5>1 DEF IInv, EmissionDescribesDeployed
      <4> QED BY <4>1, <4>2
    <3> QED BY <3>3, <3>4 DEF EmissionDescribesDeployed
  <2> QED BY <1>1, <2>1, <2>2 DEF Kinds
<1> QED BY <1>4, <1>8, <1>10, <1>11 DEF IInv

LEMMA DispatchInv ==
  ASSUME IInv, TypeOK', CodeStep, NEW s \in Suites, NEW networks \in DeployNetworks,
         Dispatch(s, networks)
  PROVE  IInv'
<1>1. code' = code /\ mempool' = mempool /\ sent' = sent /\ running' = s /\ reach' = networks
  BY DEF Dispatch, chainVars
<1>2. running = NoSuite /\ s # NoSuite
  BY BroadcastAssumption DEF Dispatch
<1>3. IdleIsEmpty'
  BY <1>1, <1>2 DEF IdleIsEmpty
<1>4. QueueIsSafe'
  <2> SUFFICES ASSUME NEW n \in Chains
               PROVE  /\ "deploy" \in todo'[n] => Buildable(n, s)'
                      /\ "emit" \in todo'[n] => n \in networks /\ s \in Answering
                      /\ n \in networks /\ "deploy" \notin todo'[n] => code[n][s] = "recorded"
    BY <1>1 DEF QueueIsSafe, Buildable, checkDeclaredDependencies
  <2>1. todo'[n] = IF n \in networks THEN Recorded(n, s) ELSE {}
    BY DEF Dispatch
  <2>2. CASE n \in networks
    <3>1. DeploysCleanly(n, s) /\ EmitsCleanly(n, s)
      BY <2>2 DEF Dispatch, Simulates
    <3>2. code[n][s] \in {"none", "recorded"} /\ checkDeclaredDependencies(n, s)
      BY <3>1 DEF DeploysCleanly
    <3>3. Buildable(n, s)'
      BY <1>1, <3>2 DEF Buildable, checkDeclaredDependencies
    <3>4. "emit" \in todo'[n] => s \in Answering
      BY <2>1, <2>2, <3>1 DEF Recorded, EmitsCleanly
    <3>5. "deploy" \notin todo'[n] => code[n][s] = "recorded"
      BY <2>1, <2>2, <3>2 DEF Recorded, Kinds
    <3> QED BY <2>2, <3>3, <3>4, <3>5
  <2>3. CASE n \notin networks
    BY <2>1, <2>3
  <2> QED BY <2>2, <2>3
<1>5. MempoolIsSafe'
  BY <1>1 DEF IInv, MempoolIsSafe, Buildable, checkDeclaredDependencies
<1>6. BuiltOnDependencies' /\ EmissionDescribesDeployed'
  BY HistoryStays DEF IInv, Dispatch
<1> QED BY <1>3, <1>4, <1>5, <1>6 DEF IInv

LEMMA SendInv ==
  ASSUME IInv, TypeOK', CodeStep, NEW n \in Chains, NEW kind \in Kinds, Send(n, kind)
  PROVE  IInv'
<1>1. running # NoSuite /\ kind \in todo[n] /\ sent[n] = {} /\ code' = code
      /\ running' = running /\ reach' = reach
      /\ (kind = "emit" => "deploy" \notin todo[n])
  BY DEF Send, inRecordedOrder, chainVars
<1>2. \A m \in Chains : m # n => todo'[m] = todo[m] /\ sent'[m] = sent[m] /\ mempool'[m] = mempool[m]
  BY DEF Send, IInv, TypeOK
<1>3. /\ todo'[n] = todo[n] \ {kind} /\ sent'[n] = {kind}
      /\ mempool'[n] = mempool[n] \cup {[suite |-> running, kind |-> kind]}
  BY DEF Send, IInv, TypeOK
<1>4. \A m \in Chains : \A r : Buildable(m, r)' <=> Buildable(m, r)
  BY <1>1 DEF Buildable, checkDeclaredDependencies
<1>5. kind = "deploy" => Buildable(n, running)
  BY <1>1 DEF IInv, QueueIsSafe
<1>6. kind = "emit" => code[n][running] = "recorded" /\ running \in Answering
  BY <1>1 DEF IInv, QueueIsSafe
<1>7. IdleIsEmpty'
  BY <1>1 DEF IdleIsEmpty
<1>8. QueueIsSafe'
  <2> SUFFICES ASSUME NEW m \in Chains
               PROVE  /\ "deploy" \in todo'[m] => Buildable(m, running)'
                      /\ "emit" \in todo'[m] => m \in reach /\ running \in Answering
                      /\ m \in reach /\ "deploy" \notin todo'[m] /\ sent'[m] \subseteq {"emit"} =>
                           code[m][running] = "recorded"
    BY <1>1 DEF QueueIsSafe
  <2>0. Buildable(m, running)' <=> Buildable(m, running)
    BY <1>1 DEF Buildable, checkDeclaredDependencies
  <2>1. CASE m # n
    BY <1>1, <1>2, <2>0, <2>1 DEF IInv, QueueIsSafe
  <2>2. CASE m = n
    <3>1. "deploy" \in todo'[n] => Buildable(n, running)
      BY <1>1, <1>3 DEF IInv, QueueIsSafe
    <3>2. "emit" \in todo'[n] => n \in reach /\ running \in Answering
      BY <1>1, <1>3 DEF IInv, QueueIsSafe
    <3>3. sent'[n] \subseteq {"emit"} => kind = "emit"
      BY <1>3
    <3> QED BY <1>6, <2>0, <2>2, <3>1, <3>2, <3>3
  <2> QED BY <2>1, <2>2
<1>9. MempoolIsSafe'
  <2> SUFFICES ASSUME NEW m \in Chains, NEW tx \in mempool'[m]
               PROVE  /\ tx.kind = "deploy" => Buildable(m, tx.suite)
                      /\ tx.kind = "emit" => code[m][tx.suite] = "recorded" /\ tx.suite \in Answering
    BY <1>1, <1>4 DEF MempoolIsSafe
  <2>1. CASE tx \in mempool[m]
    BY <2>1 DEF IInv, MempoolIsSafe
  <2>2. CASE tx \notin mempool[m]
    <3>1. m = n /\ tx = [suite |-> running, kind |-> kind]
      BY <1>2, <1>3, <2>2
    <3>2. tx.suite = running /\ tx.kind = kind
      BY <3>1
    <3> QED BY <1>5, <1>6, <3>1, <3>2
  <2> QED BY <2>1, <2>2
<1>10. BuiltOnDependencies' /\ EmissionDescribesDeployed'
  BY HistoryStays DEF IInv, Send, historyVars
<1> QED BY <1>7, <1>8, <1>9, <1>10 DEF IInv

\* A dispatch that ends, well or not, leaves only what it signed.
LEMMA EndInv ==
  ASSUME IInv, TypeOK', CodeStep, Finish \/ Fail \/ Die
  PROVE  IInv'
<1>1. /\ code' = code /\ mempool' = mempool /\ running' = NoSuite /\ reach' = {}
      /\ byKey' = byKey /\ keyEmissions' = keyEmissions
      /\ \A n \in Chains : todo'[n] = {} /\ sent'[n] = {}
  BY DEF Finish, Fail, Die, Abandon, chainVars, historyVars
<1>2. IdleIsEmpty' /\ QueueIsSafe'
  BY <1>1 DEF IdleIsEmpty, QueueIsSafe
<1>3. MempoolIsSafe'
  BY <1>1 DEF IInv, MempoolIsSafe, Buildable, checkDeclaredDependencies
<1>4. BuiltOnDependencies' /\ EmissionDescribesDeployed'
  BY <1>1, HistoryStays DEF IInv
<1> QED BY <1>2, <1>3, <1>4 DEF IInv

\* Steps of everyone else touch neither the dispatch nor the mempool.
LEMMA OthersInv ==
  ASSUME IInv, TypeOK', CodeStep, UNCHANGED <<mempool, dispatchVars, byKey, keyEmissions>>
  PROVE  IInv'
<1>1. IdleIsEmpty'
  BY DEF IInv, IdleIsEmpty, dispatchVars
<1>2. QueueIsSafe'
  BY QueueStays DEF IInv
<1>3. MempoolIsSafe'
  BY MempoolStays DEF IInv
<1>4. BuiltOnDependencies' /\ EmissionDescribesDeployed'
  BY HistoryStays DEF IInv
<1> QED BY <1>1, <1>2, <1>3, <1>4 DEF IInv

LEMMA StepInv == IInv /\ [Next]_vars => IInv'
<1> SUFFICES ASSUME IInv, [Next]_vars PROVE IInv'
  OBVIOUS
<1>1. TypeOK /\ TypeOK'
  BY StepType DEF IInv
<1>2. CASE Next
  <2>1. CodeStep
    BY <1>1, <1>2, NextIsCodeStep
  <2>2. CASE \E s \in Suites, networks \in DeployNetworks : Dispatch(s, networks)
    BY <1>1, <2>1, <2>2, DispatchInv
  <2>3. CASE \E n \in Chains, kind \in Kinds : Send(n, kind)
    BY <1>1, <2>1, <2>3, SendInv
  <2>4. CASE \E n \in Chains : \E tx \in mempool[n] : Mine(n, tx)
    BY <1>1, <2>1, <2>4, MineInv
  <2>5. CASE Finish \/ Fail \/ Die
    BY <1>1, <2>1, <2>5, EndInv
  <2>6. CASE \E n \in Chains, what \in {"factory", "metaboard"} : Arrive(n, what)
    <3>1. UNCHANGED <<mempool, dispatchVars, byKey, keyEmissions>>
      BY <2>6 DEF Arrive, historyVars
    <3> QED BY <1>1, <2>1, <3>1, OthersInv
  <2>7. CASE \E n \in Chains, s \in Suites : AnyoneDeploys(n, s)
    <3>1. UNCHANGED <<mempool, dispatchVars, byKey, keyEmissions>>
      BY <2>7 DEF AnyoneDeploys, historyVars
    <3> QED BY <1>1, <2>1, <3>1, OthersInv
  <2>8. CASE \E n \in Chains, s \in Described : AnyoneEmits(n, s)
    <3>1. UNCHANGED <<mempool, dispatchVars, byKey, keyEmissions>>
      BY <2>8 DEF AnyoneEmits, historyVars
    <3> QED BY <1>1, <2>1, <3>1, OthersInv
  <2>9. CASE \E n \in Chains, s \in Described : Declare(n, s) \/ Misdeclare(n, s) \/ Undeclare(n, s)
    <3>1. UNCHANGED <<mempool, dispatchVars, byKey, keyEmissions>>
      BY <2>9 DEF Declare, Misdeclare, Undeclare, historyVars
    <3> QED BY <1>1, <2>1, <3>1, OthersInv
  <2> QED BY <1>2, <2>2, <2>3, <2>4, <2>5, <2>6, <2>7, <2>8, <2>9 DEF Next
<1>3. CASE UNCHANGED vars
  <2>1. CodeStep /\ UNCHANGED <<mempool, dispatchVars, byKey, keyEmissions>>
    BY <1>3 DEF vars, chainVars, historyVars, CodeStep
  <2> QED BY <1>1, <2>1, OthersInv
<1> QED BY <1>2, <1>3

LEMMA Invariant == Spec => []IInv
<1> QED BY InitInv, StepInv, PTL DEF Spec

\* What the deploy key built anywhere is the recorded code over its recorded
\* dependencies: the fork's check still holds when the transaction lands.
THEOREM BuiltOnDependenciesTheorem == Spec => []BuiltOnDependencies
<1>1. IInv => BuiltOnDependencies
  BY DEF IInv
<1> QED BY <1>1, Invariant, PTL

\* A network the dispatch has no deploy left for holds the recorded code.
THEOREM ReachedNetworksHoldTheSuiteTheorem == Spec => []ReachedNetworksHoldTheSuite
<1>1. IInv => ReachedNetworksHoldTheSuite
  <2> SUFFICES ASSUME IInv, NEW n \in reach, "deploy" \notin todo[n], sent[n] = {}
               PROVE  code[n][running] = "recorded"
    BY DEF ReachedNetworksHoldTheSuite
  <2>1. running # NoSuite /\ n \in Chains
    BY DEF IInv, IdleIsEmpty, TypeOK
  <2> QED BY <2>1 DEF IInv, QueueIsSafe
<1> QED BY <1>1, Invariant, PTL

\* The deploy key describes only what is deployed and answers for the meta.
THEOREM EmissionDescribesDeployedTheorem == Spec => []EmissionDescribesDeployed
<1>1. IInv => EmissionDescribesDeployed
  BY DEF IInv
<1> QED BY <1>1, Invariant, PTL

----
(* Emissions.  What the deploy key may still emit counts as emitted.       *)

Queued(n, s) == IF running = s /\ "emit" \in todo[n] THEN 1 ELSE 0
Signed(n, s) == IF [suite |-> s, kind |-> "emit"] \in mempool[n] THEN 1 ELSE 0

\* A count that has reached its bound says nothing more.
EmissionsAreAccountedFor ==
  \A n \in Chains, s \in Suites :
    \/ openDispatches[n][s] = MaxCount
    \/ keyEmissions[n][s] + Queued(n, s) + Signed(n, s) <= openDispatches[n][s]

CountInv == TypeOK /\ EmissionsAreAccountedFor

\* What is emitted, queued or signed never grows by more than what is accepted.
LEMMA CountStays ==
  ASSUME TypeOK, EmissionsAreAccountedFor, NEW n \in Chains, NEW s \in Suites,
         openDispatches'[n][s] = openDispatches[n][s],
         keyEmissions'[n][s] + Queued(n, s)' + Signed(n, s)'
           <= keyEmissions[n][s] + Queued(n, s) + Signed(n, s),
         keyEmissions'[n][s] \in Nat
  PROVE  \/ openDispatches'[n][s] = MaxCount
         \/ keyEmissions'[n][s] + Queued(n, s)' + Signed(n, s)' <= openDispatches'[n][s]
<1>1. /\ openDispatches[n][s] \in Nat /\ keyEmissions[n][s] \in Nat
      /\ Queued(n, s) \in Nat /\ Signed(n, s) \in Nat
      /\ Queued(n, s)' \in Nat /\ Signed(n, s)' \in Nat
  BY BroadcastAssumption DEF TypeOK, Queued, Signed
<1>2. \/ openDispatches[n][s] = MaxCount
      \/ keyEmissions[n][s] + Queued(n, s) + Signed(n, s) <= openDispatches[n][s]
  BY DEF EmissionsAreAccountedFor
<1> QED BY <1>1, <1>2

\* An accepted dispatch queues an emission only where it counts as open.
LEMMA DispatchCounts ==
  ASSUME CountInv, TypeOK', NEW d \in Suites, NEW networks \in DeployNetworks, Dispatch(d, networks)
  PROVE  EmissionsAreAccountedFor'
<1> SUFFICES ASSUME NEW n \in Chains, NEW s \in Suites
             PROVE  \/ openDispatches'[n][s] = MaxCount
                    \/ keyEmissions'[n][s] + Queued(n, s)' + Signed(n, s)' <= openDispatches'[n][s]
  BY DEF EmissionsAreAccountedFor, Queued, Signed
<1>1. /\ keyEmissions'[n][s] = keyEmissions[n][s] /\ Signed(n, s)' = Signed(n, s)
      /\ running = NoSuite /\ running' = d
      /\ todo'[n] = IF n \in networks THEN Recorded(n, d) ELSE {}
      /\ openDispatches'[n] =
           IF n \in networks /\ declared[n][d] = "none"
           THEN [openDispatches[n] EXCEPT ![d] = Saturate(@)] ELSE openDispatches[n]
  BY DEF Dispatch, Signed
<1>2. Queued(n, s) = 0
  BY <1>1, BroadcastAssumption DEF Queued
<1>3. /\ openDispatches[n][s] \in 0 .. MaxCount /\ keyEmissions[n][s] \in Nat
      /\ openDispatches[n] \in [Suites -> 0 .. MaxCount]
      /\ Signed(n, s) \in Nat /\ MaxCount \in Nat
  BY BroadcastAssumption DEF CountInv, TypeOK, Signed
<1>4. \/ openDispatches[n][s] = MaxCount
      \/ keyEmissions[n][s] + Signed(n, s) <= openDispatches[n][s]
  BY <1>2, <1>3 DEF CountInv, EmissionsAreAccountedFor
<1>5. CASE s = d /\ n \in networks /\ declared[n][d] = "none"
  <2>1. openDispatches'[n][s] = Saturate(openDispatches[n][s])
    BY <1>1, <1>3, <1>5
  <2>2. Queued(n, s)' \in {0, 1}
    BY DEF Queued
  <2> QED BY <1>1, <1>3, <1>4, <2>1, <2>2 DEF Saturate
<1>6. CASE ~(s = d /\ n \in networks /\ declared[n][d] = "none")
  <2>1. openDispatches'[n][s] = openDispatches[n][s]
    BY <1>1, <1>3, <1>6
  <2>2. Queued(n, s)' = 0
    BY <1>1, <1>6 DEF Queued, Recorded
  <2> QED BY <1>1, <1>3, <1>4, <2>1, <2>2
<1> QED BY <1>5, <1>6

\* What is sent is no longer queued, and takes its place among what is signed.
LEMMA SendCounts ==
  ASSUME CountInv, TypeOK', NEW m \in Chains, NEW kind \in Kinds, Send(m, kind)
  PROVE  EmissionsAreAccountedFor'
<1> SUFFICES ASSUME NEW n \in Chains, NEW s \in Suites
             PROVE  \/ openDispatches'[n][s] = MaxCount
                    \/ keyEmissions'[n][s] + Queued(n, s)' + Signed(n, s)' <= openDispatches'[n][s]
  BY DEF EmissionsAreAccountedFor, Queued, Signed
<1>1. /\ keyEmissions' = keyEmissions /\ openDispatches' = openDispatches /\ running' = running
      /\ kind \in todo[m]
      /\ todo' = [todo EXCEPT ![m] = @ \ {kind}]
      /\ mempool' = [mempool EXCEPT ![m] = @ \cup {[suite |-> running, kind |-> kind]}]
      /\ todo \in [Chains -> SUBSET Kinds] /\ mempool \in [Chains -> SUBSET Transactions]
  BY DEF Send, historyVars, CountInv, TypeOK
<1>2. Queued(n, s)' + Signed(n, s)' <= Queued(n, s) + Signed(n, s)
  <2>1. CASE n = m /\ kind = "emit" /\ running = s
    <3>1. Queued(n, s)' = 0 /\ Queued(n, s) = 1 /\ Signed(n, s)' = 1
      BY <1>1, <2>1 DEF Queued, Signed
    <3>2. Signed(n, s) \in {0, 1}
      BY DEF Signed
    <3> QED BY <3>1, <3>2
  <2>2. CASE ~(n = m /\ kind = "emit" /\ running = s)
    <3>1. Queued(n, s)' = Queued(n, s)
      BY <1>1, <2>2 DEF Queued
    <3>2. Signed(n, s)' = Signed(n, s)
      BY <1>1, <2>2 DEF Signed
    <3>3. Queued(n, s) \in {0, 1} /\ Signed(n, s) \in {0, 1}
      BY DEF Queued, Signed
    <3> QED BY <3>1, <3>2, <3>3
  <2> QED BY <2>1, <2>2
<1>3. keyEmissions[n][s] \in Nat /\ Queued(n, s) \in Nat /\ Signed(n, s) \in Nat
      /\ Queued(n, s)' \in Nat /\ Signed(n, s)' \in Nat
  BY BroadcastAssumption DEF CountInv, TypeOK, Queued, Signed
<1>4. keyEmissions'[n][s] + Queued(n, s)' + Signed(n, s)'
        <= keyEmissions[n][s] + Queued(n, s) + Signed(n, s)
  BY <1>1, <1>2, <1>3
<1> QED BY <1>1, <1>3, <1>4, CountStays DEF CountInv

\* What is mined is no longer signed, and everything beside it is void.
LEMMA MineCounts ==
  ASSUME CountInv, TypeOK', NEW m \in Chains, NEW tx \in mempool[m], Mine(m, tx)
  PROVE  EmissionsAreAccountedFor'
<1> SUFFICES ASSUME NEW n \in Chains, NEW s \in Suites
             PROVE  \/ openDispatches'[n][s] = MaxCount
                    \/ keyEmissions'[n][s] + Queued(n, s)' + Signed(n, s)' <= openDispatches'[n][s]
  BY DEF EmissionsAreAccountedFor, Queued, Signed
<1>1. /\ openDispatches' = openDispatches
      /\ Queued(n, s)' = Queued(n, s)
      /\ mempool' = [mempool EXCEPT ![m] = {}]
      /\ mempool \in [Chains -> SUBSET Transactions]
      /\ tx \in Transactions
      /\ \/ tx.kind = "deploy" /\ MineDeploy(m, tx.suite)
         \/ tx.kind = "emit" /\ MineEmission(m, tx.suite)
  BY DEF Mine, Queued, CountInv, TypeOK
<1>2. /\ keyEmissions \in [Chains -> [Suites -> 0 .. MaxCount]] /\ MaxCount \in Nat
      /\ Queued(n, s) \in Nat /\ Signed(n, s) \in {0, 1} /\ Signed(n, s)' \in {0, 1}
      /\ keyEmissions'[n][s] \in Nat
  BY BroadcastAssumption DEF CountInv, TypeOK, Queued, Signed
<1>3. Signed(n, s)' <= Signed(n, s)
  <2>1. n = m => Signed(n, s)' = 0
    BY <1>1 DEF Signed
  <2>2. n # m => Signed(n, s)' = Signed(n, s)
    BY <1>1 DEF Signed
  <2> QED BY <1>2, <2>1, <2>2
<1>4. keyEmissions'[n][s] + Signed(n, s)' <= keyEmissions[n][s] + Signed(n, s)
  <2>1. CASE tx.kind = "emit" /\ n = m /\ s = tx.suite
    <3>1. tx = [suite |-> s, kind |-> "emit"]
      BY <1>1, <2>1 DEF Transactions
    <3>2. Signed(n, s) = 1 /\ Signed(n, s)' = 0
      BY <1>1, <2>1, <3>1 DEF Signed
    <3>3. keyEmissions'[n][s] = Saturate(keyEmissions[n][s])
      BY <1>1, <1>2, <2>1 DEF MineEmission
    <3> QED BY <1>2, <3>2, <3>3 DEF Saturate
  <2>2. CASE ~(tx.kind = "emit" /\ n = m /\ s = tx.suite)
    <3>1. keyEmissions'[n][s] = keyEmissions[n][s]
      BY <1>1, <1>2, <2>2 DEF MineEmission, MineDeploy
    <3> QED BY <1>2, <1>3, <3>1
  <2> QED BY <2>1, <2>2
<1>5. keyEmissions[n][s] \in Nat
  BY <1>2
<1>6. keyEmissions'[n][s] + Queued(n, s)' + Signed(n, s)'
        <= keyEmissions[n][s] + Queued(n, s) + Signed(n, s)
  BY <1>1, <1>2, <1>4, <1>5
<1> QED BY <1>1, <1>2, <1>6, CountStays DEF CountInv

\* Every other step counts nothing, and queues or signs nothing.
LEMMA OthersCount ==
  ASSUME CountInv, TypeOK', UNCHANGED <<mempool, keyEmissions, openDispatches>>,
         UNCHANGED <<running, todo>> \/ (running' = NoSuite /\ todo' = [n \in Chains |-> {}])
  PROVE  EmissionsAreAccountedFor'
<1> SUFFICES ASSUME NEW n \in Chains, NEW s \in Suites
             PROVE  \/ openDispatches'[n][s] = MaxCount
                    \/ keyEmissions'[n][s] + Queued(n, s)' + Signed(n, s)' <= openDispatches'[n][s]
  BY DEF EmissionsAreAccountedFor, Queued, Signed
<1>1. Signed(n, s)' = Signed(n, s) /\ keyEmissions'[n][s] = keyEmissions[n][s]
  BY DEF Signed
<1>2. Queued(n, s)' <= Queued(n, s)
  BY DEF Queued
<1>3. keyEmissions[n][s] \in Nat /\ Queued(n, s) \in Nat /\ Queued(n, s)' \in Nat /\ Signed(n, s) \in Nat
  BY BroadcastAssumption DEF CountInv, TypeOK, Queued, Signed
<1>4. keyEmissions'[n][s] + Queued(n, s)' + Signed(n, s)'
        <= keyEmissions[n][s] + Queued(n, s) + Signed(n, s)
  BY <1>1, <1>2, <1>3
<1> QED BY <1>1, <1>3, <1>4, CountStays DEF CountInv

LEMMA StepCounts == IInv /\ EmissionsAreAccountedFor /\ [Next]_vars => EmissionsAreAccountedFor'
<1> SUFFICES ASSUME IInv, EmissionsAreAccountedFor, [Next]_vars PROVE EmissionsAreAccountedFor'
  OBVIOUS
<1>1. TypeOK' /\ CountInv
  BY StepType DEF IInv, CountInv
<1>2. CASE \E s \in Suites, networks \in DeployNetworks : Dispatch(s, networks)
  BY <1>1, <1>2, DispatchCounts
<1>3. CASE \E n \in Chains, kind \in Kinds : Send(n, kind)
  BY <1>1, <1>3, SendCounts
<1>4. CASE \E n \in Chains : \E tx \in mempool[n] : Mine(n, tx)
  BY <1>1, <1>4, MineCounts
<1>5. CASE Finish
  <2>1. \A n \in Chains : todo[n] = {}
    BY <1>5 DEF Finish
  <2>2. todo = [n \in Chains |-> {}]
    BY <1>1, <2>1 DEF CountInv, TypeOK
  <2>3. /\ UNCHANGED <<mempool, keyEmissions, openDispatches>>
        /\ running' = NoSuite /\ todo' = [n \in Chains |-> {}]
    BY <1>5, <2>2 DEF Finish, historyVars
  <2> QED BY <1>1, <2>3, OthersCount
<1>6. CASE Fail \/ Die
  <2>1. /\ UNCHANGED <<mempool, keyEmissions, openDispatches>>
        /\ running' = NoSuite /\ todo' = [n \in Chains |-> {}]
    BY <1>6 DEF Fail, Die, Abandon
  <2> QED BY <1>1, <2>1, OthersCount
<1>7. CASE \/ \E n \in Chains, what \in {"factory", "metaboard"} : Arrive(n, what)
           \/ \E n \in Chains, s \in Suites : AnyoneDeploys(n, s)
           \/ \E n \in Chains, s \in Described : AnyoneEmits(n, s)
           \/ \E n \in Chains, s \in Described : Declare(n, s) \/ Misdeclare(n, s) \/ Undeclare(n, s)
           \/ UNCHANGED vars
  <2>1. UNCHANGED <<mempool, keyEmissions, openDispatches, running, todo>>
    BY <1>7 DEF Arrive, AnyoneDeploys, AnyoneEmits, Declare, Misdeclare, Undeclare, vars,
       dispatchVars, historyVars
  <2> QED BY <1>1, <2>1, OthersCount
<1> QED BY <1>2, <1>3, <1>4, <1>5, <1>6, <1>7 DEF Next

\* No retry, replay or overtaken transaction emits a meta once more than
\* dispatches were accepted to emit it.
THEOREM EmissionsAreCountedTheorem == Spec => []EmissionsAreCounted
<1>1. Init => EmissionsAreAccountedFor
  BY BroadcastAssumption DEF Init, EmissionsAreAccountedFor, Queued, Signed
<1>2. IInv /\ EmissionsAreAccountedFor => EmissionsAreCounted
  <2> SUFFICES ASSUME TypeOK, EmissionsAreAccountedFor, NEW n \in Chains, NEW s \in Suites
               PROVE  keyEmissions[n][s] <= openDispatches[n][s]
    BY DEF IInv, EmissionsAreCounted
  <2>1. /\ keyEmissions[n][s] \in 0 .. MaxCount /\ openDispatches[n][s] \in 0 .. MaxCount
        /\ MaxCount \in Nat /\ Queued(n, s) \in Nat /\ Signed(n, s) \in Nat
    BY BroadcastAssumption DEF TypeOK, Queued, Signed
  <2>2. \/ openDispatches[n][s] = MaxCount
        \/ keyEmissions[n][s] + Queued(n, s) + Signed(n, s) <= openDispatches[n][s]
    BY DEF EmissionsAreAccountedFor
  <2> QED BY <2>1, <2>2
<1> QED BY <1>1, <1>2, StepCounts, Invariant, PTL DEF Spec
====
