--------------------------- MODULE RegisterConfig ---------------------------
(***************************************************************************)
(* The script that binds one name under one authority on many networks     *)
(* (src/lib/LibConfigRegistryRegister.sol, script/RegisterConfig.sol).     *)
(*                                                                         *)
(* A run forks every selected network, checks and simulates on the forks,  *)
(* and only then signs, so between what it read and where its bind lands   *)
(* the chain moves on: others bind the name, approvals are revoked, blocks *)
(* pass, transactions are lost.  The run can be repeated at any moment,    *)
(* also while its earlier transactions are still pending.                  *)
(*                                                                         *)
(* Each chain is its registry's storage at the one name.  Of the clock a   *)
(* bind needs only whether the last bind is in the current block.          *)
(***************************************************************************)
EXTENDS Naturals, Sequences, SequencesExt, FiniteSetsExt, Functions

CONSTANTS
    Chains,         \* the chains
    Live,           \* those that hold the registry's code at its address
    Declared,       \* the aliases the declaration supports
    Catalogue,      \* alias -> the chain the catalogue states for it
    Rpc,            \* alias -> the chain its endpoint really serves
    Selections,     \* the network lists an operator may give, wrong ones included
    Authority,      \* the authority bound under
    Delegate,       \* the account it may approve
    Name,           \* the name
    Target,         \* the binding to make, [value, valueType]
    Others,         \* the bindings others make of the name
    Unbound,        \* what an unbound name reads as
    MaxPending,     \* bound on the transactions pending at once
    MaxRebinds      \* bound on the binds made by others

VARIABLES
    bindings,   \* chain -> the binding of Name under Authority
    stamped,    \* the chains whose last bind is in their current block
    scoped,     \* chain -> the delegates approved for Name
    unscoped,   \* chain -> the delegates approved unscoped
    pending,    \* transaction -> copies signed and not yet mined
    rebinds     \* how many binds others have made

vars == <<bindings, stamped, scoped, unscoped, pending, rebinds>>

Senders == {Authority, Delegate}
Bindings == {Target, Unbound} \cup Others

ASSUME ConstantsAssumption ==
    /\ Live \subseteq Chains
    /\ Catalogue \in [Declared -> Chains]
    /\ Rpc \in [Declared -> Chains]
    /\ Unbound \notin {Target} \cup Others
    /\ MaxPending \in Nat
    /\ MaxRebinds \in Nat

\* A signed bind.  checked: every network its run selected had passed every
\* check.  raced: the name was bound on its chain since the run forked it.
Transaction ==
    [alias : Declared, sender : Senders, checked : BOOLEAN, raced : BOOLEAN]

\* The registry's delegates on one chain, at the one name.
Delegates(chain) == INSTANCE RegistryDelegates WITH
    Accounts <- Senders,
    ZeroAddress <- Unbound,
    Scopes <- {Name},
    KeyedAccounts <- Senders,
    KeyedScopes <- {Name},
    Delegations <- {},
    sApproved <- [account \in {Authority} |-> [scope \in {Name} |-> scoped[chain]]],
    sApprovedUnscoped <- [account \in {Authority} |-> unscoped[chain]]

Init ==
    /\ bindings = [chain \in Chains |-> Unbound]
    /\ stamped = {}
    /\ scoped = [chain \in Chains |-> {}]
    /\ unscoped = [chain \in Chains |-> {}]
    /\ pending = [transaction \in Transaction |-> 0]
    /\ rebinds = 0

Pending == {transaction \in Transaction : pending[transaction] > 0}

Copies == FoldFunction(+, 0, pending)

-----------------------------------------------------------------------------
(* The script.                                                             *)

\* NoNetworks, NetworkNotDeclared, DuplicateNetwork.
selectNetworks(selected) ==
    /\ selected # <<>>
    /\ Range(selected) \subseteq Declared
    /\ IsInjective(selected)

\* UnexpectedChainId, and the registry's code hash.
checkChain(alias) == Rpc[alias] = Catalogue[alias] /\ Rpc[alias] \in Live

\* SenderNotApproved: the scoped approval alone is read.
checkSender(chain, sender) == sender = Authority \/ sender \in scoped[chain]

\* Mutant: the type is left out of the comparison.
isBoundAnyType(chain) ==
    bindings[chain] # Unbound /\ bindings[chain].value = Target.value

\* Value and type both.
isBound(chain) == bindings[chain] = Target

\* The bind is simulated on the fork, where the registry refuses a second
\* bind in one block.
simulates(chain) == isBound(chain) \/ chain \notin stamped

checkNetwork(alias, sender) ==
    checkChain(alias) /\ checkSender(Rpc[alias], sender) /\ simulates(Rpc[alias])

\* A run that reverts on any network signs nothing on every network.
checkNetworks(selected, sender) ==
    \A alias \in Range(selected) : checkNetwork(alias, sender)

Bind(alias, selected, sender) ==
    [alias |-> alias, sender |-> sender, raced |-> FALSE,
     checked |-> checkNetworks(selected, sender)]

\* Mutant: every network is bound, whatever it is bound to.
recordedAlways(selected, sender) ==
    {Bind(alias, selected, sender) : alias \in
        {x \in Range(selected) : checkNetwork(x, sender)}}

\* What simulation records: a bind on each network not bound to the target.
recorded(selected, sender) ==
    {Bind(alias, selected, sender) : alias \in
        {x \in Range(selected) : checkNetwork(x, sender) /\ ~isBound(Rpc[x])}}

\* Every recorded bind is signed.
signRecorded(selected, sender) ==
    /\ pending' = [transaction \in Transaction |->
           pending[transaction] +
               IF transaction \in recorded(selected, sender) THEN 1 ELSE 0]
    /\ Copies' <= MaxPending
    /\ UNCHANGED <<bindings, stamped, scoped, unscoped, rebinds>>

\* Mutant: a network that fails its check is passed over.
registerOnEachNetwork(selected, sender) ==
    /\ selectNetworks(selected)
    /\ signRecorded(selected, sender)

\* One run: every fork is made and every network simulated before anything
\* is signed.  The chains are independent, so that their forks are made one
\* after the other tells nothing apart.
registerOnNetworks(selected, sender) ==
    /\ selectNetworks(selected)
    /\ checkNetworks(selected, sender)
    /\ signRecorded(selected, sender)

\* The read-back of checkRegisteredOnNetworks on fresh forks, which resolves
\* the name as a consumer does: bound, as the target's type, to its value.
checkRegisteredOnNetworks(selected) ==
    /\ selectNetworks(selected)
    /\ \A alias \in Range(selected) :
           LET bound == bindings[Rpc[alias]] IN
           /\ checkChain(alias)
           /\ bound # Unbound
           /\ bound.valueType = Target.valueType
           /\ bound.value = Target.value

-----------------------------------------------------------------------------
(* The chains.                                                             *)

\* The name is bound on a chain: everything pending there has been raced.
Raced(chain, left) ==
    [transaction \in Transaction |->
        IF Rpc[transaction.alias] # chain THEN left[transaction]
        ELSE IF transaction.raced
        THEN left[transaction] + left[[transaction EXCEPT !.raced = FALSE]]
        ELSE 0]

\* A pending bind is mined and the registry accepts it.
Land(transaction) ==
    LET chain == Rpc[transaction.alias] IN
    /\ pending[transaction] > 0
    /\ Delegates(chain)!checkWrite(transaction.sender, Authority, Name)
    /\ chain \notin stamped
    /\ bindings' = [bindings EXCEPT ![chain] = Target]
    /\ stamped' = stamped \cup {chain}
    /\ pending' = Raced(chain, [pending EXCEPT ![transaction] = @ - 1])
    /\ UNCHANGED <<scoped, unscoped, rebinds>>

\* A signature is refused at the device, a transaction is lost, or it is
\* mined and reverts.
Drop(transaction) ==
    /\ pending[transaction] > 0
    /\ pending' = [pending EXCEPT ![transaction] = @ - 1]
    /\ UNCHANGED <<bindings, stamped, scoped, unscoped, rebinds>>

\* The authority binds the name itself, by some other route.
Rebind(chain, binding) ==
    /\ rebinds < MaxRebinds
    /\ chain \notin stamped
    /\ bindings' = [bindings EXCEPT ![chain] = binding]
    /\ stamped' = stamped \cup {chain}
    /\ pending' = Raced(chain, pending)
    /\ rebinds' = rebinds + 1
    /\ UNCHANGED <<scoped, unscoped>>

NextBlock(chain) ==
    /\ chain \in stamped
    /\ stamped' = stamped \ {chain}
    /\ UNCHANGED <<bindings, scoped, unscoped, pending, rebinds>>

\* The authority changes what its delegate may do on one chain.
Delegation(chain) ==
    /\ \/ /\ scoped' \in {[scoped EXCEPT ![chain] = {Delegate}], [scoped EXCEPT ![chain] = {}]}
          /\ UNCHANGED unscoped
       \/ /\ unscoped' \in {[unscoped EXCEPT ![chain] = {Delegate}],
                            [unscoped EXCEPT ![chain] = {}]}
          /\ UNCHANGED scoped
    /\ UNCHANGED <<bindings, stamped, pending, rebinds>>

Next ==
    \/ \E selected \in Selections, sender \in Senders : registerOnNetworks(selected, sender)
    \/ \E transaction \in Pending : Land(transaction) \/ Drop(transaction)
    \/ \E chain \in Live :
           \/ \E binding \in Others : Rebind(chain, binding)
           \/ NextBlock(chain)
           \/ Delegation(chain)

\* The operator keeps running the script as the authority; blocks pass; no
\* transaction stays pending for ever; and of the authority's binds that keep
\* being sent to a chain that would accept them, one lands.
Fairness ==
    /\ \A selected \in Selections : SF_vars(registerOnNetworks(selected, Authority))
    /\ \A chain \in Live :
           /\ WF_vars(NextBlock(chain))
           /\ SF_vars(\E transaction \in Transaction :
                  Rpc[transaction.alias] = chain /\ transaction.sender = Authority
                      /\ Land(transaction))
    /\ \A transaction \in Transaction : WF_vars(Land(transaction) \/ Drop(transaction))

Spec == Init /\ [][Next]_vars /\ Fairness

-----------------------------------------------------------------------------
(* What the script promises.                                               *)

\* The variables hold values of their types.
TypeOK ==
    /\ bindings \in [Chains -> Bindings]
    /\ stamped \subseteq Live
    /\ scoped \in [Chains -> SUBSET {Delegate}]
    /\ unscoped \in [Chains -> SUBSET {Delegate}]
    /\ pending \in [Transaction -> 0..MaxPending]
    /\ rebinds \in 0..MaxRebinds

\* A run that one network refuses leaves no transaction on any other, and an
\* endpoint that serves another chain gets none: every signed bind belongs to
\* a run whose every network passed every check, and goes to the chain the
\* catalogue states, which holds the registry.  (LibConfigRegistryRegister, "a script that reverts signs
\* nothing".)
RefusedRunsSignNothing ==
    \A transaction \in Pending :
        /\ transaction.checked
        /\ Rpc[transaction.alias] = Catalogue[transaction.alias]
        /\ Rpc[transaction.alias] \in Live

\* A run repeated after a partial failure, or while its first transactions
\* are pending, restamps a name that already holds the target only if it was
\* bound there after the run forked that chain: a run never signs a bind that
\* it could see was made.
RedundantBindsOnlyRace ==
    \A transaction \in Pending :
        bindings[Rpc[transaction.alias]] = Target => transaction.raced

\* The selections the script does not refuse.
Runnable ==
    {selected \in Selections :
        selectNetworks(selected) /\ \A alias \in Range(selected) : checkChain(alias)}

\* Repeated by the authority, the script brings every network of a selection
\* that passes the checks to the target and keeps it there, whatever was
\* bound before, as whatever type, once others have stopped binding.
RunsConverge ==
    \A selected \in Runnable : <>[]checkRegisteredOnNetworks(selected)

\* A sender the script refuses as SenderNotApproved is one the registry would
\* refuse as NotApproved.  (LibConfigRegistryRegister, the comment of
\* SenderNotApproved.)
RefusalsAgreeWithRegistry ==
    \A chain \in Live, sender \in Senders :
        ~checkSender(chain, sender) =>
            ~Delegates(chain)!checkWrite(sender, Authority, Name)
=============================================================================
