-------------------------- MODULE ApproveDelegates --------------------------
(***************************************************************************)
(* The scripts that approve or revoke one delegate of the root authority   *)
(* on many networks (src/lib/LibRegistryDelegatesApprove.sol,              *)
(* script/ApproveRegistryDelegate.sol).                                    *)
(*                                                                         *)
(* A run reads every network on a fork and signs, for each, one            *)
(* transaction over the approvals not at its target there.  What it skips  *)
(* it decided on the fork; the transaction is mined later or never, among  *)
(* the transactions of other runs.  Only the authority signs, and only the *)
(* authority's transactions move its approvals, so a network is its        *)
(* approvals and the authority's transactions for its next nonce there.    *)
(*                                                                         *)
(* An approval is a scope, or Unscoped.  A scope stands for its hash.      *)
(***************************************************************************)
EXTENDS Naturals, Sequences, Functions

CONSTANTS
    Chains,         \* the chains
    Live,           \* those that hold the registry's code at its address
    Declared,       \* the aliases the declaration supports
    Catalogue,      \* alias -> the chain the catalogue states for it
    Rpc,            \* alias -> the chain its endpoint really serves
    Authority,      \* the root authority
    Delegate,       \* the delegate the runs are about
    Scopes,         \* the canonical scopes
    Unscoped,       \* the approval that names no scope
    Goal,           \* the run the operator repeats
    Others,         \* the other runs an operator may ask for, refused ones included
    MaxOthers       \* bound on how many of those are not refused

VARIABLES
    approved,   \* chain -> the approvals the delegate holds there
    mempool,    \* chain -> the authority's transactions for its next nonce
    others      \* how many runs other than the goal were not refused

vars == <<approved, mempool, others>>

Approvals == Scopes \cup {Unscoped}

\* What a run is given: the sender, the delegate, the scopes as a list, whether
\* it is unscoped too, the target, and the networks as a list.
Ask == Others \cup {Goal}

ASSUME ConstantsAssumption ==
    /\ Live \subseteq Chains
    /\ Catalogue \in [Declared -> Chains]
    /\ Rpc \in [Declared -> Chains]
    /\ Unscoped \notin Scopes
    /\ \A ask \in Ask : ask.unscoped \in BOOLEAN /\ ask.approve \in BOOLEAN
    /\ MaxOthers \in Nat

\* A signed transaction: the approvals it calls for, and the target of each.
\* named is its run's whole list, which the code does not keep.
Transaction ==
    [calls : SUBSET Approvals, approve : BOOLEAN, named : SUBSET Approvals]

-----------------------------------------------------------------------------
(* The refusals, all before anything is signed.                            *)

named(ask) == Range(ask.scopes) \cup (IF ask.unscoped THEN {Unscoped} ELSE {})

\* NoScopes, a scope that is not canonical, DuplicateScope.
hashScopes(ask) ==
    /\ ask.scopes # <<>> \/ ask.unscoped
    /\ Range(ask.scopes) \subseteq Scopes
    /\ IsInjective(ask.scopes)

\* NoNetworks, NetworkNotDeclared, DuplicateNetwork.
selectNetworks(selected) ==
    /\ selected # <<>>
    /\ Range(selected) \subseteq Declared
    /\ IsInjective(selected)

\* SenderNotAuthority, ZeroDelegate, then the scopes and the networks.
checkInputs(ask) ==
    /\ ask.sender = Authority
    /\ ask.delegate = Delegate
    /\ hashScopes(ask)
    /\ selectNetworks(ask.selected)

\* UnexpectedChainId, UnexpectedRegistryCodeHash.
checkChain(alias) == Rpc[alias] = Catalogue[alias] /\ Rpc[alias] \in Live

-----------------------------------------------------------------------------
(* The run.                                                                *)

\* Mutant: the unscoped approval is asked for only when no scope is.
callsOfScopesFirst(chain, ask) ==
    {a \in named(ask) :
        /\ (a \in approved[chain]) # ask.approve
        /\ a = Unscoped => ask.scopes = <<>>}

\* Mutant: what is approved is skipped, whatever the target.
callsOfUnapproved(chain, ask) == {a \in named(ask) : a \notin approved[chain]}

\* The approvals not at the target: everything else is SKIP.
callsOf(chain, ask) == {a \in named(ask) : (a \in approved[chain]) # ask.approve}

transactionOf(chain, ask) ==
    [calls |-> callsOf(chain, ask), approve |-> ask.approve, named |-> named(ask)]

\* The chains a run acts on.
ChainsOf(ask) == {Rpc[alias] : alias \in Range(ask.selected)}

\* Every network is forked and simulated before anything is signed, and one
\* refusal reverts the whole; a network with nothing to call gets nothing.
approveOnNetworks(ask) ==
    /\ checkInputs(ask)
    /\ \A alias \in Range(ask.selected) : checkChain(alias)
    /\ mempool' = [chain \in Chains |->
           IF chain \in ChainsOf(ask) /\ callsOf(chain, ask) # {}
           THEN mempool[chain] \cup {transactionOf(chain, ask)}
           ELSE mempool[chain]]
    /\ UNCHANGED approved

RunGoal == approveOnNetworks(Goal) /\ UNCHANGED others

RunOther ==
    /\ others < MaxOthers
    /\ \E ask \in Others : approveOnNetworks(ask)
    /\ others' = others + 1

\* The read-back of verify, on fresh forks.
checkApprovalOnNetworks(ask) ==
    /\ hashScopes(ask)
    /\ selectNetworks(ask.selected)
    /\ \A alias \in Range(ask.selected) :
           /\ checkChain(alias)
           /\ \A a \in named(ask) : a \in approved[Rpc[alias]] <=> ask.approve

-----------------------------------------------------------------------------
(* The networks.                                                           *)

\* approveV5, revokeV5 and their unscoped forms, one call after the other.
performed(transaction, held) ==
    IF transaction.approve THEN held \cup transaction.calls ELSE held \ transaction.calls

\* One transaction takes the nonce and the others for it are void.  Its calls
\* are one multicall, and none of them can revert on its own.
Land(chain, transaction) ==
    /\ approved' = [approved EXCEPT ![chain] = performed(transaction, @)]
    /\ mempool' = [mempool EXCEPT ![chain] = {}]
    /\ UNCHANGED others

\* Refused at the device, or lost.
Drop(chain, transaction) ==
    /\ mempool' = [mempool EXCEPT ![chain] = @ \ {transaction}]
    /\ UNCHANGED <<approved, others>>

\* The authority sends something else with the nonce.
NonceTaken(chain) ==
    /\ mempool[chain] # {}
    /\ mempool' = [mempool EXCEPT ![chain] = {}]
    /\ UNCHANGED <<approved, others>>

\* No delegate is approved when the registry reaches a chain.
Init ==
    /\ approved = [chain \in Chains |-> {}]
    /\ mempool = [chain \in Chains |-> {}]
    /\ others = 0

Next ==
    \/ RunGoal
    \/ RunOther
    \/ \E chain \in Chains :
           \/ \E transaction \in mempool[chain] :
                  Land(chain, transaction) \/ Drop(chain, transaction)
           \/ NonceTaken(chain)

Spec == Init /\ [][Next]_vars

OfGoal(transaction) ==
    transaction.named = named(Goal) /\ transaction.approve = Goal.approve

\* The operator repeats the goal; nothing is left in a mempool for ever; and
\* of the goal's transactions that keep being sent to a chain, one is mined.
Fairness ==
    /\ WF_vars(RunGoal)
    /\ \A chain \in Chains :
           /\ WF_vars(\E transaction \in mempool[chain] : ~OfGoal(transaction) /\
                  (Land(chain, transaction) \/ Drop(chain, transaction)))
           /\ SF_vars(\E transaction \in mempool[chain] :
                  OfGoal(transaction) /\ Land(chain, transaction))

FairSpec == Spec /\ Fairness

-----------------------------------------------------------------------------
(* What the scripts promise.                                               *)

\* Every variable holds a value of its type, and nothing is signed for a chain
\* that does not hold the registry.
TypeOK ==
    /\ approved \in [Chains -> SUBSET Approvals]
    /\ mempool \in [Chains -> SUBSET Transaction]
    /\ \A chain \in Chains \ Live : approved[chain] = {} /\ mempool[chain] = {}
    /\ others \in 0..MaxOthers

\* Whatever was signed, whenever it is mined and whatever was mined before it,
\* it brings every approval its run named to the run's target, those the run
\* skipped on its fork included, and touches no other; and the device was
\* asked only for calls that still change something.  (approveOnSelectedChain:
\* the skipped calls are not in the transaction.)
LandedRunsReachTarget ==
    \A chain \in Chains : \A transaction \in mempool[chain] :
        LET held == approved[chain]
            after == performed(transaction, held) IN
        /\ \A a \in transaction.named : a \in after <=> transaction.approve
        /\ \A a \in Approvals \ transaction.named : a \in after <=> a \in held
        /\ transaction.calls # {}
        /\ \A a \in transaction.calls : (a \in held) # transaction.approve

\* A run that stopped partway is fixed by running it again: repeated, it brings
\* every network to its target and keeps it there, although earlier runs with
\* another target may still have transactions to be mined.
RunsConverge == <>[]checkApprovalOnNetworks(Goal)
=============================================================================
