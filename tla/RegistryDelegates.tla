-------------------------- MODULE RegistryDelegates --------------------------
(***************************************************************************)
(* The delegation that MigrationRegistry and ConfigRegistry share          *)
(* (src/abstract/RegistryDelegates.sol).  An account approves a delegate   *)
(* to write under it, within one scope or unscoped.  The two approvals are *)
(* independent storage; a write is accepted on either.                     *)
(*                                                                         *)
(* The contract's two virtual hooks, checkAccount and checkScope, are the  *)
(* constants KeyedAccounts and KeyedScopes: the accounts and the scopes    *)
(* that the concrete registry keys.  A call that the code refuses reverts  *)
(* and changes nothing, so here it is a step that is not enabled.          *)
(***************************************************************************)

CONSTANTS
    Accounts,       \* the addresses that can send a transaction
    ZeroAddress,    \* address(0), which sends nothing
    Scopes,         \* every scope a caller may name, bytes32(0) included
    KeyedAccounts,  \* the accounts the concrete registry's checkAccount admits
    KeyedScopes,    \* the scopes its checkScope admits
    Delegations     \* the <<account, delegate>> pairs that calls may name

VARIABLES
    sApproved,          \* account -> scope -> the delegates approved within it
    sApprovedUnscoped   \* account -> the delegates approved unscoped

delegateVars == <<sApproved, sApprovedUnscoped>>

Addresses == Accounts \cup {ZeroAddress}

DelegatesTypeOK ==
    /\ sApproved \in [Addresses -> [Scopes -> SUBSET Accounts]]
    /\ sApprovedUnscoped \in [Addresses -> SUBSET Accounts]

DelegatesInit ==
    /\ sApproved = [account \in Addresses |-> [scope \in Scopes |-> {}]]
    /\ sApprovedUnscoped = [account \in Addresses |-> {}]

-----------------------------------------------------------------------------
(* The guards.                                                             *)

checkDelegateKey(delegate) == delegate # ZeroAddress

checkAccount(account) == account \in KeyedAccounts

checkScope(account, scope) == account \in KeyedAccounts /\ scope \in KeyedScopes

\* Mutant: the scope is left out of the key the approval is read at.
checkWriteAnyScope(sender, account, scope) ==
    /\ checkAccount(account)
    /\ \/ sender = account
       \/ \E other \in Scopes : sender \in sApproved[account][other]
       \/ sender \in sApprovedUnscoped[account]

\* Reached by every write of both registries, before anything about the write.
checkWrite(sender, account, scope) ==
    /\ checkAccount(account)
    /\ \/ sender = account
       \/ sender \in sApproved[account][scope]
       \/ sender \in sApprovedUnscoped[account]

-----------------------------------------------------------------------------
(* The four writes, each keyed by the caller.                              *)

approveV5(sender, scope, delegate) ==
    /\ checkScope(sender, scope)
    /\ checkDelegateKey(delegate)
    /\ sApproved' = [sApproved EXCEPT ![sender][scope] = @ \cup {delegate}]
    /\ UNCHANGED sApprovedUnscoped

revokeV5(sender, scope, delegate) ==
    /\ checkScope(sender, scope)
    /\ checkDelegateKey(delegate)
    /\ sApproved' = [sApproved EXCEPT ![sender][scope] = @ \ {delegate}]
    /\ UNCHANGED sApprovedUnscoped

approveUnscopedV5(sender, delegate) ==
    /\ checkDelegateKey(delegate)
    /\ sApprovedUnscoped' = [sApprovedUnscoped EXCEPT ![sender] = @ \cup {delegate}]
    /\ UNCHANGED sApproved

revokeUnscopedV5(sender, delegate) ==
    /\ checkDelegateKey(delegate)
    /\ sApprovedUnscoped' = [sApprovedUnscoped EXCEPT ![sender] = @ \ {delegate}]
    /\ UNCHANGED sApproved

\* Some account changes one of its own approvals.
DelegationStep ==
    \E pair \in Delegations :
        \/ \E scope \in Scopes : approveV5(pair[1], scope, pair[2])
        \/ \E scope \in Scopes : revokeV5(pair[1], scope, pair[2])
        \/ approveUnscopedV5(pair[1], pair[2])
        \/ revokeUnscopedV5(pair[1], pair[2])
=============================================================================
