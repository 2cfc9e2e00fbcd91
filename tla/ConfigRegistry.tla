--------------------------- MODULE ConfigRegistry ---------------------------
(***************************************************************************)
(* src/concrete/ConfigRegistry.sol on one chain: what each authority binds *)
(* each name to, and the delegates that may bind under it.                 *)
(*                                                                         *)
(* Storage is total, as Solidity has it, and an unwritten slot reads zero. *)
(* A value is opaque to the contract.  A value type is only hashed, so it  *)
(* stands for its own hash, and the empty type for the unset one.  A       *)
(* refused call is a step that is not enabled.  Metadata is emitted and    *)
(* never stored, and is left out.                                          *)
(***************************************************************************)
EXTENDS Naturals, Sequences, SequencesExt

CONSTANTS
    Accounts,       \* the addresses that can send a transaction
    ZeroAddress,    \* address(0)
    Names,          \* the names, bytes32(0) included: any word is a name
    Values,         \* the values that are not empty
    EmptyValue,     \* the value of no bytes
    Types,          \* the value types that are not empty
    EmptyType,      \* the type of no bytes, and the hash an unset slot holds
    Calls,          \* the binds a caller may send, malformed ones included
    Delegations,    \* the <<account, delegate>> pairs it may approve or revoke
    MaxTime,        \* bound on block.timestamp
    MaxRegisters    \* bound on the length of the event log

VARIABLES
    sApproved,          \* the scoped delegates (RegistryDelegates)
    sApprovedUnscoped,  \* the unscoped delegates (RegistryDelegates)
    sBindings,          \* authority -> name -> the binding
    registers,          \* the Register events, oldest first
    now                 \* block.timestamp

vars == <<sApproved, sApprovedUnscoped, sBindings, registers, now>>

Addresses == Accounts \cup {ZeroAddress}
Keys == Addresses \X Names

ASSUME ConstantsAssumption ==
    /\ ZeroAddress \notin Accounts
    /\ EmptyValue \notin Values
    /\ EmptyType \notin Types
    /\ Calls \subseteq [authority : Addresses, name : Names,
                        valueType : Types \cup {EmptyType}, value : Values \cup {EmptyValue}]
    /\ Delegations \subseteq Accounts \X Addresses
    /\ MaxTime \in Nat
    /\ MaxRegisters \in Nat

\* ConfigRegistry overrides neither hook: every account and name is keyed.
Delegates == INSTANCE RegistryDelegates WITH
    Scopes <- Names,
    KeyedAccounts <- Addresses,
    KeyedScopes <- Names

-----------------------------------------------------------------------------
(* The state.                                                              *)

Binding ==
    [value : Values \cup {EmptyValue}, registeredAt : Nat,
     valueTypeHash : Types \cup {EmptyType}]

NoBinding == [value |-> EmptyValue, registeredAt |-> 0, valueTypeHash |-> EmptyType]

\* One Register event, with the block it is in.
Register ==
    [sender : Accounts, authority : Addresses, name : Names,
     valueType : Types, value : Values, at : Nat]

Init ==
    /\ Delegates!DelegatesInit
    /\ sBindings = [authority \in Addresses |-> [name \in Names |-> NoBinding]]
    /\ registers = <<>>
    /\ now = 0

-----------------------------------------------------------------------------
(* The operations.                                                         *)

\* A name is read only while its value is not empty (NameNotRegistered).
isRegistered(authority, name) == sBindings[authority][name].value # EmptyValue

getV5(authority, name) == sBindings[authority][name]

\* EmptyValue and EmptyValueType.
checkValue(valueType, value) == value # EmptyValue /\ valueType # EmptyType

\* Mutant: a rebind in the block of the last bind is let through.
checkTimestampSameBlock(authority, name) == now >= sBindings[authority][name].registeredAt

\* TimestampNotAfterBinding.
checkTimestamp(authority, name) == now > sBindings[authority][name].registeredAt

\* The binding is assigned whole.
bind(authority, name, valueType, value) ==
    sBindings' = [sBindings EXCEPT ![authority][name] =
        [value |-> value, registeredAt |-> now, valueTypeHash |-> valueType]]

registerV5(sender, authority, name, valueType, value) ==
    /\ Delegates!checkWrite(sender, authority, name)
    /\ checkValue(valueType, value)
    /\ checkTimestamp(authority, name)
    /\ bind(authority, name, valueType, value)
    /\ registers' = Append(registers,
           [sender |-> sender, authority |-> authority, name |-> name,
            valueType |-> valueType, value |-> value, at |-> now])
    /\ UNCHANGED <<sApproved, sApprovedUnscoped, now>>

\* Some account binds a name.
RegisterStep ==
    /\ Len(registers) < MaxRegisters
    /\ \E sender \in Accounts, call \in Calls :
           registerV5(sender, call.authority, call.name, call.valueType, call.value)

\* Some account changes its own approvals.
DelegationStep ==
    /\ Delegates!DelegationStep
    /\ UNCHANGED <<sBindings, registers, now>>

\* A later block.  Several calls may land in one block.
Tick ==
    /\ now < MaxTime
    /\ now' = now + 1
    /\ UNCHANGED <<sApproved, sApprovedUnscoped, sBindings, registers>>

\* A chain whose clock steps back: the code defends against one, and the
\* tests warp the clock to it.
ClockBack ==
    /\ now > 0
    /\ now' = now - 1
    /\ UNCHANGED <<sApproved, sApprovedUnscoped, sBindings, registers>>

Next == RegisterStep \/ DelegationStep \/ Tick \/ ClockBack

Spec == Init /\ [][Next]_vars

-----------------------------------------------------------------------------
(* What the registry promises.                                             *)

\* Every variable holds a value of the storage's type.
TypeOK ==
    /\ Delegates!DelegatesTypeOK
    /\ sBindings \in [Addresses -> [Names -> Binding]]
    /\ registers \in Seq(Register)
    /\ now \in Nat

\* The positions in the log of the binds of one key.
BindsOf(authority, name) ==
    {i \in DOMAIN registers : registers[i].authority = authority /\ registers[i].name = name}

\* A name reads as bound exactly when it has been bound, and what getV5
\* answers, moment and type included, is the last Register of that name
\* under that authority, whoever else binds it and whatever the clock does.
\* (IConfigRegistryV5, "the most recent Register".)
ReadIsLastRegister ==
    \A key \in Keys :
        LET binding == getV5(key[1], key[2])
            binds == BindsOf(key[1], key[2]) IN
        /\ isRegistered(key[1], key[2]) <=> binds # {}
        /\ binds = {} => binding = NoBinding
        /\ \A i \in binds : (\A j \in binds : j <= i) =>
               /\ binding.value = registers[i].value
               /\ binding.registeredAt = registers[i].at
               /\ binding.valueTypeHash = registers[i].valueType

\* The moment identifies the binding: the binds of a key have strictly
\* increasing moments, never zero, even when the clock steps back, so a
\* reader that saw the same moment twice saw the same binding.
MomentIdentifiesBinding ==
    \A i, j \in DOMAIN registers :
        /\ registers[i].at > 0
        /\ (/\ i < j
            /\ registers[i].authority = registers[j].authority
            /\ registers[i].name = registers[j].name)
           => registers[i].at < registers[j].at

\* A bind is in the log only if the authority let its sender make it at that
\* moment, for that name or unscoped; no other authority's and no other
\* name's approval counts.
BindingsAreAuthorised ==
    [][registers' # registers =>
         LET event == Last(registers') IN
         \/ event.sender = event.authority
         \/ event.sender \in sApproved[event.authority][event.name]
         \/ event.sender \in sApprovedUnscoped[event.authority]]_vars
=============================================================================
