--------------------------- MODULE ConfigConsumers ---------------------------
(***************************************************************************)
(* Contracts that resolve a name in their constructor through              *)
(* src/lib/LibConfigRegistry.sol and keep the answer, while the authority  *)
(* and its delegates rebind that name.  A deployment is sent at some       *)
(* moment and constructs at another; one that reverts may be sent again.   *)
(***************************************************************************)
EXTENDS ConfigRegistry

CONSTANTS
    Consumers,  \* the contracts that resolve a name
    Reads,      \* consumer -> [authority, name, valueTypeHash, safe, minAge]
    Unresolved  \* what a consumer not yet constructed holds

ASSUME ReadsAssumption ==
    Reads \in [Consumers -> [authority : Addresses, name : Names, valueTypeHash : Types,
                             safe : BOOLEAN, minAge : Nat]]

VARIABLES
    snapshots,  \* consumer -> what it resolved, with the block and the log it did in
    code        \* the registry's code is at the pinned address

consumerVars == <<vars, snapshots, code>>

Snapshot == [value : Values, at : Nat, seen : 0..MaxRegisters]

ConsumersInit ==
    /\ Init
    /\ snapshots = [c \in Consumers |-> Unresolved]
    /\ code = FALSE

-----------------------------------------------------------------------------

checkCodeHash == code

\* Mutant: the type the value was bound as is not compared.
resolveAnyType(authority, name, valueTypeHash) ==
    /\ checkCodeHash
    /\ isRegistered(authority, name)

\* UnexpectedConfigRegistryCodeHash, NameNotRegistered, ValueTypeMismatch.
resolve(authority, name, valueTypeHash) ==
    /\ checkCodeHash
    /\ isRegistered(authority, name)
    /\ getV5(authority, name).valueTypeHash = valueTypeHash

\* Mutant: a binding exactly minAge old is old enough.
checkAgeInclusive(registeredAt, minAge) ==
    /\ registeredAt <= now
    /\ now - registeredAt >= minAge

\* BindingStampedInFuture and BindingTooFresh.
checkAge(registeredAt, minAge) ==
    /\ registeredAt <= now
    /\ now - registeredAt > minAge

\* ZeroMinAge is refused before anything is read.
resolveSafe(authority, name, valueTypeHash, minAge) ==
    /\ minAge # 0
    /\ resolve(authority, name, valueTypeHash)
    /\ checkAge(getV5(authority, name).registeredAt, minAge)

\* A consumer is constructed, and resolves its name once.
Construct(c) ==
    LET read == Reads[c] IN
    /\ snapshots[c] = Unresolved
    /\ IF read.safe
       THEN resolveSafe(read.authority, read.name, read.valueTypeHash, read.minAge)
       ELSE resolve(read.authority, read.name, read.valueTypeHash)
    /\ snapshots' = [snapshots EXCEPT ![c] =
           [value |-> getV5(read.authority, read.name).value, at |-> now,
            seen |-> Len(registers)]]
    /\ UNCHANGED <<vars, code>>

\* The registry reaches the chain; nothing is bound before it does.
DeployRegistry ==
    /\ ~code
    /\ code' = TRUE
    /\ UNCHANGED <<vars, snapshots>>

RegistryStep ==
    /\ \/ code /\ (RegisterStep \/ DelegationStep)
       \/ Tick
       \/ ClockBack
    /\ UNCHANGED <<snapshots, code>>

ConsumersNext ==
    \/ RegistryStep
    \/ DeployRegistry
    \/ \E c \in Consumers : Construct(c)

ConsumersSpec == ConsumersInit /\ [][ConsumersNext]_consumerVars

-----------------------------------------------------------------------------
(* What a consumer can rely on.                                            *)

\* The consumers that resolved a name.
Resolved == {c \in Consumers : snapshots[c] # Unresolved}

\* The binds of the consumer's name that came before it resolved.
BindsSeen(c) ==
    {i \in BindsOf(Reads[c].authority, Reads[c].name) : i <= snapshots[c].seen}

\* The variables hold values of their types.
ConsumersTypeOK ==
    /\ TypeOK
    /\ snapshots \in [Consumers -> Snapshot \cup {Unresolved}]
    /\ code \in BOOLEAN

\* A consumer holds for ever the value that was bound last when it was
\* constructed, bound as the type it decodes: later rebinds, whoever makes
\* them, do not reach it.  (IConfigRegistryV5, "A binding moving never moves
\* anything already deployed".)
SnapshotsAreWhatWasBound ==
    \A c \in Resolved : \E i \in BindsSeen(c) :
        /\ \A j \in BindsSeen(c) : j <= i
        /\ registers[i].value = snapshots[c].value
        /\ registers[i].valueType = Reads[c].valueTypeHash

\* A value resolved through resolveSafe had been public, and the binding, for
\* longer than minAge when it was resolved: a rebind timed to land just
\* before a deployment never reaches it, on a clock that steps back included.
\* (LibConfigRegistry, "the rebind was public for that long first".)
SafeValuesStoodLongEnough ==
    \A c \in Resolved : Reads[c].safe =>
        /\ Reads[c].minAge > 0
        /\ \A i \in BindsSeen(c) : registers[i].at + Reads[c].minAge < snapshots[c].at
=============================================================================
