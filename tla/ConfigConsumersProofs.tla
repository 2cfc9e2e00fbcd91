------------------------ MODULE ConfigConsumersProofs ------------------------
(***************************************************************************)
(* Proofs, for every set of authorities, names, values, types and          *)
(* consumers, of what ConfigRegistry and its consumers promise.            *)
(*                                                                         *)
(* The registry's part is an invariant of every registry step, whoever     *)
(* takes it, so it is proved once and used for the registry alone and for  *)
(* the registry with its consumers.                                        *)
(***************************************************************************)
EXTENDS ConfigConsumers, TLAPS

\* The last bind of a key: the one every other bind of it comes before.
IsLastBind(i, authority, name) ==
    /\ i \in BindsOf(authority, name)
    /\ \A j \in BindsOf(authority, name) : j <= i

\* A bound key has a last bind.
BoundKeysHaveALastBind ==
    \A key \in Keys : isRegistered(key[1], key[2]) => \E i \in Nat : IsLastBind(i, key[1], key[2])

\* No bind of a key is later than the moment the key reads as.
NoBindIsLater ==
    \A i \in DOMAIN registers :
        registers[i].at <= sBindings[registers[i].authority][registers[i].name].registeredAt

\* The inductive invariant of the registry.
RegistryInv ==
    /\ TypeOK
    /\ Len(registers) <= MaxRegisters
    /\ ReadIsLastRegister
    /\ MomentIdentifiesBinding
    /\ BoundKeysHaveALastBind
    /\ NoBindIsLater

\* The inductive invariant of the registry and its consumers.
ConsumersInv ==
    /\ RegistryInv
    /\ ConsumersTypeOK
    /\ \A c \in Resolved : snapshots[c].seen <= Len(registers)
    /\ SnapshotsAreWhatWasBound
    /\ SafeValuesStoodLongEnough

\* What a name reads as after a Register event, and its key.
BindingOf(event) ==
    [value |-> event.value, registeredAt |-> event.at, valueTypeHash |-> event.valueType]

KeyOf(event) == <<event.authority, event.name>>

\* Whether the event's authority let its sender bind.
MayBind(event) ==
    \/ event.sender = event.authority
    \/ event.sender \in sApproved[event.authority][event.name]
    \/ event.sender \in sApprovedUnscoped[event.authority]

\* What an accepted bind does.
Binds(event) ==
    /\ event.at = now
    /\ MayBind(event)
    /\ sBindings[event.authority][event.name].registeredAt < now
    /\ Len(registers) < MaxRegisters
    /\ sBindings' = [sBindings EXCEPT ![event.authority][event.name] = BindingOf(event)]
    /\ registers' = Append(registers, event)
    /\ UNCHANGED <<sApproved, sApprovedUnscoped, now>>

\* A step that binds nothing.
BindsNothing == UNCHANGED <<sBindings, registers>>

-----------------------------------------------------------------------------
(* What a registry step is.                                                *)

LEMMA DelegatesTyped ==
    ASSUME TypeOK, Delegates!DelegationStep
    PROVE  Delegates!DelegatesTypeOK'
<1>1. PICK pair \in Delegations :
          \/ \E scope \in Names : Delegates!approveV5(pair[1], scope, pair[2])
          \/ \E scope \in Names : Delegates!revokeV5(pair[1], scope, pair[2])
          \/ Delegates!approveUnscopedV5(pair[1], pair[2])
          \/ Delegates!revokeUnscopedV5(pair[1], pair[2])
  BY DEF Delegates!DelegationStep
<1>2. pair[1] \in Accounts /\ pair[2] \in Addresses
  BY ConstantsAssumption
<1>3. pair[2] # ZeroAddress => pair[2] \in Accounts
  BY <1>2 DEF Addresses
<1>a. /\ sApproved \in [Addresses -> [Names -> SUBSET Accounts]]
      /\ sApprovedUnscoped \in [Addresses -> SUBSET Accounts]
  BY DEF TypeOK, Delegates!DelegatesTypeOK, Delegates!Addresses, Addresses
<1>b. SUFFICES /\ sApproved' \in [Addresses -> [Names -> SUBSET Accounts]]
               /\ sApprovedUnscoped' \in [Addresses -> SUBSET Accounts]
  BY DEF Delegates!DelegatesTypeOK, Delegates!Addresses, Addresses
<1>4. CASE \E scope \in Names : Delegates!approveV5(pair[1], scope, pair[2])
  BY <1>2, <1>3, <1>4, <1>a DEF Delegates!approveV5, Delegates!checkDelegateKey, Addresses
<1>5. CASE \E scope \in Names : Delegates!revokeV5(pair[1], scope, pair[2])
  BY <1>2, <1>3, <1>5, <1>a DEF Delegates!revokeV5, Delegates!checkDelegateKey, Addresses
<1>6. CASE Delegates!approveUnscopedV5(pair[1], pair[2])
  BY <1>2, <1>3, <1>6, <1>a
     DEF Delegates!approveUnscopedV5, Delegates!checkDelegateKey, Addresses
<1>7. CASE Delegates!revokeUnscopedV5(pair[1], pair[2])
  BY <1>2, <1>3, <1>7, <1>a
     DEF Delegates!revokeUnscopedV5, Delegates!checkDelegateKey, Addresses
<1> QED
  BY <1>1, <1>4, <1>5, <1>6, <1>7

\* The code's checks come to Binds.
LEMMA RegisterLemma ==
    ASSUME TypeOK, RegisterStep
    PROVE  \E event \in Register : Binds(event)
<1>1. PICK sender \in Accounts, call \in Calls :
          registerV5(sender, call.authority, call.name, call.valueType, call.value)
  BY DEF RegisterStep
<1> DEFINE event == [sender |-> sender, authority |-> call.authority, name |-> call.name,
                     valueType |-> call.valueType, value |-> call.value, at |-> now]
<1>2. /\ call.authority \in Addresses
      /\ call.name \in Names
      /\ call.valueType \in Types \cup {EmptyType}
      /\ call.value \in Values \cup {EmptyValue}
  BY ConstantsAssumption
<1>3. call.valueType \in Types /\ call.value \in Values
  BY <1>1, <1>2 DEF registerV5, checkValue
<1>4. event \in Register
  BY <1>2, <1>3 DEF TypeOK, Register
<1>5. sBindings[call.authority][call.name].registeredAt < now
  <2>1. now > sBindings[call.authority][call.name].registeredAt
    BY <1>1 DEF registerV5, checkTimestamp
  <2>2. /\ sBindings[call.authority][call.name].registeredAt \in Nat
        /\ now \in Nat
    BY <1>2 DEF TypeOK, Binding
  <2> QED
    BY <2>1, <2>2
<1>6. MayBind(event)
  BY <1>1 DEF MayBind, registerV5, Delegates!checkWrite
<1>7. /\ sBindings' = [sBindings EXCEPT ![event.authority][event.name] = BindingOf(event)]
      /\ registers' = Append(registers, event)
      /\ UNCHANGED <<sApproved, sApprovedUnscoped, now>>
  BY <1>1 DEF registerV5, bind, BindingOf
<1>8. Len(registers) < MaxRegisters
  BY DEF RegisterStep
<1>9. event.at = now
  OBVIOUS
<1>10. sBindings[event.authority][event.name].registeredAt < now
  BY <1>5
<1> HIDE DEF event
<1>11. Binds(event)
  BY <1>6, <1>7, <1>8, <1>9, <1>10 DEF Binds
<1> QED
  BY <1>4, <1>11

\* Every registry step binds one key or binds nothing.
LEMMA StepLemma ==
    ASSUME TypeOK, [Next]_vars
    PROVE  \/ \E event \in Register : Binds(event)
           \/ BindsNothing
BY RegisterLemma
   DEF Next, vars, BindsNothing, DelegationStep, Tick, ClockBack

\* Each variable stays in its type.
LEMMA TypeStep ==
    ASSUME TypeOK, [Next]_vars
    PROVE  TypeOK'
<1>1. CASE RegisterStep
  <2>1. PICK event \in Register : Binds(event)
    BY <1>1, RegisterLemma
  <2>2. Delegates!DelegatesTypeOK'
    BY <2>1 DEF Binds, TypeOK, Delegates!DelegatesTypeOK
  <2>3. now \in Nat /\ now' = now
    BY <2>1 DEF Binds, TypeOK
  <2>4. sBindings' \in [Addresses -> [Names -> Binding]]
    <3>1. BindingOf(event) \in Binding
      BY <2>1 DEF Binding, BindingOf, Register
    <3> QED
      BY <2>1, <3>1 DEF Binds, TypeOK
  <2>5. registers' \in Seq(Register)
    BY <2>1 DEF Binds, TypeOK
  <2> QED
    BY <2>2, <2>3, <2>4, <2>5 DEF TypeOK
<1>2. CASE DelegationStep
  BY <1>2, DelegatesTyped DEF DelegationStep, TypeOK
<1>3. CASE Tick
  BY <1>3 DEF Tick, TypeOK, Delegates!DelegatesTypeOK
<1>4. CASE ClockBack
  BY <1>4 DEF ClockBack, TypeOK, Delegates!DelegatesTypeOK
<1>5. CASE UNCHANGED vars
  BY <1>5 DEF vars, TypeOK, Delegates!DelegatesTypeOK
<1> QED
  BY <1>1, <1>2, <1>3, <1>4, <1>5 DEF Next

-----------------------------------------------------------------------------
(* What a bind does to the log and to the table.                           *)

LEMMA LogAfter ==
    ASSUME TypeOK, NEW event \in Register, Binds(event)
    PROVE  /\ Len(registers') = Len(registers) + 1
           /\ DOMAIN registers' = 1..Len(registers) + 1
           /\ \A i \in DOMAIN registers : registers'[i] = registers[i]
           /\ registers'[Len(registers) + 1] = event
BY DEF Binds, TypeOK

LEMMA BindsOfAfter ==
    ASSUME TypeOK, NEW event \in Register, Binds(event),
           NEW key \in Keys
    PROVE  /\ key = KeyOf(event) =>
                  BindsOf(key[1], key[2])' = BindsOf(key[1], key[2]) \cup {Len(registers) + 1}
           /\ key # KeyOf(event) =>
                  BindsOf(key[1], key[2])' = BindsOf(key[1], key[2])
<1> DEFINE n == Len(registers)
<1>1. n \in Nat /\ DOMAIN registers = 1..n
  BY DEF TypeOK
<1>2. /\ DOMAIN registers' = 1..n + 1
      /\ \A i \in 1..n : registers'[i] = registers[i]
      /\ registers'[n + 1] = event
  BY <1>1, LogAfter
<1>3. key = <<key[1], key[2]>>
  BY DEF Keys
<1>4. key = KeyOf(event) <=> key[1] = event.authority /\ key[2] = event.name
  BY <1>3 DEF KeyOf
<1> HIDE DEF n
<1>5. \A i : i \in BindsOf(key[1], key[2])' <=>
                 \/ i \in BindsOf(key[1], key[2])
                 \/ i = n + 1 /\ key[1] = event.authority /\ key[2] = event.name
  BY <1>1, <1>2 DEF BindsOf
<1> QED
  BY <1>4, <1>5 DEF n

LEMMA TableAfter ==
    ASSUME TypeOK, NEW event \in Register, Binds(event),
           NEW key \in Keys
    PROVE  /\ key = KeyOf(event) => getV5(key[1], key[2])' = BindingOf(event)
           /\ key # KeyOf(event) => getV5(key[1], key[2])' = getV5(key[1], key[2])
<1>1. /\ sBindings \in [Addresses -> [Names -> Binding]]
      /\ sBindings' = [sBindings EXCEPT ![event.authority][event.name] = BindingOf(event)]
  BY DEF TypeOK, Binds
<1>2. key[1] \in Addresses /\ key[2] \in Names /\ key = <<key[1], key[2]>>
  BY DEF Keys
<1>3. CASE key = KeyOf(event)
  BY <1>1, <1>2, <1>3 DEF getV5, KeyOf
<1>4. CASE key # KeyOf(event)
  <2>1. key[1] # event.authority \/ key[2] # event.name
    BY <1>2, <1>4 DEF KeyOf
  <2> QED
    BY <1>1, <1>2, <1>4, <2>1 DEF getV5
<1> QED
  BY <1>3, <1>4

\* A key is a pair, its binds are in the log, and what it reads as is typed.
LEMMA KeysTyped ==
    ASSUME TypeOK, NEW key \in Keys
    PROVE  /\ key[1] \in Addresses
           /\ key[2] \in Names
           /\ getV5(key[1], key[2]) \in Binding
BY DEF TypeOK, Keys, getV5

LEMMA BindsAreInTheLog ==
    ASSUME TypeOK, NEW key \in Keys
    PROVE  /\ Len(registers) \in Nat
           /\ DOMAIN registers = 1..Len(registers)
           /\ \A i \in BindsOf(key[1], key[2]) : i \in Nat /\ 1 <= i /\ i <= Len(registers)
BY DEF TypeOK, BindsOf

-----------------------------------------------------------------------------
(* Each part of the registry's invariant after a bind.                     *)

LEMMA ReadAfter ==
    ASSUME TypeOK, ReadIsLastRegister,
           NEW event \in Register, Binds(event)
    PROVE  ReadIsLastRegister'
<1> DEFINE n == Len(registers)
           Holds(key) ==
               /\ isRegistered(key[1], key[2]) <=> BindsOf(key[1], key[2]) # {}
               /\ BindsOf(key[1], key[2]) = {} => getV5(key[1], key[2]) = NoBinding
               /\ \A i \in BindsOf(key[1], key[2]) :
                      (\A j \in BindsOf(key[1], key[2]) : j <= i) =>
                          /\ getV5(key[1], key[2]).value = registers[i].value
                          /\ getV5(key[1], key[2]).registeredAt = registers[i].at
                          /\ getV5(key[1], key[2]).valueTypeHash = registers[i].valueType
<1>1. SUFFICES ASSUME NEW key \in Keys
               PROVE  Holds(key)'
  BY DEF ReadIsLastRegister
<1>2. Holds(key)
  BY DEF ReadIsLastRegister
<1>3. isRegistered(key[1], key[2])' <=> getV5(key[1], key[2])'.value # EmptyValue
  BY DEF isRegistered, getV5
<1>4. isRegistered(key[1], key[2]) <=> getV5(key[1], key[2]).value # EmptyValue
  BY DEF isRegistered, getV5
<1>5. CASE key = KeyOf(event)
  <2>1. getV5(key[1], key[2])' = BindingOf(event)
    BY <1>5, TableAfter
  <2>2. isRegistered(key[1], key[2])'
    BY <1>3, <2>1, ConstantsAssumption DEF BindingOf, Register
  <2>3. BindsOf(key[1], key[2])' = BindsOf(key[1], key[2]) \cup {n + 1}
    BY <1>5, BindsOfAfter
  <2>4. \A i \in BindsOf(key[1], key[2]) : i \in Nat /\ i <= n /\ n \in Nat
    BY BindsAreInTheLog
  <2>5. \A i \in BindsOf(key[1], key[2])' :
            (\A j \in BindsOf(key[1], key[2])' : j <= i) => i = n + 1
    <3> HIDE DEF n
    <3> QED
      BY <2>3, <2>4
  <2>6. registers'[n + 1] = event
    BY LogAfter
  <2>7. BindsOf(key[1], key[2])' # {}
    BY <2>3
  <2> HIDE DEF n
  <2> QED
    BY <2>1, <2>2, <2>5, <2>6, <2>7 DEF BindingOf
<1>6. CASE key # KeyOf(event)
  <2>1. /\ getV5(key[1], key[2])' = getV5(key[1], key[2])
        /\ BindsOf(key[1], key[2])' = BindsOf(key[1], key[2])
    BY <1>6, TableAfter, BindsOfAfter
  <2>2. \A i \in BindsOf(key[1], key[2]) : registers'[i] = registers[i]
    BY LogAfter DEF BindsOf
  <2> QED
    BY <1>2, <1>3, <1>4, <2>1, <2>2
<1> QED
  BY <1>5, <1>6

LEMMA MomentAfter ==
    ASSUME TypeOK, MomentIdentifiesBinding, NoBindIsLater,
           NEW event \in Register, Binds(event)
    PROVE  MomentIdentifiesBinding'
<1>1. /\ now \in Nat
      /\ event.at = now
      /\ Len(registers) \in Nat
      /\ DOMAIN registers = 1..Len(registers)
      /\ \A i \in DOMAIN registers : registers[i] \in Register
  BY DEF Binds, TypeOK
<1>2. /\ sBindings[event.authority][event.name].registeredAt \in Nat
      /\ sBindings[event.authority][event.name].registeredAt < now
  BY DEF Binds, TypeOK, Binding, Register
<1>3. \A i \in DOMAIN registers :
          registers[i].authority = event.authority /\ registers[i].name = event.name =>
              registers[i].at < now
  <2> SUFFICES ASSUME NEW i \in DOMAIN registers,
                      registers[i].authority = event.authority, registers[i].name = event.name
               PROVE  registers[i].at < now
    OBVIOUS
  <2>1. registers[i].at <= sBindings[event.authority][event.name].registeredAt
    BY DEF NoBindIsLater
  <2>2. registers[i].at \in Nat
    BY <1>1 DEF Register
  <2> QED
    BY <1>1, <1>2, <2>1, <2>2
<1>4. now > 0
  BY <1>1, <1>2
<1>5. \A i \in DOMAIN registers' :
          \/ i \in DOMAIN registers /\ registers'[i] = registers[i]
          \/ i = Len(registers) + 1 /\ registers'[i] = event
  BY <1>1, LogAfter
<1>6. \A i \in DOMAIN registers' : registers'[i].at > 0
  BY <1>1, <1>4, <1>5 DEF MomentIdentifiesBinding
<1>7. ASSUME NEW i \in DOMAIN registers', NEW j \in DOMAIN registers', i < j,
             registers'[i].authority = registers'[j].authority,
             registers'[i].name = registers'[j].name
      PROVE  registers'[i].at < registers'[j].at
  <2>1. i \in DOMAIN registers /\ registers'[i] = registers[i]
    <3>1. DOMAIN registers' = 1..Len(registers) + 1
      BY LogAfter
    <3> QED
      BY <1>1, <1>5, <1>7, <3>1
  <2>2. CASE j \in DOMAIN registers /\ registers'[j] = registers[j]
    BY <1>7, <2>1, <2>2 DEF MomentIdentifiesBinding
  <2>3. CASE registers'[j] = event
    BY <1>1, <1>3, <1>7, <2>1, <2>3
  <2> QED
    BY <1>5, <2>2, <2>3
<1> QED
  BY <1>6, <1>7 DEF MomentIdentifiesBinding

LEMMA LastAfter ==
    ASSUME TypeOK, BoundKeysHaveALastBind,
           NEW event \in Register, Binds(event)
    PROVE  BoundKeysHaveALastBind'
<1> SUFFICES ASSUME NEW key \in Keys, isRegistered(key[1], key[2])'
             PROVE  \E i \in Nat : IsLastBind(i, key[1], key[2])'
  BY DEF BoundKeysHaveALastBind
<1>1. CASE key = KeyOf(event)
  <2> DEFINE n == Len(registers)
  <2>1. BindsOf(key[1], key[2])' = BindsOf(key[1], key[2]) \cup {n + 1}
    BY <1>1, BindsOfAfter
  <2>2. n \in Nat /\ \A i \in BindsOf(key[1], key[2]) : i \in Nat /\ i <= n
    BY BindsAreInTheLog
  <2> HIDE DEF n
  <2>3. \A j \in BindsOf(key[1], key[2])' : j <= n + 1
    BY <2>1, <2>2
  <2>4. n + 1 \in BindsOf(key[1], key[2])' /\ n + 1 \in Nat
    BY <2>1, <2>2
  <2> QED
    BY <2>3, <2>4 DEF IsLastBind
<1>2. CASE key # KeyOf(event)
  <2>1. /\ getV5(key[1], key[2])' = getV5(key[1], key[2])
        /\ BindsOf(key[1], key[2])' = BindsOf(key[1], key[2])
    BY <1>2, TableAfter, BindsOfAfter
  <2>2. isRegistered(key[1], key[2])
    BY <2>1 DEF isRegistered, getV5
  <2>3. PICK i \in Nat : IsLastBind(i, key[1], key[2])
    BY <2>2 DEF BoundKeysHaveALastBind
  <2> QED
    BY <2>1, <2>3 DEF IsLastBind
<1> QED
  BY <1>1, <1>2

LEMMA LaterAfter ==
    ASSUME TypeOK, NoBindIsLater,
           NEW event \in Register, Binds(event)
    PROVE  NoBindIsLater'
<1> SUFFICES ASSUME NEW i \in DOMAIN registers'
             PROVE  registers'[i].at <=
                        sBindings'[registers'[i].authority][registers'[i].name].registeredAt
  BY DEF NoBindIsLater
<1>1. /\ now \in Nat
      /\ Len(registers) \in Nat
      /\ DOMAIN registers = 1..Len(registers)
  BY DEF TypeOK
<1>2. CASE i = Len(registers) + 1
  <2>1. registers'[i] = event /\ event.at = now
    BY <1>2, LogAfter DEF Binds
  <2>2. sBindings'[event.authority][event.name].registeredAt = now
    BY <2>1 DEF Binds, TypeOK, BindingOf, Register
  <2> QED
    BY <1>1, <2>1, <2>2
<1>3. CASE i \in DOMAIN registers
  <2> DEFINE key == <<registers[i].authority, registers[i].name>>
  <2>1. registers[i] \in Register /\ registers'[i] = registers[i] /\ key \in Keys
    <3>1. registers[i] \in Register
      BY <1>3 DEF TypeOK
    <3>2. registers'[i] = registers[i]
      BY <1>3, LogAfter
    <3> QED
      BY <3>1, <3>2 DEF Register, Keys
  <2>2. registers[i].at \in Nat /\ getV5(key[1], key[2]).registeredAt \in Nat
    BY <2>1, KeysTyped DEF Register, Binding
  <2>3. registers[i].at <= getV5(key[1], key[2]).registeredAt
    BY <1>3 DEF NoBindIsLater, getV5
  <2>4. CASE key = KeyOf(event)
    <3>1. getV5(key[1], key[2])'.registeredAt = now
      <4>1. getV5(key[1], key[2])' = BindingOf(event)
        BY <2>1, <2>4, TableAfter
      <4>2. BindingOf(event).registeredAt = event.at /\ event.at = now
        BY DEF BindingOf, Binds
      <4> QED
        BY <4>1, <4>2
    <3>2. getV5(key[1], key[2]).registeredAt < now
      BY <2>4 DEF Binds, getV5, KeyOf
    <3> QED
      BY <1>1, <2>1, <2>2, <2>3, <3>1, <3>2 DEF getV5
  <2>5. CASE key # KeyOf(event)
    <3>1. getV5(key[1], key[2])' = getV5(key[1], key[2])
      BY <2>1, <2>5, TableAfter
    <3> QED
      BY <2>1, <2>3, <3>1 DEF getV5
  <2> QED
    BY <2>4, <2>5
<1>4. DOMAIN registers' = 1..Len(registers) + 1
  BY LogAfter
<1> QED
  BY <1>1, <1>2, <1>3, <1>4

-----------------------------------------------------------------------------
(* The registry.                                                           *)

LEMMA RegistryInit ==
    ASSUME Init
    PROVE  RegistryInv
<1>1. TypeOK
  <2>1. Delegates!DelegatesTypeOK
    BY DEF Init, Delegates!DelegatesInit, Delegates!DelegatesTypeOK
  <2>2. NoBinding \in Binding
    BY DEF NoBinding, Binding
  <2> QED
    BY <2>1, <2>2 DEF Init, TypeOK
<1>2. Len(registers) = 0 /\ DOMAIN registers = {}
  BY DEF Init
<1>3. \A key \in Keys : /\ BindsOf(key[1], key[2]) = {}
                        /\ getV5(key[1], key[2]) = NoBinding
                        /\ ~isRegistered(key[1], key[2])
  BY <1>2 DEF Init, Keys, BindsOf, getV5, isRegistered, NoBinding
<1> QED
  BY <1>1, <1>2, <1>3, ConstantsAssumption
     DEF RegistryInv, ReadIsLastRegister, MomentIdentifiesBinding,
         BoundKeysHaveALastBind, NoBindIsLater

LEMMA RegistryStepInv ==
    ASSUME RegistryInv, [Next]_vars
    PROVE  RegistryInv'
<1>1. TypeOK'
  BY TypeStep DEF RegistryInv
<1>2. CASE BindsNothing
  BY <1>1, <1>2
     DEF BindsNothing, RegistryInv, ReadIsLastRegister, MomentIdentifiesBinding,
         BoundKeysHaveALastBind, NoBindIsLater, IsLastBind, BindsOf, getV5, isRegistered
<1>3. ASSUME NEW event \in Register, Binds(event)
      PROVE  RegistryInv'
  <2>1. Len(registers)' <= MaxRegisters
    <3>1. Len(registers) < MaxRegisters /\ Len(registers)' = Len(registers) + 1
      BY <1>3, LogAfter DEF Binds, RegistryInv
    <3>2. Len(registers) \in Nat
      BY DEF RegistryInv, TypeOK
    <3> QED
      BY <3>1, <3>2, ConstantsAssumption
  <2> QED
    BY <1>1, <1>3, <2>1, ReadAfter, MomentAfter, LastAfter, LaterAfter DEF RegistryInv
<1> QED
  BY <1>2, <1>3, StepLemma DEF RegistryInv

\* The registry's storage keeps its types, whatever is called in whatever
\* order (registerV5, the approvals and the clock).
THEOREM RegistryTypeCorrect == Spec => []TypeOK
<1>1. Init => RegistryInv
  BY RegistryInit
<1>2. RegistryInv /\ [Next]_vars => RegistryInv'
  BY RegistryStepInv
<1>3. RegistryInv => TypeOK
  BY DEF RegistryInv
<1> QED
  BY <1>1, <1>2, <1>3, PTL DEF Spec

-----------------------------------------------------------------------------
(* The registry and its consumers.                                         *)

\* Consumers take no registry step of their own.
LEMMA ConsumersStepIsRegistryStep ==
    ASSUME [ConsumersNext]_consumerVars
    PROVE  [Next]_vars
BY DEF ConsumersNext, consumerVars, RegistryStep, DeployRegistry, Construct, Next

\* Binds a consumer has seen are never changed.
LEMMA SeenStays ==
    ASSUME RegistryInv, [Next]_vars, NEW c \in Consumers,
           snapshots[c].seen <= Len(registers), snapshots[c].seen \in Nat,
           snapshots'[c] = snapshots[c]
    PROVE  /\ snapshots'[c].seen <= Len(registers')
           /\ BindsSeen(c)' = BindsSeen(c)
           /\ \A i \in BindsSeen(c) : registers'[i] = registers[i]
<1>0. TypeOK /\ Len(registers) \in Nat /\ DOMAIN registers = 1..Len(registers)
  BY DEF RegistryInv, TypeOK
<1>1. CASE BindsNothing
  BY <1>1 DEF BindsNothing, BindsSeen, BindsOf
<1>2. ASSUME NEW event \in Register, Binds(event)
      PROVE  /\ snapshots'[c].seen <= Len(registers')
             /\ BindsSeen(c)' = BindsSeen(c)
             /\ \A i \in BindsSeen(c) : registers'[i] = registers[i]
  <2>1. /\ Len(registers') = Len(registers) + 1
        /\ DOMAIN registers' = 1..Len(registers) + 1
        /\ \A i \in DOMAIN registers : registers'[i] = registers[i]
    BY <1>0, <1>2, LogAfter
  <2> QED
    BY <1>0, <2>1 DEF BindsSeen, BindsOf
<1> QED
  BY <1>0, <1>1, <1>2, StepLemma

\* What resolve answers is the last bind of the consumer's name.
LEMMA ResolveAnswers ==
    ASSUME RegistryInv, NEW key \in Keys, isRegistered(key[1], key[2])
    PROVE  /\ getV5(key[1], key[2]).value \in Values
           /\ \E i \in BindsOf(key[1], key[2]) :
                  /\ \A j \in BindsOf(key[1], key[2]) : j <= i
                  /\ registers[i].value = getV5(key[1], key[2]).value
                  /\ registers[i].valueType = getV5(key[1], key[2]).valueTypeHash
<1>1. getV5(key[1], key[2]).value \in Values
  BY KeysTyped DEF RegistryInv, isRegistered, getV5, Binding
<1>2. PICK i \in Nat : IsLastBind(i, key[1], key[2])
  BY DEF RegistryInv, BoundKeysHaveALastBind
<1> QED
  BY <1>1, <1>2 DEF IsLastBind, RegistryInv, ReadIsLastRegister

\* What the registry does leaves what consumers hold true.
LEMMA RegistryStepKeepsConsumers ==
    ASSUME ConsumersInv, [Next]_vars, UNCHANGED <<snapshots, code>>
    PROVE  ConsumersInv'
<1>1. RegistryInv /\ RegistryInv' /\ TypeOK'
  BY RegistryStepInv DEF ConsumersInv, RegistryInv
<1>2. ConsumersTypeOK'
  BY <1>1 DEF ConsumersInv, ConsumersTypeOK
<1>3. \A c \in Resolved :
          /\ c \in Consumers
          /\ snapshots[c] \in Snapshot
          /\ snapshots[c].seen \in Nat
          /\ snapshots[c].seen <= Len(registers)
  BY ConstantsAssumption DEF ConsumersInv, ConsumersTypeOK, Resolved, Snapshot
<1>4. Resolved' = Resolved
  BY DEF Resolved
<1>5. \A c \in Resolved :
          /\ snapshots'[c] = snapshots[c]
          /\ snapshots'[c].seen <= Len(registers')
          /\ BindsSeen(c)' = BindsSeen(c)
          /\ \A i \in BindsSeen(c) : registers'[i] = registers[i]
  BY <1>1, <1>3, SeenStays
<1>6. SnapshotsAreWhatWasBound'
  BY <1>4, <1>5 DEF ConsumersInv, SnapshotsAreWhatWasBound
<1>7. SafeValuesStoodLongEnough'
  BY <1>4, <1>5 DEF ConsumersInv, SafeValuesStoodLongEnough
<1> QED
  BY <1>1, <1>2, <1>4, <1>5, <1>6, <1>7 DEF ConsumersInv

\* A consumer constructed now holds what its name reads as now.
LEMMA ConstructKeepsConsumers ==
    ASSUME ConsumersInv, NEW c \in Consumers, Construct(c)
    PROVE  ConsumersInv'
<1> DEFINE read == Reads[c]
           key == <<read.authority, read.name>>
<1>1. /\ read.authority \in Addresses
      /\ read.name \in Names
      /\ read.minAge \in Nat
      /\ read.safe \in BOOLEAN
      /\ key \in Keys
  BY ReadsAssumption DEF Keys
<1>2. /\ isRegistered(read.authority, read.name)
      /\ getV5(read.authority, read.name).valueTypeHash = read.valueTypeHash
      /\ read.safe => /\ read.minAge # 0
                      /\ checkAge(getV5(read.authority, read.name).registeredAt, read.minAge)
  BY DEF Construct, resolve, resolveSafe
<1>3. /\ snapshots' = [snapshots EXCEPT ![c] =
             [value |-> getV5(read.authority, read.name).value, at |-> now,
              seen |-> Len(registers)]]
      /\ UNCHANGED <<vars, code>>
  BY DEF Construct
<1>4. /\ RegistryInv
      /\ TypeOK
      /\ snapshots \in [Consumers -> Snapshot \cup {Unresolved}]
      /\ Len(registers) \in 0..MaxRegisters
      /\ now \in Nat
  BY ConstantsAssumption DEF ConsumersInv, ConsumersTypeOK, RegistryInv, TypeOK
<1>5. RegistryInv'
  BY <1>3, <1>4, RegistryStepInv DEF vars
<1>6. PICK i \in BindsOf(key[1], key[2]) :
          /\ \A j \in BindsOf(key[1], key[2]) : j <= i
          /\ registers[i].value = getV5(key[1], key[2]).value
          /\ registers[i].valueType = getV5(key[1], key[2]).valueTypeHash
          /\ getV5(key[1], key[2]).value \in Values
  BY <1>1, <1>2, <1>4, ResolveAnswers
<1>7. /\ snapshots'[c].value = getV5(key[1], key[2]).value
      /\ snapshots'[c].at = now
      /\ snapshots'[c].seen = Len(registers)
      /\ \A other \in Consumers \ {c} : snapshots'[other] = snapshots[other]
      /\ registers' = registers
  BY <1>3, <1>4 DEF vars
<1>8. ConsumersTypeOK'
  <2>1. [value |-> getV5(read.authority, read.name).value, at |-> now,
         seen |-> Len(registers)] \in Snapshot
    BY <1>4, <1>6 DEF Snapshot
  <2>2. snapshots' \in [Consumers -> Snapshot \cup {Unresolved}]
    BY <1>3, <1>4, <2>1
  <2> QED
    BY <1>3, <1>5, <2>2 DEF ConsumersInv, ConsumersTypeOK, RegistryInv
<1>9. /\ BindsSeen(c)' = BindsOf(key[1], key[2])
      /\ \A other \in Consumers \ {c} : BindsSeen(other)' = BindsSeen(other)
  <2>1. \A j \in BindsOf(key[1], key[2]) : j <= Len(registers)
    BY <1>1, <1>4, BindsAreInTheLog
  <2> QED
    BY <1>7, <2>1 DEF BindsSeen, BindsOf
<1>10. \A other \in Resolved' \ {c} : other \in Resolved /\ other \in Consumers \ {c}
  BY <1>7 DEF Resolved
<1>11. \A other \in Resolved' : snapshots'[other].seen <= Len(registers')
  BY <1>4, <1>7, <1>10 DEF ConsumersInv
<1>12. SnapshotsAreWhatWasBound'
  <2> SUFFICES ASSUME NEW other \in Resolved'
               PROVE  \E k \in BindsSeen(other)' :
                          /\ \A j \in BindsSeen(other)' : j <= k
                          /\ registers'[k].value = snapshots'[other].value
                          /\ registers'[k].valueType = Reads[other].valueTypeHash
    BY DEF SnapshotsAreWhatWasBound
  <2>1. CASE other = c
    BY <1>2, <1>6, <1>7, <1>9, <2>1
  <2>2. CASE other # c
    BY <1>7, <1>9, <1>10, <2>2 DEF ConsumersInv, SnapshotsAreWhatWasBound
  <2> QED
    BY <2>1, <2>2
<1>13. SafeValuesStoodLongEnough'
  <2> SUFFICES ASSUME NEW other \in Resolved', Reads[other].safe
               PROVE  /\ Reads[other].minAge > 0
                      /\ \A k \in BindsSeen(other)' :
                             registers'[k].at + Reads[other].minAge < snapshots'[other].at
    BY DEF SafeValuesStoodLongEnough
  <2>1. CASE other = c
    <3>1. read.minAge \in Nat /\ read.minAge > 0
      BY <1>1, <1>2, <2>1
    <3>2. getV5(key[1], key[2]).registeredAt \in Nat
      BY <1>1, <1>4, KeysTyped DEF Binding
    <3>3. getV5(key[1], key[2]).registeredAt + read.minAge < now
      BY <1>1, <1>2, <1>4, <2>1, <3>2 DEF checkAge
    <3>4. ASSUME NEW k \in BindsOf(key[1], key[2])
          PROVE  registers[k].at \in Nat /\ registers[k].at <= getV5(key[1], key[2]).registeredAt
      <4>1. /\ k \in DOMAIN registers
            /\ registers[k].authority = key[1]
            /\ registers[k].name = key[2]
        BY DEF BindsOf
      <4>2. registers[k] \in Register
        BY <1>4, <4>1 DEF TypeOK
      <4> QED
        BY <1>4, <4>1, <4>2 DEF RegistryInv, NoBindIsLater, getV5, Register
    <3> QED
      BY <1>4, <1>7, <1>9, <2>1, <3>1, <3>2, <3>3, <3>4
  <2>2. CASE other # c
    BY <1>7, <1>9, <1>10, <2>2 DEF ConsumersInv, SafeValuesStoodLongEnough
  <2> QED
    BY <2>1, <2>2
<1> QED
  BY <1>5, <1>8, <1>11, <1>12, <1>13 DEF ConsumersInv

LEMMA ConsumersInitInv ==
    ASSUME ConsumersInit
    PROVE  ConsumersInv
<1>1. RegistryInv
  BY RegistryInit DEF ConsumersInit
<1>2. Resolved = {}
  BY DEF ConsumersInit, Resolved
<1>3. ConsumersTypeOK
  BY <1>1 DEF ConsumersInit, ConsumersTypeOK, RegistryInv
<1> QED
  BY <1>1, <1>2, <1>3
     DEF ConsumersInv, SnapshotsAreWhatWasBound, SafeValuesStoodLongEnough

\* The invariant is inductive.
LEMMA ConsumersStepInv ==
    ASSUME ConsumersInv, [ConsumersNext]_consumerVars
    PROVE  ConsumersInv'
<1>1. CASE RegistryStep
  BY <1>1, RegistryStepKeepsConsumers DEF RegistryStep, Next
<1>2. CASE DeployRegistry
  <2>1. UNCHANGED <<vars, snapshots>> /\ code' = TRUE
    BY <1>2 DEF DeployRegistry
  <2> QED
    BY <2>1
       DEF ConsumersInv, RegistryInv, ConsumersTypeOK, TypeOK, Delegates!DelegatesTypeOK, vars,
           ReadIsLastRegister, MomentIdentifiesBinding, BoundKeysHaveALastBind, NoBindIsLater,
           IsLastBind, BindsOf, BindsSeen, getV5, isRegistered, Resolved,
           SnapshotsAreWhatWasBound, SafeValuesStoodLongEnough
<1>3. CASE \E c \in Consumers : Construct(c)
  BY <1>3, ConstructKeepsConsumers
<1>4. CASE UNCHANGED consumerVars
  BY <1>4, RegistryStepKeepsConsumers DEF consumerVars
<1> QED
  BY <1>1, <1>2, <1>3, <1>4 DEF ConsumersNext

LEMMA ConsumersInvariant == ConsumersSpec => []ConsumersInv
BY ConsumersInitInv, ConsumersStepInv, PTL DEF ConsumersSpec

\* The registry's storage and every snapshot keep their types: what is bound
\* is never empty and never untyped (registerV5, resolve).
THEOREM ConsumersTypeCorrect == ConsumersSpec => []ConsumersTypeOK
<1>1. ConsumersInv => ConsumersTypeOK
  BY DEF ConsumersInv
<1> QED
  BY <1>1, ConsumersInvariant, PTL

\* What getV5 answers is the last Register of the name under the authority.
THEOREM ReadIsLastRegisterTheorem == ConsumersSpec => []ReadIsLastRegister
<1>1. ConsumersInv => ReadIsLastRegister
  BY DEF ConsumersInv, RegistryInv
<1> QED
  BY <1>1, ConsumersInvariant, PTL

\* The moments of a key's binds are positive and strictly increase, on a clock
\* that steps back included (registerV5's TimestampNotAfterBinding).
THEOREM MomentIdentifiesBindingTheorem == ConsumersSpec => []MomentIdentifiesBinding
<1>1. ConsumersInv => MomentIdentifiesBinding
  BY DEF ConsumersInv, RegistryInv
<1> QED
  BY <1>1, ConsumersInvariant, PTL

\* A consumer holds the value bound last when it was constructed, as the type
\* it decodes (LibConfigRegistry.resolve).
THEOREM SnapshotsAreWhatWasBoundTheorem == ConsumersSpec => []SnapshotsAreWhatWasBound
<1>1. ConsumersInv => SnapshotsAreWhatWasBound
  BY DEF ConsumersInv
<1> QED
  BY <1>1, ConsumersInvariant, PTL

\* A value resolved safely had stood for longer than its minAge
\* (LibConfigRegistry.resolveSafe).
THEOREM SafeValuesStoodLongEnoughTheorem == ConsumersSpec => []SafeValuesStoodLongEnough
<1>1. ConsumersInv => SafeValuesStoodLongEnough
  BY DEF ConsumersInv
<1> QED
  BY <1>1, ConsumersInvariant, PTL

\* A bind enters the log only by its authority's hand or by a delegate that
\* held its approval, for that name or unscoped, at that moment (checkWrite).
THEOREM BindingsAreAuthorisedTheorem == ConsumersSpec => BindingsAreAuthorised
<1>1. ASSUME ConsumersInv, [ConsumersNext]_consumerVars
      PROVE  [registers' # registers =>
                LET event == Last(registers') IN
                \/ event.sender = event.authority
                \/ event.sender \in sApproved[event.authority][event.name]
                \/ event.sender \in sApprovedUnscoped[event.authority]]_vars
  <2>1. TypeOK /\ [Next]_vars
    BY <1>1, ConsumersStepIsRegistryStep DEF ConsumersInv, RegistryInv
  <2>2. CASE BindsNothing
    BY <2>2 DEF BindsNothing
  <2>3. ASSUME NEW event \in Register, Binds(event)
        PROVE  Last(registers') = event /\ MayBind(event)
    <3>1. Len(registers') = Len(registers) + 1 /\ registers'[Len(registers) + 1] = event
      BY <2>1, <2>3, LogAfter
    <3> QED
      BY <2>3, <3>1 DEF Binds, Last
  <2> QED
    BY <2>1, <2>2, <2>3, StepLemma DEF MayBind
<1> QED
  BY <1>1, ConsumersInvariant, PTL DEF ConsumersSpec, BindingsAreAuthorised
=============================================================================
