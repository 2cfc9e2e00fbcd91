------------------------ MODULE RegisterConfigProofs ------------------------
(***************************************************************************)
(* RefusedRunsSignNothing and RedundantBindsOnlyRace for every set of      *)
(* chains, selections and bindings.                                        *)
(*                                                                         *)
(* Both speak of the transactions that are pending, and a bind turns those *)
(* of its chain into raced ones: what is pending afterwards was pending    *)
(* before, unraced or raced, under the same alias and the same checks.     *)
(***************************************************************************)
EXTENDS RegisterConfig, TLAPS

\* Every variable holds a value of its type.
Typed ==
    /\ bindings \in [Chains -> Bindings]
    /\ stamped \subseteq Live
    /\ scoped \in [Chains -> SUBSET {Delegate}]
    /\ unscoped \in [Chains -> SUBSET {Delegate}]
    /\ pending \in [Transaction -> Nat]
    /\ rebinds \in 0..MaxRebinds

IInv == Typed /\ RefusedRunsSignNothing /\ RedundantBindsOnlyRace

\* The two promises of one pending transaction.
Sound(transaction) ==
    /\ transaction.checked
    /\ Rpc[transaction.alias] = Catalogue[transaction.alias]
    /\ Rpc[transaction.alias] \in Live
    /\ bindings[Rpc[transaction.alias]] = Target => transaction.raced

LEMMA PendingIsSound ==
    (\A transaction \in Pending : Sound(transaction))
        <=> RefusedRunsSignNothing /\ RedundantBindsOnlyRace
    BY DEF Sound, RefusedRunsSignNothing, RedundantBindsOnlyRace

-----------------------------------------------------------------------------
(* Transactions.                                                           *)

\* The transaction before the race.
LEMMA Unraced ==
    ASSUME NEW transaction \in Transaction
    PROVE  LET unraced == [transaction EXCEPT !.raced = FALSE] IN
           /\ unraced \in Transaction
           /\ unraced.alias = transaction.alias
           /\ unraced.checked = transaction.checked
    BY DEF Transaction

\* What is pending after a bind of the chain was pending before it.
LEMMA RacedWerePending ==
    ASSUME NEW chain, NEW left \in [Transaction -> Nat]
    PROVE  /\ Raced(chain, left) \in [Transaction -> Nat]
           /\ \A transaction \in Transaction : Raced(chain, left)[transaction] > 0 =>
                  \/ Rpc[transaction.alias] # chain /\ left[transaction] > 0
                  \/ /\ transaction.raced
                     /\ \E before \in Transaction :
                            /\ left[before] > 0
                            /\ before.alias = transaction.alias
                            /\ before.checked = transaction.checked
    <1> SUFFICES ASSUME NEW transaction \in Transaction
                 PROVE  /\ Raced(chain, left)[transaction] \in Nat
                        /\ Raced(chain, left)[transaction] > 0 =>
                               \/ Rpc[transaction.alias] # chain /\ left[transaction] > 0
                               \/ /\ transaction.raced
                                  /\ \E before \in Transaction :
                                         /\ left[before] > 0
                                         /\ before.alias = transaction.alias
                                         /\ before.checked = transaction.checked
        BY DEF Raced
    <1> DEFINE unraced == [transaction EXCEPT !.raced = FALSE]
    <1>1. /\ unraced \in Transaction
          /\ unraced.alias = transaction.alias
          /\ unraced.checked = transaction.checked
        BY Unraced
    <1>2. Raced(chain, left)[transaction] =
              IF Rpc[transaction.alias] # chain THEN left[transaction]
              ELSE IF transaction.raced THEN left[transaction] + left[unraced] ELSE 0
        BY DEF Raced
    <1> HIDE DEF unraced
    <1>3. left[transaction] \in Nat /\ left[unraced] \in Nat
        BY <1>1
    <1>4. CASE Rpc[transaction.alias] # chain
        BY <1>2, <1>3, <1>4
    <1>5. CASE Rpc[transaction.alias] = chain /\ ~transaction.raced
        BY <1>2, <1>5
    <1>6. CASE Rpc[transaction.alias] = chain /\ transaction.raced
        <2>1. Raced(chain, left)[transaction] = left[transaction] + left[unraced]
            BY <1>2, <1>6
        <2>2. Raced(chain, left)[transaction] > 0 => left[transaction] > 0 \/ left[unraced] > 0
            BY <1>3, <2>1
        <2> QED
            BY <1>1, <1>3, <1>6, <2>1, <2>2
    <1> QED
        BY <1>4, <1>5, <1>6

\* A bind of the chain, whoever makes it, leaves only sound transactions.
LEMMA BindKeeps ==
    ASSUME IInv, NEW chain \in Live, NEW binding \in Bindings,
           NEW left \in [Transaction -> Nat],
           \A transaction \in Transaction : left[transaction] > 0 => pending[transaction] > 0,
           bindings' = [bindings EXCEPT ![chain] = binding],
           stamped' = stamped \cup {chain},
           pending' = Raced(chain, left),
           UNCHANGED <<scoped, unscoped>>,
           rebinds' \in 0..MaxRebinds
    PROVE  IInv'
    <1>1. /\ pending' \in [Transaction -> Nat]
          /\ \A transaction \in Transaction : pending'[transaction] > 0 =>
                 \/ Rpc[transaction.alias] # chain /\ left[transaction] > 0
                 \/ /\ transaction.raced
                    /\ \E before \in Transaction :
                           /\ left[before] > 0
                           /\ before.alias = transaction.alias
                           /\ before.checked = transaction.checked
        BY RacedWerePending
    <1>2. Typed'
        BY <1>1, ConstantsAssumption DEF IInv, Typed
    <1>3. ASSUME NEW transaction \in Transaction, pending'[transaction] > 0
          PROVE  Sound(transaction)'
        <2>1. \A before \in Transaction : left[before] > 0 => Sound(before)
            BY PendingIsSound DEF IInv, Pending
        <2>2. CASE Rpc[transaction.alias] # chain /\ left[transaction] > 0
            <3>1. bindings'[Rpc[transaction.alias]] = bindings[Rpc[transaction.alias]]
                BY <2>1, <2>2, ConstantsAssumption DEF Sound, IInv, Typed
            <3> QED
                BY <2>1, <2>2, <3>1 DEF Sound
        <2>3. CASE /\ transaction.raced
                   /\ \E before \in Transaction :
                          /\ left[before] > 0
                          /\ before.alias = transaction.alias
                          /\ before.checked = transaction.checked
            <3>1. PICK before \in Transaction :
                      /\ left[before] > 0
                      /\ before.alias = transaction.alias
                      /\ before.checked = transaction.checked
                BY <2>3
            <3>2. Sound(before)
                BY <2>1, <3>1
            <3> QED
                BY <2>3, <3>1, <3>2 DEF Sound
        <2> QED
            BY <1>1, <1>3, <2>2, <2>3
    <1>4. (\A transaction \in Pending : Sound(transaction))'
        BY <1>3 DEF Pending
    <1>5. (RefusedRunsSignNothing /\ RedundantBindsOnlyRace)'
        BY <1>4 DEF Sound, RefusedRunsSignNothing, RedundantBindsOnlyRace
    <1> QED
        BY <1>2, <1>5 DEF IInv

\* A step that binds nothing and signs only what is sound keeps the promises.
LEMMA OthersKeep ==
    ASSUME IInv, Typed', bindings' = bindings,
           \A transaction \in Transaction : pending'[transaction] > 0 =>
               pending[transaction] > 0 \/ Sound(transaction)
    PROVE  IInv'
    <1>1. ASSUME NEW transaction \in Transaction, pending'[transaction] > 0
          PROVE  Sound(transaction)
        <2>1. pending[transaction] > 0 => Sound(transaction)
            BY PendingIsSound DEF IInv, Pending
        <2> QED
            BY <1>1, <2>1
    <1>2. (\A transaction \in Pending : Sound(transaction))'
        BY <1>1 DEF Pending, Sound
    <1>3. (RefusedRunsSignNothing /\ RedundantBindsOnlyRace)'
        BY <1>2 DEF Sound, RefusedRunsSignNothing, RedundantBindsOnlyRace
    <1> QED
        BY <1>3 DEF IInv

-----------------------------------------------------------------------------
(* The steps.                                                              *)

LEMMA InitIInv == Init => IInv
    <1> SUFFICES ASSUME Init PROVE IInv
        OBVIOUS
    <1>1. Typed
        BY ConstantsAssumption DEF Init, Typed, Bindings
    <1>2. Pending = {}
        BY DEF Init, Pending
    <1> QED
        BY <1>1, <1>2 DEF IInv, RefusedRunsSignNothing, RedundantBindsOnlyRace

\* A run signs a bind of a network that it has checked and that is not bound.
LEMMA RecordedAreSound ==
    ASSUME NEW selected \in Selections, NEW sender \in Senders,
           selectNetworks(selected), checkNetworks(selected, sender),
           NEW transaction \in recorded(selected, sender)
    PROVE  Sound(transaction)
    <1>1. PICK alias \in Range(selected) :
              /\ checkNetwork(alias, sender)
              /\ ~isBound(Rpc[alias])
              /\ transaction = Bind(alias, selected, sender)
        BY DEF recorded
    <1>2. /\ transaction.alias = alias
          /\ transaction.checked = checkNetworks(selected, sender)
        BY <1>1 DEF Bind
    <1>3. checkChain(alias)
        BY <1>1 DEF checkNetwork
    <1> QED
        BY <1>1, <1>2, <1>3 DEF Sound, checkChain, isBound

LEMMA RunKeeps ==
    ASSUME IInv, NEW selected \in Selections, NEW sender \in Senders,
           registerOnNetworks(selected, sender)
    PROVE  IInv'
    <1>1. /\ selectNetworks(selected) /\ checkNetworks(selected, sender)
          /\ UNCHANGED <<bindings, stamped, scoped, unscoped, rebinds>>
          /\ pending' = [transaction \in Transaction |->
                 pending[transaction] +
                     IF transaction \in recorded(selected, sender) THEN 1 ELSE 0]
        BY DEF registerOnNetworks, signRecorded
    <1>2. \A transaction \in Transaction :
              /\ pending[transaction] \in Nat
              /\ pending'[transaction] =
                     pending[transaction] +
                         IF transaction \in recorded(selected, sender) THEN 1 ELSE 0
        BY <1>1 DEF IInv, Typed
    <1>3. Typed'
        BY <1>1, <1>2 DEF IInv, Typed
    <1>4. \A transaction \in recorded(selected, sender) : Sound(transaction)
        BY <1>1, RecordedAreSound
    <1> QED
        BY <1>1, <1>2, <1>3, <1>4, OthersKeep

LEMMA LandKeeps ==
    ASSUME IInv, NEW transaction \in Pending, Land(transaction)
    PROVE  IInv'
    <1> DEFINE chain == Rpc[transaction.alias]
               left == [pending EXCEPT ![transaction] = @ - 1]
    <1>1. transaction \in Transaction /\ pending[transaction] > 0
        BY DEF Pending
    <1>2. chain \in Live
        BY DEF IInv, RefusedRunsSignNothing
    <1>3. /\ left \in [Transaction -> Nat]
          /\ \A other \in Transaction : left[other] > 0 => pending[other] > 0
        BY <1>1 DEF IInv, Typed
    <1>4. /\ bindings' = [bindings EXCEPT ![chain] = Target]
          /\ stamped' = stamped \cup {chain}
          /\ pending' = Raced(chain, left)
          /\ UNCHANGED <<scoped, unscoped, rebinds>>
        BY DEF Land
    <1>5. Target \in Bindings /\ rebinds' \in 0..MaxRebinds
        BY <1>4 DEF Bindings, IInv, Typed
    <1> HIDE DEF chain, left
    <1> QED
        BY <1>2, <1>3, <1>4, <1>5, BindKeeps

LEMMA DropKeeps ==
    ASSUME IInv, NEW transaction \in Pending, Drop(transaction)
    PROVE  IInv'
    <1>1. transaction \in Transaction /\ pending[transaction] > 0
        BY DEF Pending
    <1>2. /\ pending' \in [Transaction -> Nat]
          /\ \A other \in Transaction : pending'[other] > 0 => pending[other] > 0
        BY <1>1 DEF Drop, IInv, Typed
    <1>3. Typed' /\ bindings' = bindings
        BY <1>2 DEF Drop, IInv, Typed
    <1> QED
        BY <1>2, <1>3, OthersKeep

LEMMA RebindKeeps ==
    ASSUME IInv, NEW chain \in Live, NEW binding \in Others, Rebind(chain, binding)
    PROVE  IInv'
    <1>1. binding \in Bindings
        BY DEF Bindings
    <1>2. rebinds' \in 0..MaxRebinds
        BY ConstantsAssumption DEF Rebind, IInv, Typed
    <1>3. pending \in [Transaction -> Nat]
        BY DEF IInv, Typed
    <1> QED
        BY <1>1, <1>2, <1>3, BindKeeps DEF Rebind

LEMMA NextIInv == IInv /\ [Next]_vars => IInv'
    <1> SUFFICES ASSUME IInv, [Next]_vars PROVE IInv'
        OBVIOUS
    <1>1. ASSUME NEW chain \in Live, NextBlock(chain) PROVE IInv'
        <2>1. Typed' /\ bindings' = bindings /\ pending' = pending
            BY <1>1 DEF NextBlock, IInv, Typed
        <2> QED
            BY <2>1, OthersKeep
    <1>2. ASSUME NEW chain \in Live, Delegation(chain) PROVE IInv'
        <2>1. bindings' = bindings /\ pending' = pending
              /\ stamped' = stamped /\ rebinds' = rebinds
            BY <1>2 DEF Delegation
        <2>2. scoped' \in [Chains -> SUBSET {Delegate}]
            BY <1>2 DEF Delegation, IInv, Typed
        <2>3. unscoped' \in [Chains -> SUBSET {Delegate}]
            BY <1>2 DEF Delegation, IInv, Typed
        <2>4. Typed'
            BY <2>1, <2>2, <2>3 DEF IInv, Typed
        <2> QED
            BY <2>1, <2>4, OthersKeep
    <1>3. CASE UNCHANGED vars
        <2>1. Typed' /\ bindings' = bindings /\ pending' = pending
            BY <1>3 DEF vars, IInv, Typed
        <2> QED
            BY <2>1, OthersKeep
    <1> QED
        BY <1>1, <1>2, <1>3, RunKeeps, LandKeeps, DropKeeps, RebindKeeps DEF Next

LEMMA Invariant == Spec => []IInv
    BY InitIInv, NextIInv, PTL DEF Spec

-----------------------------------------------------------------------------

\* Every variable of RegisterConfig stays in its type; that no more than
\* MaxPending are pending is the bound of the runs.
THEOREM TypeCorrect == Spec => []Typed
    <1>1. IInv => Typed
        BY DEF IInv
    <1> QED
        BY <1>1, Invariant, PTL

\* For every set of networks, catalogue and endpoints: a bind that is pending
\* was signed by a run whose every network passed (registerOnNetworks).
THEOREM RefusedRunsSignNothingTheorem == Spec => []RefusedRunsSignNothing
    <1>1. IInv => RefusedRunsSignNothing
        BY DEF IInv
    <1> QED
        BY <1>1, Invariant, PTL

\* However runs are repeated and whatever lands in between: a bind to what is
\* bound was signed before it was bound (registerOnNetworks).
THEOREM RedundantBindsOnlyRaceTheorem == Spec => []RedundantBindsOnlyRace
    <1>1. IInv => RedundantBindsOnlyRace
        BY DEF IInv
    <1> QED
        BY <1>1, Invariant, PTL
=============================================================================
