----------------------- MODULE ApproveDelegatesProofs -----------------------
(***************************************************************************)
(* LandedRunsReachTarget for every set of chains, scopes and runs.         *)
(*                                                                         *)
(* A transaction is what its run saw: its calls are exactly the named      *)
(* approvals that are not at the target.  That stays true while it can be  *)
(* mined, because whatever moves an approval takes the nonce.              *)
(***************************************************************************)
EXTENDS ApproveDelegates, TLAPS

\* What a transaction calls for is what its chain still lacks of its target.
MempoolIsCurrent ==
    \A chain \in Chains : \A transaction \in mempool[chain] :
        /\ transaction.calls =
               {a \in transaction.named : (a \in approved[chain]) # transaction.approve}
        /\ transaction.calls # {}

IInv == TypeOK /\ MempoolIsCurrent

\* A run that is not refused names only approvals there are.
LEMMA NamedAreApprovals ==
    ASSUME NEW ask \in Ask, checkInputs(ask)
    PROVE  named(ask) \in SUBSET Approvals /\ ask.approve \in BOOLEAN
    BY ConstantsAssumption DEF checkInputs, hashScopes, named, Approvals

\* The chains a run that is not refused acts on are live ones.
LEMMA ChainsAreLive ==
    ASSUME NEW ask \in Ask, checkInputs(ask),
           \A alias \in Range(ask.selected) : checkChain(alias)
    PROVE  ChainsOf(ask) \subseteq Live
    BY DEF ChainsOf, checkChain

LEMMA InitIInv == Init => IInv
    BY ConstantsAssumption DEF Init, IInv, TypeOK, MempoolIsCurrent

\* A run signs for the approvals as they are.
LEMMA RunKeepsIInv ==
    ASSUME IInv, NEW ask \in Ask, approveOnNetworks(ask), others' \in 0..MaxOthers
    PROVE  IInv'
    <1>1. /\ checkInputs(ask)
          /\ \A alias \in Range(ask.selected) : checkChain(alias)
          /\ approved' = approved
        BY DEF approveOnNetworks
    <1>2. ChainsOf(ask) \subseteq Live
        BY <1>1, ChainsAreLive
    <1>3. /\ mempool' \in [Chains -> SUBSET Transaction]
          /\ \A chain \in Chains \ Live : mempool'[chain] = {}
          /\ \A chain \in Chains : \A transaction \in mempool'[chain] :
                 \/ transaction \in mempool[chain]
                 \/ transaction = transactionOf(chain, ask) /\ callsOf(chain, ask) # {}
        <2>1. \A chain \in Chains : transactionOf(chain, ask) \in Transaction
            BY <1>1, NamedAreApprovals DEF transactionOf, Transaction, callsOf
        <2> QED
            BY <1>2, <2>1 DEF approveOnNetworks, IInv, TypeOK
    <1>4. TypeOK'
        BY <1>1, <1>3 DEF IInv, TypeOK
    <1>5. MempoolIsCurrent'
        BY <1>1, <1>3 DEF IInv, MempoolIsCurrent, transactionOf, callsOf
    <1> QED
        BY <1>4, <1>5 DEF IInv

\* A transaction that is mined leaves nothing in its chain's mempool.
LEMMA LandKeepsIInv ==
    ASSUME IInv, NEW chain \in Chains, NEW transaction \in mempool[chain],
           Land(chain, transaction)
    PROVE  IInv'
    <1>1. transaction \in Transaction /\ chain \in Live /\ approved[chain] \in SUBSET Approvals
        BY DEF IInv, TypeOK
    <1>2. performed(transaction, approved[chain]) \in SUBSET Approvals
        BY <1>1 DEF performed, Transaction
    <1>3. TypeOK'
        BY <1>1, <1>2 DEF IInv, TypeOK, Land
    <1>4. MempoolIsCurrent'
        <2> SUFFICES ASSUME NEW other \in Chains, NEW left \in mempool'[other]
                     PROVE  /\ left.calls =
                                   {a \in left.named : (a \in approved'[other]) # left.approve}
                            /\ left.calls # {}
            BY DEF MempoolIsCurrent
        <2>1. other # chain /\ left \in mempool[other] /\ approved'[other] = approved[other]
            BY DEF IInv, TypeOK, Land
        <2> QED
            BY <2>1 DEF IInv, MempoolIsCurrent
    <1> QED
        BY <1>3, <1>4 DEF IInv

\* What leaves a mempool unmined takes nothing else with it.
LEMMA LossKeepsIInv ==
    ASSUME IInv, UNCHANGED <<approved, others>>,
           mempool' \in [Chains -> SUBSET Transaction],
           \A chain \in Chains : mempool'[chain] \subseteq mempool[chain]
    PROVE  IInv'
    <1>1. TypeOK'
        BY DEF IInv, TypeOK
    <1>2. MempoolIsCurrent'
        BY DEF IInv, MempoolIsCurrent
    <1> QED
        BY <1>1, <1>2 DEF IInv

LEMMA NextIInv == IInv /\ [Next]_vars => IInv'
    <1> SUFFICES ASSUME IInv, [Next]_vars PROVE IInv'
        OBVIOUS
    <1>0. others \in 0..MaxOthers /\ MaxOthers \in Nat
        BY ConstantsAssumption DEF IInv, TypeOK
    <1>1. CASE RunGoal
        <2>1. others' \in 0..MaxOthers
            BY <1>0, <1>1 DEF RunGoal
        <2> QED
            BY <1>1, <2>1, RunKeepsIInv DEF RunGoal, Ask
    <1>2. CASE RunOther
        <2>1. others' \in 0..MaxOthers
            BY <1>0, <1>2 DEF RunOther
        <2> QED
            BY <1>2, <2>1, RunKeepsIInv DEF RunOther, Ask
    <1>3. ASSUME NEW chain \in Chains, NEW transaction \in mempool[chain],
                 Land(chain, transaction)
          PROVE  IInv'
        BY <1>3, LandKeepsIInv
    <1>4. ASSUME NEW chain \in Chains, NEW transaction \in mempool[chain],
                 Drop(chain, transaction)
          PROVE  IInv'
        BY <1>4, LossKeepsIInv DEF Drop, IInv, TypeOK
    <1>5. ASSUME NEW chain \in Chains, NonceTaken(chain)
          PROVE  IInv'
        BY <1>5, LossKeepsIInv DEF NonceTaken, IInv, TypeOK
    <1>6. CASE UNCHANGED vars
        BY <1>6 DEF vars, IInv, TypeOK, MempoolIsCurrent
    <1> QED
        BY <1>1, <1>2, <1>3, <1>4, <1>5, <1>6 DEF Next

LEMMA Invariant == Spec => []IInv
    BY InitIInv, NextIInv, PTL DEF Spec

\* Every variable of ApproveDelegates stays in its type.
THEOREM TypeCorrect == Spec => []TypeOK
    <1>1. IInv => TypeOK
        BY DEF IInv
    <1> QED
        BY <1>1, Invariant, PTL

\* A transaction of a run, mined whenever it can be, brings all its run named
\* to the target and nothing else.
THEOREM LandedRunsReachTargetTheorem == Spec => []LandedRunsReachTarget
    <1>1. IInv => LandedRunsReachTarget
        <2> SUFFICES ASSUME IInv, NEW chain \in Chains, NEW transaction \in mempool[chain]
                     PROVE  LET held == approved[chain]
                                after == performed(transaction, held) IN
                            /\ \A a \in transaction.named : a \in after <=> transaction.approve
                            /\ \A a \in Approvals \ transaction.named : a \in after <=> a \in held
                            /\ transaction.calls # {}
                            /\ \A a \in transaction.calls : (a \in held) # transaction.approve
            BY DEF LandedRunsReachTarget
        <2>1. /\ transaction.approve \in BOOLEAN
              /\ transaction.calls # {}
              /\ transaction.calls =
                     {a \in transaction.named : (a \in approved[chain]) # transaction.approve}
            BY DEF IInv, TypeOK, MempoolIsCurrent, Transaction
        <2>2. CASE transaction.approve = TRUE
            BY <2>1, <2>2 DEF performed
        <2>3. CASE transaction.approve = FALSE
            BY <2>1, <2>3 DEF performed
        <2> QED
            BY <2>1, <2>2, <2>3
    <1> QED
        BY <1>1, Invariant, PTL
=============================================================================
