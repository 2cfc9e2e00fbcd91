---------------------------- MODULE BlockSearch -----------------------------
(***************************************************************************)
(* src/lib/LibBlockSearch.sol: the search of a fork's history for the      *)
(* block a contract's code appeared in (findDeployBlock), or a read first  *)
(* gave an answer in (findTransitionBlock).  One action per roll of the    *)
(* fork, so the fork is somewhere else than it was between any two.        *)
(*                                                                         *)
(* A history gives each block what the target answers there.  "none" is an *)
(* account with no code: its code hash is zero, and a call to it succeeds  *)
(* and answers nothing.  "reverts" is a contract whose read reverts.  A    *)
(* start block in the future is refused by the endpoint, and left out.     *)
(***************************************************************************)
EXTENDS Naturals

CONSTANTS
    Answers,    \* the code hashes, or the answers to the read, that there are
    MaxBlock    \* bound on the block the search is called at

ASSUME SearchAssumption ==
    /\ "none" \notin Answers
    /\ "reverts" \notin Answers
    /\ MaxBlock \in Nat

VARIABLES
    search,     \* which search this is, and what it was asked for
    history,    \* block -> what the target answers there
    pc,         \* where the call has got to
    low, high,  \* bisectFirstHoldingBlock's variables
    fork        \* block.number, as the fork has been rolled

searchVars == <<search, history, pc, low, high, fork>>

Seen == Answers \cup {"none", "reverts"}
Blocks == 0..MaxBlock

\* A zero code hash and an empty answer are what "none" gives.
Searches ==
    [kind : {"deploy", "transition"}, expected : Answers \cup {"none"},
     startBlock : Blocks, originalBlock : Blocks]

SearchInit ==
    /\ search \in Searches
    /\ search.startBlock <= search.originalBlock
    /\ history \in [Blocks -> Seen]
    /\ pc = "called"
    /\ low = search.startBlock
    /\ high = search.originalBlock
    /\ fork = search.originalBlock

\* codeHashHolds and readHolds.
holds(b) == history[b] = search.expected

\* Refused for a zero code hash, and true at block 0 of whatever holds there.
isStartBlock(b) ==
    /\ search.expected # "none"
    /\ holds(b)
    /\ b > 0 => ~holds(b - 1)

-----------------------------------------------------------------------------

\* Mutant: the search is made of a target that does not hold yet.
checkReachedCodeOnly(b) == history[b] # "none"

\* NotDeployed and UnexpectedDeployedCodeHash, or NoExpectedAnswer and
\* TransitionNotReached.
checkReached(b) ==
    /\ holds(b)
    /\ IF search.kind = "deploy" THEN history[b] # "none" ELSE search.expected # "none"

CheckReached ==
    /\ pc = "called"
    /\ IF checkReached(fork)
       THEN pc' = "checked" /\ fork' = search.startBlock
       ELSE pc' = "refused" /\ fork' = fork
    /\ UNCHANGED <<search, history, low, high>>

\* Mutant: the refusal leaves the fork at the start block.
CheckStartBlockUnrestored ==
    /\ pc = "checked"
    /\ pc' = IF holds(fork) THEN "refused" ELSE "searching"
    /\ UNCHANGED <<search, history, low, high, fork>>

\* DeployedBeforeStartBlock and TransitionBeforeStartBlock.
CheckStartBlock ==
    /\ pc = "checked"
    /\ IF holds(fork)
       THEN pc' = "refused" /\ fork' = search.originalBlock
       ELSE pc' = "searching" /\ fork' = fork
    /\ UNCHANGED <<search, history, low, high>>

\* Mutant: the block that does not hold stays in the range.
halveInclusive(mid) ==
    IF holds(mid) THEN high' = mid /\ low' = low ELSE low' = mid /\ high' = high

\* Mutant: a block that holds is taken to be after the transition.
halveExclusive(mid) ==
    IF holds(mid) THEN high' = mid - 1 /\ low' = low ELSE low' = mid + 1 /\ high' = high

halve(mid) ==
    IF holds(mid) THEN high' = mid /\ low' = low ELSE low' = mid + 1 /\ high' = high

\* One turn of the loop.
Bisect ==
    /\ pc = "searching"
    /\ low < high
    /\ LET mid == (low + high) \div 2 IN
       /\ fork' = mid
       /\ halve(mid)
    /\ UNCHANGED <<search, history, pc>>

Return ==
    /\ pc = "searching"
    /\ low >= high
    /\ pc' = "returned"
    /\ fork' = search.originalBlock
    /\ UNCHANGED <<search, history, low, high>>

SearchNext == CheckReached \/ CheckStartBlock \/ Bisect \/ Return

SearchSpec == SearchInit /\ [][SearchNext]_searchVars

\* A call runs to its end.
FairSearchSpec == SearchSpec /\ WF_searchVars(SearchNext)

-----------------------------------------------------------------------------

\* Every variable holds a value of its type.  (LibBlockSearch's variables.)
SearchTypeOK ==
    /\ search \in Searches
    /\ history \in [Blocks -> Seen]
    /\ pc \in {"called", "checked", "searching", "returned", "refused"}
    /\ low \in Blocks
    /\ high \in Blocks
    /\ fork \in Blocks

\* Once it holds it holds: what both searches require of their caller.
Monotone ==
    \A b, c \in search.startBlock..search.originalBlock : b <= c /\ holds(b) => holds(c)

\* Whatever the history, what a search returns is a block isStartBlock agrees
\* with, after the start block and no later than the block it was called at.
\* ("`isStartBlock`'s exact condition, satisfied by construction and satisfied
\* on a non-monotone history just the same", findDeployBlock.)
ReturnsAStartBlock ==
    pc = "returned" =>
        /\ search.startBlock < low
        /\ low <= search.originalBlock
        /\ isStartBlock(low)

\* On a monotone history it is the first block that holds.
ReturnsTheFirst ==
    pc = "returned" /\ Monotone =>
        \A b \in search.startBlock..search.originalBlock : holds(b) <=> b >= low

\* A search ends with the fork on the block it was called at, whether it
\* returns or is refused.
ForkIsRestored ==
    pc \in {"returned", "refused"} => fork = search.originalBlock

\* Every search ends.
SearchEnds == <>(pc \in {"returned", "refused"})
=============================================================================
