--------------------------- MODULE SubgraphProofs ----------------------------
(***************************************************************************)
(* What the subgraph rests on, for every value of the constants: the block *)
(* it is told to start from is one LibBlockSearch found, the types it      *)
(* parses nest no deeper than its limit, and what it indexes is what the   *)
(* registries hold.                                                        *)
(*                                                                         *)
(* The invariant of a search is the argument in the comment of             *)
(* findDeployBlock: high is only ever a block that holds, low is the start *)
(* block or one past a block that does not hold, and the start block does  *)
(* not hold.  That of the parser is that the two counts it keeps bound the *)
(* depth of what it has built.  That of the indexers has the log in the    *)
(* middle: every slot of a registry holds what the last event about it     *)
(* says (ChainInv), and every entity shows what the last event about it    *)
(* that the indexer has had says (StoreInv).                               *)
(***************************************************************************)
EXTENDS ParseAbiType, VerifyPreimages, Indexer, BlockSearch, FiniteSetTheorems, SequenceTheorems,
        WellFoundedInduction, TLAPS

-----------------------------------------------------------------------------
(* The searches of a fork's history.                                       *)

SearchIsAsked ==
    /\ search.startBlock <= search.originalBlock
    /\ pc \in {"called", "checked"} =>
           low = search.startBlock /\ high = search.originalBlock
    /\ pc = "called" => fork = search.originalBlock
    /\ pc = "checked" => fork = search.startBlock

ReachedIsChecked ==
    pc \in {"checked", "searching", "returned"} =>
        holds(search.originalBlock) /\ search.expected # "none"

RangeHoldsTheTransition ==
    pc \in {"searching", "returned"} =>
        /\ search.startBlock <= low
        /\ low <= high
        /\ high <= search.originalBlock
        /\ ~holds(search.startBlock)
        /\ holds(high)
        /\ low = search.startBlock \/ ~holds(low - 1)

SearchInv ==
    /\ SearchTypeOK
    /\ SearchIsAsked
    /\ ReachedIsChecked
    /\ RangeHoldsTheTransition
    /\ pc = "returned" => low = high
    /\ ForkIsRestored

\* The block in the middle of a range is in it, before its end.
LEMMA Middle ==
    ASSUME NEW a \in Nat, NEW b \in Nat, a < b
    PROVE  LET mid == (a + b) \div 2 IN mid \in Nat /\ a <= mid /\ mid < b
  OBVIOUS

\* A search is called in a state that keeps the invariant.
LEMMA SearchStarts == SearchInit => SearchInv
  <1> SUFFICES ASSUME SearchInit PROVE SearchInv
      OBVIOUS
  <1>1. SearchTypeOK
      BY DEF SearchInit, SearchTypeOK, Searches, Blocks
  <1> QED
      BY <1>1 DEF SearchInit, SearchInv, SearchIsAsked, ReachedIsChecked, RangeHoldsTheTransition,
                  ForkIsRestored

\* Every step of a search keeps the invariant.
LEMMA SearchStepKeeps == SearchInv /\ [SearchNext]_searchVars => SearchInv'
  <1> SUFFICES ASSUME SearchInv, [SearchNext]_searchVars PROVE SearchInv'
      OBVIOUS
  <1> USE SearchAssumption
  <1> USE DEF SearchInv, SearchIsAsked, ReachedIsChecked, RangeHoldsTheTransition, ForkIsRestored,
              holds
  <1>0. /\ search.startBlock \in Blocks
        /\ search.originalBlock \in Blocks
        /\ search.kind \in {"deploy", "transition"}
      BY DEF SearchTypeOK, Searches
  <1>1. CASE CheckReached
    <2>1. SearchTypeOK'
        BY <1>1, <1>0 DEF CheckReached, SearchTypeOK
    <2>2. checkReached(fork) => holds(search.originalBlock) /\ search.expected # "none"
        BY <1>1 DEF CheckReached, checkReached
    <2> QED
        BY <1>1, <1>0, <2>1, <2>2 DEF CheckReached, Blocks
  <1>2. CASE CheckStartBlock
    <2>1. SearchTypeOK'
        BY <1>2, <1>0 DEF CheckStartBlock, SearchTypeOK
    <2> QED
        BY <1>2, <1>0, <2>1 DEF CheckStartBlock, Blocks
  <1>3. CASE Bisect
    <2> DEFINE mid == (low + high) \div 2
    <2>1. low \in Nat /\ high \in Nat /\ low \in Blocks /\ high \in Blocks /\ low < high
        BY <1>3 DEF Bisect, SearchTypeOK, Blocks
    <2>2. mid \in Nat /\ low <= mid /\ mid < high
        BY <2>1, Middle
    <2>3. fork' = mid /\ halve(mid) /\ UNCHANGED <<search, history, pc>> /\ pc = "searching"
        BY <1>3 DEF Bisect
    <2> HIDE DEF mid
    <2>4. mid \in Blocks /\ mid + 1 \in Blocks
        BY <2>1, <2>2 DEF Blocks
    <2>5. CASE holds(mid)
      <3>1. high' = mid /\ low' = low
          BY <2>3, <2>5 DEF halve
      <3>2. SearchTypeOK'
          BY <2>3, <2>4, <3>1 DEF SearchTypeOK
      <3>3. RangeHoldsTheTransition'
          BY <2>1, <2>2, <2>3, <2>5, <3>1, <1>0 DEF Blocks
      <3> QED
          BY <2>3, <3>1, <3>2, <3>3
    <2>6. CASE ~holds(mid)
      <3>1. low' = mid + 1 /\ high' = high
          BY <2>3, <2>6 DEF halve
      <3>2. SearchTypeOK'
          BY <2>3, <2>4, <3>1 DEF SearchTypeOK
      <3>3. low' - 1 = mid
          BY <3>1, <2>2
      <3>4. RangeHoldsTheTransition'
          BY <2>1, <2>2, <2>3, <2>6, <3>1, <3>3, <1>0 DEF Blocks
      <3> QED
          BY <2>3, <3>1, <3>2, <3>4
    <2> QED
        BY <2>5, <2>6
  <1>4. CASE Return
    <2>1. SearchTypeOK'
        BY <1>4, <1>0 DEF Return, SearchTypeOK
    <2>2. low = high
        BY <1>4, <1>0 DEF Return, SearchTypeOK, Blocks
    <2> QED
        BY <1>4, <2>1, <2>2 DEF Return
  <1>5. CASE UNCHANGED searchVars
      BY <1>5 DEF searchVars, SearchTypeOK
  <1> QED
      BY <1>1, <1>2, <1>3, <1>4, <1>5 DEF SearchNext

\* Every reachable state of a search keeps the invariant.
THEOREM SearchInvariant == SearchSpec => []SearchInv
  <1> QED
      BY SearchStarts, SearchStepKeeps, PTL DEF SearchSpec

\* Every variable keeps its type.
THEOREM SearchTypeCorrect == SearchSpec => []SearchTypeOK
  <1>1. SearchInv => SearchTypeOK
      BY DEF SearchInv
  <1> QED
      BY SearchInvariant, <1>1, PTL

\* Whatever the history, a search returns a block isStartBlock agrees with.
THEOREM ReturnsAStartBlockTheorem == SearchSpec => []ReturnsAStartBlock
  <1>1. SearchInv => ReturnsAStartBlock
    <2> SUFFICES ASSUME SearchInv, pc = "returned"
                 PROVE  /\ search.startBlock < low
                        /\ low <= search.originalBlock
                        /\ isStartBlock(low)
        BY DEF ReturnsAStartBlock
    <2>1. low \in Nat /\ search.startBlock \in Nat
        BY DEF SearchInv, SearchTypeOK, Searches, Blocks
    <2>2. holds(low) /\ ~holds(search.startBlock) /\ search.startBlock <= low
        BY DEF SearchInv, RangeHoldsTheTransition
    <2>3. low # search.startBlock
        BY <2>2
    <2> QED
        BY <2>1, <2>2, <2>3
           DEF SearchInv, RangeHoldsTheTransition, ReachedIsChecked, isStartBlock
  <1> QED
      BY SearchInvariant, <1>1, PTL

\* Over a monotone history a search returns the first block that holds.
THEOREM ReturnsTheFirstTheorem == SearchSpec => []ReturnsTheFirst
  <1>1. SearchInv => ReturnsTheFirst
    <2> SUFFICES ASSUME SearchInv, pc = "returned", Monotone,
                        NEW b \in search.startBlock..search.originalBlock
                 PROVE  holds(b) <=> b >= low
        BY DEF ReturnsTheFirst
    <2>1. low \in Nat /\ search.startBlock \in Nat /\ search.originalBlock \in Nat /\ b \in Nat
        BY DEF SearchInv, SearchTypeOK, Searches, Blocks
    <2>2. /\ holds(low)
          /\ search.startBlock <= low
          /\ low <= search.originalBlock
          /\ low = search.startBlock \/ ~holds(low - 1)
        BY DEF SearchInv, RangeHoldsTheTransition
    <2>3. CASE b >= low
        BY <2>1, <2>2, <2>3 DEF Monotone
    <2>4. CASE b < low
      <3>1. low # search.startBlock /\ ~holds(low - 1)
          BY <2>1, <2>2, <2>4
      <3>2. low - 1 \in search.startBlock..search.originalBlock /\ b <= low - 1
          BY <2>1, <2>2, <2>4
      <3>3. ~holds(b)
          BY <3>1, <3>2 DEF Monotone
      <3> QED
          BY <3>3, <2>4, <2>1
    <2> QED
        BY <2>1, <2>3, <2>4
  <1> QED
      BY SearchInvariant, <1>1, PTL

\* A search that has ended has the fork back where it was.
THEOREM ForkIsRestoredTheorem == SearchSpec => []ForkIsRestored
  <1>1. SearchInv => ForkIsRestored
      BY DEF SearchInv
  <1> QED
      BY SearchInvariant, <1>1, PTL

\* What a search has still to do, at most: its checks, the turns of its loop, and
\* the return.
Remaining ==
    CASE pc = "called" -> MaxBlock + 3
      [] pc = "checked" -> MaxBlock + 2
      [] pc = "searching" -> (high - low) + 1
      [] OTHER -> 0

\* A turn leaves at most half of the range.
LEMMA Halves ==
    ASSUME NEW a \in Nat, NEW b \in Nat, a < b
    PROVE  LET mid == (a + b) \div 2 IN 2 * (mid - a) <= b - a /\ 2 * (b - (mid + 1)) <= b - a
  OBVIOUS

\* Every step of a search brings its end closer, and every turn of the loop
\* leaves at most half of the blocks, on any history: a search forks as often as
\* the logarithm of its range, and cannot turn for ever.
\* (bisectFirstHoldingBlock: low goes one past a block that does not hold.)
THEOREM SearchComesCloser ==
    SearchSpec => /\ [](Remaining \in Nat)
                  /\ [][/\ Remaining' < Remaining
                        /\ Bisect => 2 * (high' - low') <= high - low]_searchVars
  <1>1. SearchInv => Remaining \in Nat
    <2> SUFFICES ASSUME SearchInv PROVE Remaining \in Nat
        OBVIOUS
    <2>1. low \in Nat /\ high \in Nat /\ (pc = "searching" => low <= high)
        BY DEF SearchInv, SearchTypeOK, RangeHoldsTheTransition, Blocks
    <2> QED
        BY <2>1, SearchAssumption DEF Remaining
  <1>2. SearchInv /\ [SearchNext]_searchVars =>
            [Remaining' < Remaining /\ (Bisect => 2 * (high' - low') <= high - low)]_searchVars
    <2> SUFFICES ASSUME SearchInv, SearchNext
                 PROVE  Remaining' < Remaining /\ (Bisect => 2 * (high' - low') <= high - low)
        OBVIOUS
    <2>0. /\ low \in 0..MaxBlock /\ high \in 0..MaxBlock /\ MaxBlock \in Nat
          /\ pc = "searching" => low <= high
          /\ pc = "checked" => low = search.startBlock /\ high = search.originalBlock
        BY SearchAssumption
           DEF SearchInv, SearchTypeOK, SearchIsAsked, RangeHoldsTheTransition, Blocks
    <2>1. CASE CheckReached
        BY <2>0, <2>1 DEF CheckReached, Remaining, Bisect
    <2>2. CASE CheckStartBlock
        BY <2>0, <2>2 DEF CheckStartBlock, Remaining, Bisect
    <2>3. CASE Bisect
      <3> DEFINE mid == (low + high) \div 2
      <3>1. low \in Nat /\ high \in Nat /\ low < high
          BY <2>0, <2>3 DEF Bisect
      <3>2. /\ mid \in Nat /\ low <= mid /\ mid < high
            /\ 2 * (mid - low) <= high - low /\ 2 * (high - (mid + 1)) <= high - low
          BY <3>1, Middle, Halves
      <3>3. pc = "searching" /\ pc' = pc /\ halve(mid)
          BY <2>3 DEF Bisect
      <3> HIDE DEF mid
      <3>4. (high' = mid /\ low' = low) \/ (low' = mid + 1 /\ high' = high)
          BY <3>3 DEF halve
      <3>5. high' - low' < high - low /\ 2 * (high' - low') <= high - low
          BY <3>1, <3>2, <3>4
      <3>6. Remaining = (high - low) + 1 /\ Remaining' = (high' - low') + 1
          BY <3>3 DEF Remaining
      <3>7. high' - low' \in Int /\ high - low \in Int
          BY <3>1, <3>2, <3>4
      <3>8. Remaining' < Remaining
        <4> HIDE DEF Remaining
        <4> QED
            BY <3>5, <3>6, <3>7
      <3> QED
          BY <3>5, <3>8
    <2>4. CASE Return
        BY <2>0, <2>4 DEF Return, Remaining, Bisect
    <2> QED
        BY <2>1, <2>2, <2>3, <2>4 DEF SearchNext
  <1> QED
      BY SearchInvariant, <1>1, <1>2, PTL DEF SearchSpec

-----------------------------------------------------------------------------
(* The types the subgraph parses.                                          *)

IsList(s) == s \in Seq({s[i] : i \in DOMAIN s})

NestsWithin(type, n) == type.leaves \subseteq 0..n

\* The two counts are what they are kept for.
LevelsAreKept ==
    /\ levels \in 0..MAX_NESTING
    /\ mode = "suffix" => NestsWithin(current, levels)
    /\ mode \in {"bracket", "length"} => levels > 0 /\ NestsWithin(current, levels - 1)

EnclosingIsKept ==
    /\ enclosing \in Seq(0..MAX_NESTING)
    /\ IsList(frames) /\ Len(frames) = Len(enclosing)
    /\ \A i \in 1..Len(frames) :
           /\ IsList(frames[i])
           /\ \A j \in 1..Len(frames[i]) : NestsWithin(frames[i][j], enclosing[i])

AnswerNests == answer # Null => NestsWithin(answer, MAX_NESTING)

ParseInv == LevelsAreKept /\ EnclosingIsKept /\ AnswerNests

-----------------------------------------------------------------------------
(* Lists.                                                                  *)

\* A list is one over any set that has its elements.
LEMMA ListOver ==
    ASSUME NEW S, NEW s \in Seq(S)
    PROVE  IsList(s)
<1>1. /\ Len(s) \in Nat /\ DOMAIN s = 1..Len(s)
      /\ s \in [1..Len(s) -> S]
  BY LenProperties
<1>2. s \in [1..Len(s) -> {s[i] : i \in DOMAIN s}]
  BY <1>1
<1>3. \A T : Seq(T) = UNION {[1..n -> T] : n \in Nat}
  BY SeqDef
<1> QED
  BY <1>1, <1>2, <1>3 DEF IsList

\* An element after the others.
LEMMA ListAppend ==
    ASSUME NEW s, IsList(s), NEW x
    PROVE  /\ IsList(Append(s, x))
           /\ Len(s) \in Nat /\ Len(Append(s, x)) = Len(s) + 1
           /\ \A i \in 1..Len(s) : Append(s, x)[i] = s[i]
           /\ Append(s, x)[Len(s) + 1] = x
<1> DEFINE S == {s[i] : i \in DOMAIN s} \cup {x}
<1>1. s \in Seq(S) /\ x \in S
  BY SeqMonotonic DEF IsList
<1>2. /\ Append(s, x) \in Seq(S) /\ Len(s) \in Nat /\ Len(Append(s, x)) = Len(s) + 1
      /\ \A i \in 1..Len(s) : Append(s, x)[i] = s[i]
      /\ Append(s, x)[Len(s) + 1] = x
  <2> HIDE DEF S
  <2> QED BY <1>1
<1> QED
  BY <1>2, ListOver

\* All elements but the last.
LEMMA ListFront ==
    ASSUME NEW s, IsList(s), s # <<>>
    PROVE  /\ IsList(Front(s)) /\ Len(s) \in Nat \ {0}
           /\ Len(Front(s)) = Len(s) - 1 /\ Last(s) = s[Len(s)]
           /\ \A i \in 1..Len(s) - 1 : Front(s)[i] = s[i]
<1> DEFINE S == {s[i] : i \in DOMAIN s}
<1>1. s \in Seq(S)
  BY DEF IsList
<1>2. /\ Len(s) \in Nat \ {0} /\ DOMAIN s = 1..Len(s)
      /\ \A i \in 1..Len(s) - 1 : s[i] \in S
  BY <1>1, EmptySeq, LenProperties, ElementOfSeq
<1>3. /\ Front(s) \in Seq(S) /\ Len(Front(s)) = Len(s) - 1
      /\ \A i \in 1..Len(s) - 1 : Front(s)[i] = s[i]
  <2>1. Front(s) = SubSeq(s, 1, Len(s) - 1)
    BY DEF Front
  <2> HIDE DEF S
  <2> QED BY <1>2, <2>1, SubSeqProperties
<1>4. Last(s) = s[Len(s)]
  BY DEF Last
<1> QED
  BY <1>2, <1>3, <1>4, ListOver

LEMMA FrontOver ==
    ASSUME NEW S, NEW s \in Seq(S), s # <<>>
    PROVE  Front(s) \in Seq(S)
<1>1. Len(s) \in Nat /\ \A i \in 1..Len(s) - 1 : s[i] \in S
  BY LenProperties, ElementOfSeq
<1> QED
  BY <1>1, SubSeqProperties DEF Front

-----------------------------------------------------------------------------
(* Leaves.                                                                 *)

\* An elementary type is its own leaf.
LEMMA ElementaryNests ==
    ASSUME NEW name, elementaryAbiType(name) # Null
    PROVE  NestsWithin(elementaryAbiType(name), 0)
<1>1. \A kind, width : elementary(kind, width).leaves = {0}
  BY DEF elementary, AbiType
<1>2. \E kind, width : elementaryAbiType(name) = elementary(kind, width)
  BY DEF elementaryAbiType
<1> QED
  BY <1>1, <1>2 DEF NestsWithin

\* A type nests one deeper than the deepest of its components.
LEMMA TypeNests ==
    ASSUME NEW kind, NEW width, NEW len, NEW components, NEW n \in Nat,
           components # <<>>,
           \A i \in DOMAIN components : NestsWithin(components[i], n)
    PROVE  NestsWithin(AbiType(kind, width, len, components), n + 1)
<1>1. AbiType(kind, width, len, components).leaves =
          UNION {{d + 1 : d \in components[i].leaves} : i \in DOMAIN components}
  BY DEF AbiType
<1>2. \A i \in DOMAIN components : \A d \in components[i].leaves : d + 1 \in 0..n + 1
  BY DEF NestsWithin
<1> QED
  BY <1>1, <1>2 DEF NestsWithin

LEMMA ArrayNests ==
    ASSUME NEW type, NEW n \in Nat, NestsWithin(type, n), NEW len
    PROVE  NestsWithin(arrayOf(type, len), n + 1)
<1>1. <<type>> # <<>> /\ \A i \in DOMAIN <<type>> : <<type>>[i] = type
  OBVIOUS
<1> QED
  BY <1>1, TypeNests DEF arrayOf

LEMMA TupleNests ==
    ASSUME NEW components, IsList(components), NEW n \in Nat, NEW type, NestsWithin(type, n),
           \A i \in 1..Len(components) : NestsWithin(components[i], n)
    PROVE  NestsWithin(tupleOf(Append(components, type)), n + 1)
<1> DEFINE all == Append(components, type)
<1>1. /\ IsList(all) /\ Len(components) \in Nat /\ Len(all) = Len(components) + 1
      /\ \A i \in 1..Len(components) : all[i] = components[i]
      /\ all[Len(components) + 1] = type
  BY ListAppend
<1>2. DOMAIN all = 1..Len(components) + 1
  BY <1>1, LenProperties DEF IsList
<1>3. all # <<>>
  BY <1>1, EmptySeq
<1>4. \A i \in DOMAIN all : NestsWithin(all[i], n)
  <2>1. TAKE i \in DOMAIN all
  <2>2. CASE i = Len(components) + 1
    BY <1>1, <2>2
  <2>3. CASE i # Len(components) + 1
    BY <1>1, <1>2, <2>1, <2>3
  <2> QED
    BY <2>2, <2>3
<1> HIDE DEF all
<1>5. NestsWithin(AbiType("TUPLE", 0, 0, all), n + 1)
  BY <1>3, <1>4, TypeNests
<1> QED
  BY <1>5 DEF all, tupleOf

LEMMA NestsDeeper ==
    ASSUME NEW type, NEW m \in Int, NEW n \in Int, m <= n, NestsWithin(type, m)
    PROVE  NestsWithin(type, n)
  BY DEF NestsWithin

-----------------------------------------------------------------------------
(* The invariant.                                                          *)

LEMMA ParseStarts == ParseInit => ParseInv
<1> SUFFICES ASSUME ParseInit PROVE ParseInv
  OBVIOUS
<1>1. <<>> \in Seq(0..MAX_NESTING) /\ Len(<<>>) = 0 /\ IsList(<<>>)
  BY EmptySeq, ListOver
<1> QED
  BY <1>1, ParseAssumption DEF ParseInit, ParseInv, LevelsAreKept, EnclosingIsKept, AnswerNests

LEMMA OpensKeeps ==
    ASSUME ParseInv, NEW token, Opens(token)
    PROVE  ParseInv'
<1> USE DEF Opens
<1>1. LevelsAreKept' /\ AnswerNests'
  BY DEF ParseInv, LevelsAreKept, AnswerNests
<1>2. enclosing' \in Seq(0..MAX_NESTING) /\ Len(enclosing') = Len(enclosing) + 1
      /\ \A i \in 1..Len(enclosing) : enclosing'[i] = enclosing[i]
  <2>1. 0 \in 0..MAX_NESTING
    BY ParseAssumption
  <2> QED BY <2>1, ListAppend, ListOver DEF ParseInv, EnclosingIsKept
<1>3. /\ IsList(frames') /\ Len(frames) \in Nat /\ Len(frames') = Len(frames) + 1
      /\ \A i \in 1..Len(frames) : frames'[i] = frames[i]
      /\ frames'[Len(frames) + 1] = <<>>
  BY ListAppend DEF ParseInv, EnclosingIsKept
<1>4. IsList(<<>>) /\ Len(<<>>) = 0
  BY EmptySeq, ListOver
<1>5. ASSUME NEW i \in 1..Len(frames')
      PROVE  /\ IsList(frames'[i])
             /\ \A j \in 1..Len(frames'[i]) : NestsWithin(frames'[i][j], enclosing'[i])
  <2>1. CASE i = Len(frames) + 1
    BY <1>3, <1>4, <2>1
  <2>2. CASE i \in 1..Len(frames)
    BY <1>2, <1>3, <2>2 DEF ParseInv, EnclosingIsKept
  <2>3. i = Len(frames) + 1 \/ i \in 1..Len(frames)
    BY <1>3
  <2> QED
    BY <2>1, <2>2, <2>3
<1>6. EnclosingIsKept'
  BY <1>2, <1>3, <1>5 DEF ParseInv, EnclosingIsKept, NestsWithin
<1> QED
  BY <1>1, <1>6 DEF ParseInv

\* The steps that leave the open tuples alone.
LEMMA OtherReadsKeep ==
    ASSUME ParseInv, NEW token,
           NamesType(token) \/ OpensArray(token) \/ ReadsLength(token) \/ ClosesArray(token)
    PROVE  ParseInv'
<1>1. EnclosingIsKept' /\ AnswerNests'
  BY DEF ParseInv, EnclosingIsKept, AnswerNests, NestsWithin, NamesType, OpensArray, ReadsLength, ClosesArray
<1>2. CASE NamesType(token)
  BY <1>1, <1>2, ElementaryNests, ParseAssumption DEF ParseInv, LevelsAreKept, NamesType
<1>3. CASE OpensArray(token)
  <2>1. levels' = levels + 1 /\ levels' \in 0..MAX_NESTING /\ mode' = "bracket"
    BY <1>3, ParseAssumption DEF ParseInv, LevelsAreKept, OpensArray
  <2>2. NestsWithin(current', levels' - 1)
    BY <1>3, <2>1 DEF ParseInv, LevelsAreKept, OpensArray, NestsWithin
  <2> QED
    BY <1>1, <2>1, <2>2 DEF ParseInv, LevelsAreKept
<1>4. CASE ReadsLength(token)
  BY <1>1, <1>4 DEF ParseInv, LevelsAreKept, ReadsLength, NestsWithin
<1>5. CASE ClosesArray(token)
  <2>1. /\ levels' = levels /\ levels \in 0..MAX_NESTING /\ mode' = "suffix"
        /\ levels > 0 /\ NestsWithin(current, levels - 1)
    BY <1>5 DEF ParseInv, LevelsAreKept, ClosesArray
  <2>2. \E len : current' = arrayOf(current, len)
    BY <1>5 DEF ClosesArray
  <2>3. NestsWithin(current', levels)
    BY <2>1, <2>2, ArrayNests, ParseAssumption
  <2> QED
    BY <1>1, <2>1, <2>3 DEF ParseInv, LevelsAreKept
<1> QED
  BY <1>2, <1>3, <1>4, <1>5

LEMMA EndsComponentKeeps ==
    ASSUME ParseInv, NEW token, EndsComponent(token)
    PROVE  ParseInv'
<1> DEFINE last == Len(enclosing)
           deeper == Deeper(enclosing[last], levels)
<1>1. /\ enclosing \in Seq(0..MAX_NESTING) /\ last \in Nat \ {0} /\ Len(frames) = last
      /\ DOMAIN enclosing = 1..last
  BY EmptySeq, LenProperties DEF ParseInv, EnclosingIsKept, EndsComponent
<1>2. levels \in 0..MAX_NESTING /\ enclosing[last] \in 0..MAX_NESTING /\ NestsWithin(current, levels)
  <2>1. enclosing[last] \in 0..MAX_NESTING
    <3>1. last \in 1..Len(enclosing)
      BY <1>1
    <3> QED
      BY <1>1, <3>1, ElementOfSeq
  <2>2. levels \in 0..MAX_NESTING /\ NestsWithin(current, levels)
    BY DEF ParseInv, LevelsAreKept, EndsComponent
  <2> QED
    BY <2>1, <2>2
<1>3. deeper \in 0..MAX_NESTING /\ enclosing[last] <= deeper /\ levels <= deeper
  BY <1>2, ParseAssumption DEF Deeper
<1>4. enclosing' = [enclosing EXCEPT ![last] = deeper]
  BY DEF EndsComponent
<1>5. frames' = [frames EXCEPT ![last] = Append(frames[last], current)]
  BY <1>1 DEF EndsComponent
<1> HIDE DEF last, deeper
<1>6. /\ enclosing' \in Seq(0..MAX_NESTING) /\ Len(enclosing') = last
      /\ \A i \in 1..last : enclosing'[i] = IF i = last THEN deeper ELSE enclosing[i]
  BY <1>1, <1>3, <1>4, ExceptSeq DEF last
<1>7. /\ IsList(frames') /\ Len(frames') = last
      /\ \A i \in 1..last : frames'[i] = IF i = last THEN Append(frames[last], current) ELSE frames[i]
  <2>1. IsList(frames) /\ last \in 1..Len(frames)
    BY <1>1 DEF ParseInv, EnclosingIsKept
  <2> DEFINE x == Append(frames[last], current)
             S == {frames[i] : i \in DOMAIN frames} \cup {x}
  <2>2. frames \in Seq(S) /\ x \in S
    BY <2>1, SeqMonotonic DEF IsList
  <2>3. frames' = [frames EXCEPT ![last] = x]
    BY <1>5
  <2> HIDE DEF x, S
  <2>4. /\ frames' \in Seq(S) /\ Len(frames') = Len(frames)
        /\ \A i \in 1..Len(frames) : frames'[i] = IF i = last THEN x ELSE frames[i]
    BY <2>1, <2>2, <2>3, ExceptSeq
  <2> QED
    BY <1>1, <2>4, ListOver DEF x
<1>8. /\ IsList(frames[last])
      /\ \A j \in 1..Len(frames[last]) : NestsWithin(frames[last][j], enclosing[last])
  BY <1>1 DEF ParseInv, EnclosingIsKept
<1>9. ASSUME NEW i \in 1..last
      PROVE  /\ IsList(frames'[i])
             /\ \A j \in 1..Len(frames'[i]) : NestsWithin(frames'[i][j], enclosing'[i])
  <2>1. CASE i # last
    BY <1>1, <1>6, <1>7, <2>1 DEF ParseInv, EnclosingIsKept
  <2>2. CASE i = last
    <3> DEFINE frame == Append(frames[last], current)
    <3>1. frames'[i] = frame /\ enclosing'[i] = deeper
      BY <1>6, <1>7, <2>2
    <3>2. /\ IsList(frame) /\ Len(frames[last]) \in Nat /\ Len(frame) = Len(frames[last]) + 1
          /\ \A j \in 1..Len(frames[last]) : frame[j] = frames[last][j]
          /\ frame[Len(frames[last]) + 1] = current
      BY <1>8, ListAppend
    <3> HIDE DEF frame
    <3>3. NestsWithin(current, deeper)
      BY <1>2, <1>3, NestsDeeper
    <3>4. \A j \in 1..Len(frames[last]) : NestsWithin(frames[last][j], deeper)
      BY <1>2, <1>3, <1>8, NestsDeeper
    <3>5. \A j \in 1..Len(frame) : j = Len(frames[last]) + 1 \/ j \in 1..Len(frames[last])
      BY <3>2
    <3>6. \A j \in 1..Len(frame) : NestsWithin(frame[j], deeper)
      BY <3>2, <3>3, <3>4, <3>5
    <3> QED
      BY <3>1, <3>2, <3>6
  <2> QED
    BY <2>1, <2>2
<1>10. LevelsAreKept' /\ AnswerNests'
  BY DEF ParseInv, LevelsAreKept, AnswerNests, NestsWithin, EndsComponent
<1> QED
  BY <1>6, <1>7, <1>9, <1>10 DEF ParseInv, EnclosingIsKept, NestsWithin

LEMMA ClosesTupleKeeps ==
    ASSUME ParseInv, NEW token, ClosesTuple(token)
    PROVE  ParseInv'
<1> DEFINE last == Len(enclosing)
           deeper == Deeper(enclosing[last], levels)
<1>1. /\ enclosing \in Seq(0..MAX_NESTING) /\ IsList(enclosing) /\ IsList(frames)
      /\ enclosing # <<>> /\ last \in Nat \ {0} /\ Len(frames) = last
  BY EmptySeq, LenProperties, ListOver DEF ParseInv, EnclosingIsKept, ClosesTuple
<1>2. frames # <<>>
  BY <1>1, EmptySeq
<1>3. /\ IsList(Front(frames)) /\ Len(Front(frames)) = last - 1 /\ Last(frames) = frames[last]
      /\ \A i \in 1..last - 1 : Front(frames)[i] = frames[i]
  BY <1>1, <1>2, ListFront
<1>4. /\ Len(Front(enclosing)) = last - 1 /\ Last(enclosing) = enclosing[last]
      /\ \A i \in 1..last - 1 : Front(enclosing)[i] = enclosing[i]
  BY <1>1, ListFront
<1>5. Front(enclosing) \in Seq(0..MAX_NESTING)
  BY <1>1, FrontOver
<1>6. levels \in 0..MAX_NESTING /\ enclosing[last] \in 0..MAX_NESTING /\ NestsWithin(current, levels)
  <2>1. enclosing[last] \in 0..MAX_NESTING
    <3>1. last \in 1..Len(enclosing)
      BY <1>1
    <3> QED
      BY <1>1, <3>1, ElementOfSeq
  <2>2. levels \in 0..MAX_NESTING /\ NestsWithin(current, levels)
    BY DEF ParseInv, LevelsAreKept, ClosesTuple
  <2> QED
    BY <2>1, <2>2
<1>7. deeper \in Nat /\ enclosing[last] <= deeper /\ levels <= deeper
  BY <1>6, ParseAssumption DEF Deeper
<1>8. levels' = 1 + deeper /\ levels' \in 0..MAX_NESTING
  BY <1>4, <1>7, ParseAssumption DEF ClosesTuple, levelsOfTuple
<1>9. current' = tupleOf(Append(frames[last], current))
  BY <1>3 DEF ClosesTuple
<1> HIDE DEF last, deeper
<1>10. /\ IsList(frames[last])
       /\ \A j \in 1..Len(frames[last]) : NestsWithin(frames[last][j], deeper)
  BY <1>1, <1>6, <1>7, NestsDeeper DEF ParseInv, EnclosingIsKept
<1>11. NestsWithin(current, deeper)
  BY <1>6, <1>7, NestsDeeper
<1>12. NestsWithin(current', levels')
  BY <1>7, <1>8, <1>9, <1>10, <1>11, TupleNests
<1>13. LevelsAreKept' /\ AnswerNests'
  BY <1>8, <1>12 DEF ParseInv, LevelsAreKept, AnswerNests, NestsWithin, ClosesTuple
<1>14. \A i \in 1..last - 1 : i \in 1..last
  BY <1>1
<1>15. enclosing' = Front(enclosing) /\ frames' = Front(frames)
  BY DEF ClosesTuple
<1>16. \A i \in 1..last - 1 :
           /\ IsList(frames'[i])
           /\ \A j \in 1..Len(frames'[i]) : NestsWithin(frames'[i][j], enclosing'[i])
  BY <1>1, <1>3, <1>4, <1>14, <1>15 DEF ParseInv, EnclosingIsKept
<1> QED
  BY <1>3, <1>4, <1>5, <1>13, <1>15, <1>16 DEF ParseInv, EnclosingIsKept, NestsWithin

LEMMA ParseStepKeeps ==
    ASSUME ParseInv, [ParseNext]_parseVars
    PROVE  ParseInv'
<1>1. ASSUME NEW token, Refuses(token) PROVE ParseInv'
  BY <1>1 DEF ParseInv, LevelsAreKept, EnclosingIsKept, AnswerNests, NestsWithin, Refuses
<1>2. CASE Ends
  <2>1. EnclosingIsKept' /\ LevelsAreKept'
    BY <1>2 DEF ParseInv, EnclosingIsKept, LevelsAreKept, NestsWithin, Ends
  <2>2. answer' # Null => answer' = current /\ NestsWithin(current, levels)
    BY <1>2 DEF ParseInv, LevelsAreKept, Ends
  <2>3. AnswerNests'
    BY <2>2, ParseAssumption, NestsDeeper DEF ParseInv, LevelsAreKept, AnswerNests, NestsWithin
  <2> QED
    BY <2>1, <2>3 DEF ParseInv
<1>3. CASE UNCHANGED parseVars
  BY <1>3 DEF ParseInv, LevelsAreKept, EnclosingIsKept, AnswerNests, NestsWithin, parseVars
<1> QED
  BY <1>1, <1>2, <1>3, OpensKeeps, OtherReadsKeep, ClosesTupleKeeps, EndsComponentKeeps DEF ParseNext

-----------------------------------------------------------------------------
\* Whatever type string is emitted, and whatever the limit, a type that is
\* returned nests no deeper than the limit.
\* (parseAbiType, whose two counts are of what is read, not of what is built.)
THEOREM TypesNestWithinTheLimit == ParseSpec => []NestingIsBounded
<1>1. ParseInv => NestingIsBounded
  BY ParseAssumption DEF ParseInv, AnswerNests, NestingIsBounded, NestsWithin
<1> QED
  BY ParseStarts, ParseStepKeeps, <1>1, PTL DEF ParseSpec

-----------------------------------------------------------------------------
(* What a document verifies.                                               *)

\* Positions of a list have a last one.
LEMMA LastPosition ==
    ASSUME NEW n \in Nat, NEW T, T \subseteq 1..n, T # {}
    PROVE  \E i \in T : \A j \in T : j <= i
<1> DEFINE Later == {pair \in Nat \X Nat : pair[1] < pair[2]}
           U == {n - i : i \in T}
<1>1. IsWellFoundedOn(Later, Nat)
  BY NatLessThanWellFounded DEF OpToRel
<1>0. \A i \in T : i \in Int /\ n - i \in Nat
  OBVIOUS
<1>2. U \subseteq Nat /\ U # {}
  BY <1>0
<1>3. \E k \in U : \A other \in U : ~(<<other, k>> \in Later)
  <2> HIDE DEF Later, U
  <2> QED
    BY <1>1, <1>2, WFMin
<1>4. PICK i \in T : \A j \in T : ~(<<n - j, n - i>> \in Later)
  BY <1>3
<1>5. ASSUME NEW j \in T PROVE j <= i
  <2>1. <<n - j, n - i>> \in Nat \X Nat
    BY <1>0
  <2>2. ~(n - j < n - i)
    BY <1>4, <2>1
  <2> QED
    BY <1>0, <2>2
<1> QED
  BY <1>5

\* What is read of a list of items.
LEMMA FoundIsTheKey ==
    ASSUME NEW items, IsList(items), NEW check, claimsOnly(items, check)
    PROVE  found(items, check) = check.key
<1> DEFINE T == claims(items, check)
<1>1. DOMAIN items = 1..Len(items) /\ Len(items) \in Nat
  BY LenProperties DEF IsList
<1>2. T \subseteq 1..Len(items) /\ T # {}
  BY <1>1 DEF claims, claimsOnly
<1>3. \E i \in T : \A j \in T : j <= i
  <2> HIDE DEF T
  <2> QED
    BY <1>1, <1>2, LastPosition
<1> QED
  BY <1>3 DEF found, claimsOnly

\* A document is asked for preimages and answers what the comment of
\* verifyPreimages says, whatever the items it is read as: with the preimage of
\* every check, in order, when it holds an item of the check's magic and every
\* such item is plain and is the preimage of the check's key, and else nothing.
\* (verifyPreimages, whose loops return at the first item that fails and keep
\* the last one found.)
THEOREM VerifyPreimagesIsExact ==
    ASSUME NEW meta, ItemsOf(meta) = None \/ IsList(ItemsOf(meta)), NEW checks
    PROVE  LET items == ItemsOf(meta)
               Verifies ==
                   /\ items # None
                   /\ \A c \in DOMAIN checks :
                          /\ \E i \in DOMAIN items : items[i].magic = checks[c].magic
                          /\ \A i \in DOMAIN items : items[i].magic = checks[c].magic =>
                                 items[i].plain /\ items[i].payload = checks[c].key
           IN  verifyPreimages(meta, checks) =
                   IF Verifies THEN [c \in DOMAIN checks |-> checks[c].key] ELSE None
<1> DEFINE items == ItemsOf(meta)
<1>1. CASE items = None
  BY <1>1 DEF verifyPreimages, preimages
<1>2. CASE items # None /\ \A c \in DOMAIN checks : claimsOnly(items, checks[c])
  <2>1. \A c \in DOMAIN checks : found(items, checks[c]) = checks[c].key
    BY <1>2, FoundIsTheKey
  <2>2. [c \in DOMAIN checks |-> found(items, checks[c])] = [c \in DOMAIN checks |-> checks[c].key]
    BY <2>1
  <2> QED
    BY <1>2, <2>2 DEF verifyPreimages, preimages, claimsOnly, claims
<1>3. CASE items # None /\ ~(\A c \in DOMAIN checks : claimsOnly(items, checks[c]))
  BY <1>3 DEF verifyPreimages, preimages, claimsOnly, claims
<1> QED
  BY <1>1, <1>2, <1>3

\* However a document is read, it verifies against the keys of one write only:
\* no two keys of the same magic are both verified by it.
\* (verifyPreimages, which goes on after the item that matches.)
THEOREM OneWriteOnlyTheorem == VerifiesOneWriteOnly
<1> SUFFICES ASSUME NEW m \in Magics
             PROVE  Cardinality({key \in Keys :
                        verifyPreimages(document, <<[magic |-> m, key |-> key]>>) # None}) <= 1
    BY DEF VerifiesOneWriteOnly
<1> DEFINE Asked(key) == <<[magic |-> m, key |-> key]>>
           K == {key \in Keys : verifyPreimages(document, Asked(key)) # None}
           items == ItemsOf(document)
<1>1. ASSUME NEW key \in K
      PROVE  /\ \E i \in DOMAIN items : items[i].magic = m
             /\ \A i \in DOMAIN items : items[i].magic = m => items[i].payload = key
  <2>1. 1 \in DOMAIN Asked(key) /\ Asked(key)[1].magic = m /\ Asked(key)[1].key = key
    OBVIOUS
  <2> HIDE DEF Asked
  <2>2. claimsOnly(items, Asked(key)[1])
    BY <2>1 DEF verifyPreimages, preimages
  <2> QED
    BY <2>1, <2>2 DEF claimsOnly, claims
<1> HIDE DEF K, items
<1>2. \A a, b \in K : a = b
  BY <1>1
<1>3. K = {} \/ \E a \in K : K = {a}
  BY <1>2
<1>4. Cardinality(K) = 0 \/ Cardinality(K) = 1
  <2>1. CASE K = {}
    BY <2>1, FS_EmptySet
  <2>2. ASSUME NEW a, K = {a} PROVE Cardinality(K) = 1
    BY <2>2, FS_Singleton
  <2> QED
    BY <1>3, <2>1, <2>2
<1> QED
  BY <1>4 DEF K

-----------------------------------------------------------------------------
(* The indexers: lists and positions of events.                            *)

\* One list after another.
LEMMA ListConcat ==
    ASSUME NEW s, IsList(s), NEW t, IsList(t)
    PROVE  /\ IsList(s \o t)
           /\ Len(s) \in Nat /\ Len(t) \in Nat /\ Len(s \o t) = Len(s) + Len(t)
           /\ \A i \in 1..Len(s) : (s \o t)[i] = s[i]
           /\ \A i \in 1..Len(t) : (s \o t)[Len(s) + i] = t[i]
<1> DEFINE S == {s[i] : i \in DOMAIN s} \cup {t[i] : i \in DOMAIN t}
<1>1. s \in Seq(S) /\ t \in Seq(S)
  BY SeqMonotonic DEF IsList
<1> HIDE DEF S
<1>2. /\ s \o t \in Seq(S)
      /\ Len(s) \in Nat /\ Len(t) \in Nat /\ Len(s \o t) = Len(s) + Len(t)
      /\ \A i \in 1..Len(s) + Len(t) :
             (s \o t)[i] = IF i <= Len(s) THEN s[i] ELSE t[i - Len(s)]
  BY <1>1, ConcatProperties, LenProperties
<1>3. \A i \in 1..Len(s) : i \in 1..Len(s) + Len(t) /\ i <= Len(s)
  BY <1>2
<1>4. \A i \in 1..Len(t) :
          /\ Len(s) + i \in 1..Len(s) + Len(t)
          /\ ~(Len(s) + i <= Len(s))
          /\ (Len(s) + i) - Len(s) = i
  BY <1>2
<1> QED
  BY <1>2, <1>3, <1>4, ListOver

-----------------------------------------------------------------------------
(* The events about one thing.                                             *)

\* What an event is about: a binding, a line, a delegate or a write.
SubjectOf(address, p) ==
    CASE p.event = "Register" -> <<"binding", <<p.authority, p.name>>>>
      [] p.event = "Migrated" -> <<"line", <<p.writer, p.namespace>>>>
      [] p.event \in {"Approved", "Revoked"} ->
            <<"delegate", <<address, p.sender, p.scope, p.delegate>>>>
      [] p.event \in {"ApprovedUnscoped", "RevokedUnscoped"} ->
            <<"unscoped", <<address, p.sender, p.delegate>>>>
      [] p.event = "MetaV1_2" -> <<"meta", p.subject>>

Subject(e) == SubjectOf(e.address, e.params)

\* Its positions among the first n events of a log, and the last of them.
About(l, subject, n) == {i \in 1..n : Subject(l[i]) = subject}
Newest(i, positions) == i \in positions /\ \A j \in positions : j <= i

\* There are finitely many events about anything.
LEMMA AboutFinite ==
    ASSUME NEW l, NEW subject, NEW n \in Nat
    PROVE  /\ About(l, subject, n) \in SUBSET (1..n)
           /\ IsFiniteSet(About(l, subject, n))
           /\ Cardinality(About(l, subject, n)) \in Nat
<1>1. About(l, subject, n) \in SUBSET (1..n)
  BY DEF About
<1>2. IsFiniteSet(1..n)
  BY FS_Interval
<1> QED
  BY <1>1, <1>2, FS_Subset, FS_CardinalityType

\* Of no events none is about anything.
LEMMA AboutNone ==
    ASSUME NEW l, NEW subject
    PROVE  About(l, subject, 0) = {} /\ Cardinality(About(l, subject, 0)) = 0
  BY FS_EmptySet DEF About

\* One more event, about it or not.
LEMMA AboutNext ==
    ASSUME NEW l, NEW subject, NEW n \in Nat
    PROVE  /\ Subject(l[n + 1]) # subject => About(l, subject, n + 1) = About(l, subject, n)
           /\ Subject(l[n + 1]) = subject =>
                  /\ About(l, subject, n + 1) = About(l, subject, n) \cup {n + 1}
                  /\ About(l, subject, n + 1) # {}
                  /\ Cardinality(About(l, subject, n + 1)) = Cardinality(About(l, subject, n)) + 1
                  /\ \A i : Newest(i, About(l, subject, n + 1)) <=> i = n + 1
<1>1. 1..n + 1 = (1..n) \cup {n + 1}
  OBVIOUS
<1>2. Subject(l[n + 1]) # subject => About(l, subject, n + 1) = About(l, subject, n)
  BY <1>1 DEF About
<1>3. ASSUME Subject(l[n + 1]) = subject
      PROVE  /\ About(l, subject, n + 1) = About(l, subject, n) \cup {n + 1}
             /\ About(l, subject, n + 1) # {}
             /\ Cardinality(About(l, subject, n + 1)) = Cardinality(About(l, subject, n)) + 1
             /\ \A i : Newest(i, About(l, subject, n + 1)) <=> i = n + 1
  <2>1. About(l, subject, n + 1) = About(l, subject, n) \cup {n + 1}
    BY <1>1, <1>3 DEF About
  <2>2. About(l, subject, n) \in SUBSET (1..n) /\ IsFiniteSet(About(l, subject, n))
    BY AboutFinite
  <2>3. n + 1 \notin About(l, subject, n)
    BY <2>2
  <2>4. Cardinality(About(l, subject, n + 1)) = Cardinality(About(l, subject, n)) + 1
    BY <2>1, <2>2, <2>3, FS_AddElement
  <2>5. \A j \in About(l, subject, n + 1) : j \in 1..n + 1
    BY DEF About
  <2>6. \A i : Newest(i, About(l, subject, n + 1)) <=> i = n + 1
    BY <2>1, <2>5 DEF Newest
  <2> QED
    BY <2>1, <2>4, <2>6
<1> QED
  BY <1>2, <1>3

\* A log that begins the same.
LEMMA AboutSame ==
    ASSUME NEW l, NEW k, NEW subject, NEW n \in Nat, \A i \in 1..n : k[i] = l[i]
    PROVE  About(k, subject, n) = About(l, subject, n)
  BY DEF About

\* More events, none of them about it.
LEMMA AboutKept ==
    ASSUME NEW l, NEW k, NEW subject, NEW n \in Nat, NEW m \in Nat, n <= m,
           \A i \in 1..n : k[i] = l[i],
           \A i \in n + 1..m : Subject(k[i]) # subject
    PROVE  About(k, subject, m) = About(l, subject, n)
<1>1. \A i \in 1..m : i \in 1..n \/ i \in n + 1..m
  OBVIOUS
<1>2. \A i \in 1..n : i \in 1..m
  OBVIOUS
<1> QED
  BY <1>1, <1>2 DEF About

\* There is at most one last.
LEMMA NewestUnique ==
    ASSUME NEW l, NEW subject, NEW n \in Nat,
           NEW i, Newest(i, About(l, subject, n)), NEW j, Newest(j, About(l, subject, n))
    PROVE  i = j /\ i \in 1..n /\ Subject(l[i]) = subject
<1>1. i \in 1..n /\ j \in 1..n /\ i <= j /\ j <= i /\ Subject(l[i]) = subject
  BY DEF Newest, About
<1> QED
  BY <1>1

-----------------------------------------------------------------------------
(* The log.                                                                *)

Kinds == {"Register", "Migrated", "Approved", "Revoked", "ApprovedUnscoped",
          "RevokedUnscoped", "MetaV1_2"}

\* What a registry emits.
Written(address, p) ==
    /\ address \in Registries
    /\ p.event \in Kinds
    /\ p.event = "Register" =>
           /\ address = "config"
           /\ p.authority \in Addresses /\ p.name \in Names
           /\ p.valueType \in Types /\ p.value \in Values
    /\ p.event = "Migrated" =>
           /\ address = "migration"
           /\ p.writer \in Addresses /\ p.namespace \in Namespaces
           /\ p.migration \in Migrations /\ p.appliedAt \in Nat \ {0}

\* Events of the current block so far.
BlockEvents == Cardinality({j \in DOMAIN log : log[j].block = block})

\* The ids of the rows differ, because a transaction is of one block and the
\* index counts within the block.
LogOrdered ==
    /\ IsList(log) /\ IsList(ends)
    /\ \A i \in 1..Len(log) :
           /\ Written(log[i].address, log[i].params)
           /\ log[i].block \in 1..block
           /\ log[i].transaction \in Nat /\ log[i].logIndex \in Nat
           /\ log[i].block = block => log[i].logIndex < BlockEvents
    /\ \A i, j \in 1..Len(log) : i < j =>
           /\ log[i].transaction <= log[j].transaction
           /\ log[i].transaction = log[j].transaction =>
                  log[i].block = log[j].block /\ log[i].logIndex < log[j].logIndex

\* The log goes on.
LogGrows ==
    /\ IsList(log')
    /\ Len(log) \in Nat /\ Len(log') \in Nat /\ Len(log) <= Len(log')
    /\ \A i \in 1..Len(log) : log'[i] = log[i]

\* It goes on with one transaction's events.
Emitted(registry, list) ==
    \E transaction \in Transactions :
        /\ LogGrows
        /\ Len(log') = Len(log) + Len(list)
        /\ \A k \in 1..Len(list) :
               LET e == log'[Len(log) + k] IN
               /\ e.address = registry
               /\ e.block = block
               /\ e.transaction = transaction
               /\ e.logIndex = BlockEvents + k - 1
               /\ e.params = list[k]

\* A list is indexed by its positions.
LEMMA ListDomain ==
    ASSUME NEW s, IsList(s)
    PROVE  Len(s) \in Nat /\ DOMAIN s = 1..Len(s) /\ (Len(s) = 0 <=> s = <<>>)
  BY LenProperties, EmptySeq DEF IsList

\* A list of one event.
LEMMA Singleton ==
    ASSUME NEW x
    PROVE  IsList(<<x>>) /\ Len(<<x>>) = 1 /\ <<x>>[1] = x
<1>1. <<x>> \in Seq({x})
  OBVIOUS
<1> QED
  BY <1>1, ListOver

\* A list of two events.
LEMMA Pair ==
    ASSUME NEW x, NEW y
    PROVE  IsList(<<x, y>>) /\ Len(<<x, y>>) = 2 /\ <<x, y>>[1] = x /\ <<x, y>>[2] = y
<1>1. <<x, y>> \in Seq({x, y})
  OBVIOUS
<1> QED
  BY <1>1, ListOver

\* What Emit does to the log.
LEMMA EmitLemma ==
    ASSUME IsList(log), NEW registry, NEW list, IsList(list), Emit(registry, list)
    PROVE  Emitted(registry, list)
<1>1. PICK transaction \in Transactions :
          log' = log \o [i \in DOMAIN list |->
              [address |-> registry, block |-> block, transaction |-> transaction,
               logIndex |-> BlockEvents + i - 1, params |-> list[i]]]
  BY DEF Emit, BlockEvents
<1> DEFINE more == [i \in DOMAIN list |->
               [address |-> registry, block |-> block, transaction |-> transaction,
                logIndex |-> BlockEvents + i - 1, params |-> list[i]]]
<1>2. Len(list) \in Nat /\ DOMAIN list = 1..Len(list) /\ Len(log) \in Nat
  BY ListDomain
<1>3. IsList(more) /\ Len(more) = Len(list)
  <2> DEFINE S == {more[i] : i \in DOMAIN more}
  <2>1. more \in [1..Len(list) -> S]
    BY <1>2
  <2> HIDE DEF more, S
  <2>2. more \in Seq(S)
    BY <1>2, <2>1
  <2>3. Len(more) = Len(list)
    BY <1>2, <2>1, <2>2, LenProperties
  <2> QED
    BY <2>2, <2>3, ListOver
<1>4. \A k \in 1..Len(list) :
          /\ more[k].address = registry
          /\ more[k].block = block
          /\ more[k].transaction = transaction
          /\ more[k].logIndex = BlockEvents + k - 1
          /\ more[k].params = list[k]
  BY <1>2
<1>5. log' = log \o more
  BY <1>1
<1> HIDE DEF more
<1>6. /\ IsList(log \o more)
      /\ Len(log \o more) = Len(log) + Len(more)
      /\ \A i \in 1..Len(log) : (log \o more)[i] = log[i]
      /\ \A i \in 1..Len(more) : (log \o more)[Len(log) + i] = more[i]
  <2> DEFINE l == log
  <2>1. IsList(l) /\ IsList(more)
    BY <1>3
  <2> HIDE DEF l
  <2>2. /\ IsList(l \o more)
        /\ Len(l \o more) = Len(l) + Len(more)
        /\ \A i \in 1..Len(l) : (l \o more)[i] = l[i]
        /\ \A i \in 1..Len(more) : (l \o more)[Len(l) + i] = more[i]
    <3>1. IsList(l \o more)
      BY <2>1, ListConcat
    <3>2. Len(l \o more) = Len(l) + Len(more)
      BY <2>1, ListConcat
    <3>3. \A i \in 1..Len(l) : (l \o more)[i] = l[i]
      BY <2>1, ListConcat
    <3>4. \A i \in 1..Len(more) : (l \o more)[Len(l) + i] = more[i]
      BY <2>1, ListConcat
    <3> QED
      BY <3>1, <3>2, <3>3, <3>4
  <2> QED
    BY <2>2 DEF l
<1>7. LogGrows
  BY <1>2, <1>3, <1>5, <1>6 DEF LogGrows
<1>8. /\ Len(log') = Len(log) + Len(list)
      /\ \A k \in 1..Len(list) : log'[Len(log) + k] = more[k]
  BY <1>3, <1>5, <1>6
<1> QED
  BY <1>4, <1>7, <1>8 DEF Emitted

\* The transaction of an event is the last one's or the next.
LEMMA TransactionLemma ==
    ASSUME LogOrdered, NEW transaction \in Transactions
    PROVE  /\ transaction \in Nat
           /\ \A i \in 1..Len(log) :
                  /\ log[i].transaction <= transaction
                  /\ log[i].transaction = transaction => log[i].block = block
<1>1. Len(log) \in Nat /\ DOMAIN log = 1..Len(log) /\ (Len(log) = 0 <=> log = <<>>)
  BY ListDomain DEF LogOrdered
<1>2. CASE log = <<>>
  <2>1. transaction = 1
    BY <1>2 DEF Transactions
  <2> QED
    BY <1>1, <1>2, <2>1
<1>3. CASE log # <<>>
  <2> DEFINE n == Len(log)
  <2>1. n \in 1..Len(log) /\ Last(log) = log[n]
    BY <1>1, <1>3 DEF Last
  <2>2. log[n].transaction \in Nat
    BY <2>1 DEF LogOrdered
  <2>3. \/ transaction = log[n].transaction /\ log[n].block = block
        \/ transaction = log[n].transaction + 1
    BY <1>3, <2>1 DEF Transactions
  <2>4. ASSUME NEW i \in 1..Len(log)
        PROVE  /\ log[i].transaction \in Nat
               /\ log[i].transaction <= log[n].transaction
               /\ log[i].transaction = log[n].transaction => log[i].block = log[n].block
    <3>1. i = n \/ i < n
      <4>1. \A k \in Nat : \A h \in 1..k : h = k \/ h < k
        OBVIOUS
      <4> QED
        BY <1>1, <4>1 DEF n
    <3>2. log[i].transaction \in Nat
      BY DEF LogOrdered
    <3> QED
      BY <2>1, <2>2, <3>1, <3>2 DEF LogOrdered
  <2> HIDE DEF n
  <2> QED
    BY <2>2, <2>3, <2>4
<1> QED
  BY <1>2, <1>3

\* The next logIndex of a block is above those of its events.
LEMMA BlockEventsGrow ==
    ASSUME IsList(log), NEW registry, NEW list, IsList(list), Emitted(registry, list),
           ends' = ends
    PROVE  BlockEvents \in Nat /\ BlockEvents' = BlockEvents + Len(list)
<1> DEFINE S == {j \in DOMAIN log : log[j].block = block}
           n == Len(log)
           m == Len(list)
           T == n + 1..n + m
<1>1. n \in Nat /\ DOMAIN log = 1..n /\ m \in Nat
  BY ListDomain
<1>2. /\ IsList(log') /\ Len(log') = n + m
      /\ \A i \in 1..n : log'[i] = log[i]
      /\ \A k \in 1..m : log'[n + k].block = block
  BY DEF Emitted, LogGrows
<1>3. DOMAIN log' = 1..n + m
  BY <1>2, ListDomain
<1>4. block' = block
  BY DEF block
<1>5. {j \in DOMAIN log' : log'[j].block = block'} = S \cup T
  <2>1. \A j \in T : j - n \in 1..m /\ n + (j - n) = j
    BY <1>1
  <2>2. \A j \in T : log'[j].block = block
    BY <1>2, <2>1
  <2>3. \A j : j \in 1..n + m <=> j \in 1..n \/ j \in T
    BY <1>1
  <2> HIDE DEF T
  <2> QED
    BY <1>1, <1>2, <1>3, <1>4, <2>2, <2>3
<1>6. IsFiniteSet(S) /\ Cardinality(S) \in Nat
  <2>1. S \in SUBSET (1..n) /\ IsFiniteSet(1..n)
    BY <1>1, FS_Interval
  <2> QED
    BY <2>1, FS_Subset, FS_CardinalityType
<1>7. IsFiniteSet(T) /\ Cardinality(T) = m
  <2>0. n + 1 \in Int /\ n + m \in Int
    BY <1>1
  <2>1. /\ IsFiniteSet(T)
        /\ Cardinality(T) = IF n + 1 > n + m THEN 0 ELSE (n + m) - (n + 1) + 1
    <3> HIDE DEF n, m
    <3> QED BY <2>0, FS_Interval
  <2> HIDE DEF T
  <2> QED
    BY <1>1, <2>1
<1>8. S \cap T = {}
  BY <1>1
<1>9. Cardinality(S \cup T) = Cardinality(S) + m
  <2> HIDE DEF S, T, m
  <2>1. Cardinality(S \cup T) = Cardinality(S) + Cardinality(T) - Cardinality(S \cap T)
    BY <1>6, <1>7, FS_Union, Zenon
  <2>2. Cardinality(S \cap T) = 0
    BY <1>8, FS_EmptySet
  <2> QED
    BY <1>1, <1>6, <1>7, <2>1, <2>2
<1> QED
  BY <1>5, <1>6, <1>9 DEF BlockEvents

\* The order and the indices are kept by every call.
LEMMA EmittedInOrder ==
    ASSUME LogOrdered, NEW registry, NEW list, IsList(list), Emitted(registry, list),
           \A k \in 1..Len(list) : Written(registry, list[k]),
           ends' = ends
    PROVE  LogOrdered'
<1> DEFINE n == Len(log)
           m == Len(list)
<1>1. PICK t \in Transactions :
          /\ LogGrows
          /\ Len(log') = n + m
          /\ \A k \in 1..m : /\ log'[n + k].address = registry
                              /\ log'[n + k].block = block
                              /\ log'[n + k].transaction = t
                              /\ log'[n + k].logIndex = BlockEvents + k - 1
                              /\ log'[n + k].params = list[k]
  BY DEF Emitted
<1>2. /\ t \in Nat
      /\ \A i \in 1..n : /\ log[i].transaction <= t
                         /\ log[i].transaction = t => log[i].block = block
  BY TransactionLemma
<1>3. BlockEvents \in Nat /\ BlockEvents' = BlockEvents + m
  BY BlockEventsGrow DEF LogOrdered
<1>4. n \in Nat /\ m \in Nat /\ IsList(log') /\ \A i \in 1..n : log'[i] = log[i]
  BY <1>1, ListDomain DEF LogGrows
<1>5. block' = block /\ IsList(ends) /\ block \in Nat \ {0}
  BY ListDomain DEF block, LogOrdered
<1>7. \A i \in 1..n + m : i \in 1..n \/ \E k \in 1..m : i = n + k
  <2>1. \A i \in 1..n + m : i \in 1..n \/ (i - n \in 1..m /\ i = n + (i - n))
    BY <1>4
  <2> QED
    BY <2>1
<1>8. \A i \in 1..n : /\ Written(log[i].address, log[i].params)
                      /\ log[i].block \in 1..block
                      /\ log[i].transaction \in Nat /\ log[i].logIndex \in Nat
                      /\ log[i].block = block => log[i].logIndex < BlockEvents
  BY DEF LogOrdered
<1> HIDE DEF n, m
<1>9. \A i \in 1..n + m :
          /\ Written(log'[i].address, log'[i].params)
          /\ log'[i].block \in 1..block
          /\ log'[i].transaction \in Nat /\ log'[i].logIndex \in Nat
          /\ log'[i].block = block => log'[i].logIndex < BlockEvents'
  <2>1. TAKE i \in 1..n + m
  <2>2. CASE i \in 1..n
    BY <1>3, <1>4, <1>8, <2>2
  <2>3. CASE \E k \in 1..m : i = n + k
    <3>1. PICK k \in 1..m : i = n + k
      BY <2>3
    <3>2. /\ log'[i].address = registry /\ log'[i].block = block /\ log'[i].transaction = t
          /\ log'[i].logIndex = BlockEvents + k - 1 /\ log'[i].params = list[k]
      BY <1>1, <3>1
    <3>3. Written(registry, list[k])
      BY DEF m
    <3>4. BlockEvents + k - 1 \in Nat /\ BlockEvents + k - 1 < BlockEvents'
      BY <1>3, <1>4
    <3> QED
      BY <1>2, <1>5, <3>2, <3>3, <3>4
  <2> QED
    BY <1>7, <2>2, <2>3
<1>10. ASSUME NEW i \in 1..n + m, NEW j \in 1..n + m, i < j
       PROVE  /\ log'[i].transaction <= log'[j].transaction
              /\ log'[i].transaction = log'[j].transaction =>
                     log'[i].block = log'[j].block /\ log'[i].logIndex < log'[j].logIndex
  <2>1. CASE j \in 1..n
    <3>1. i \in 1..n
      BY <1>4, <1>10, <2>1
    <3>2. log'[i] = log[i] /\ log'[j] = log[j]
      BY <1>4, <2>1, <3>1
    <3>3. /\ log[i].transaction <= log[j].transaction
          /\ log[i].transaction = log[j].transaction =>
                 log[i].block = log[j].block /\ log[i].logIndex < log[j].logIndex
      BY <1>10, <2>1, <3>1 DEF LogOrdered, n
    <3> QED
      BY <3>2, <3>3
  <2>2. CASE i \in 1..n /\ \E k \in 1..m : j = n + k
    <3>1. PICK k \in 1..m : j = n + k
      BY <2>2
    <3>2. log'[i] = log[i] /\ log'[j].block = block /\ log'[j].transaction = t
          /\ log'[j].logIndex = BlockEvents + k - 1
      BY <1>1, <1>4, <2>2, <3>1
    <3>3. BlockEvents <= BlockEvents + k - 1
      BY <1>3, <1>4
    <3>4. log[i].logIndex \in Nat /\ (log[i].block = block => log[i].logIndex < BlockEvents)
      BY <1>8, <2>2
    <3>5. log[i].transaction = t => log[i].logIndex < BlockEvents + k - 1
      BY <1>2, <1>3, <1>4, <2>2, <3>3, <3>4
    <3> QED
      BY <1>2, <2>2, <3>2, <3>5
  <2>3. CASE (\E k \in 1..m : i = n + k) /\ (\E k \in 1..m : j = n + k)
    <3>1. PICK k \in 1..m : i = n + k
      BY <2>3
    <3>2. PICK h \in 1..m : j = n + h
      BY <2>3
    <3>3. k < h
      BY <1>4, <1>10, <3>1, <3>2
    <3>4. /\ log'[i].block = block /\ log'[i].transaction = t
          /\ log'[i].logIndex = BlockEvents + k - 1
          /\ log'[j].block = block /\ log'[j].transaction = t
          /\ log'[j].logIndex = BlockEvents + h - 1
      BY <1>1, <3>1, <3>2
    <3>5. BlockEvents + k - 1 < BlockEvents + h - 1
      BY <1>3, <1>4, <3>3
    <3> QED
      BY <1>2, <3>4, <3>5
  <2>4. ~((\E k \in 1..m : i = n + k) /\ j \in 1..n)
    BY <1>4, <1>10
  <2> QED
    BY <1>7, <2>1, <2>2, <2>3, <2>4
<1>11. Len(log') = n + m /\ IsList(ends')
  BY <1>1, <1>5 DEF n, m
<1> QED
  BY <1>4, <1>5, <1>9, <1>10, <1>11 DEF LogOrdered

\* A block ends.
LEMMA NextBlockInOrder ==
    ASSUME LogOrdered, UNCHANGED log, NEW bindings, ends' = Append(ends, bindings)
    PROVE  LogOrdered' /\ block' = block + 1 /\ Len(ends') = block
<1>1. IsList(ends') /\ Len(ends) \in Nat /\ Len(ends') = Len(ends) + 1
  <2>1. IsList(ends)
    BY DEF LogOrdered
  <2> QED
    BY <2>1, ListAppend
<1>2. block \in Nat /\ block' = block + 1 /\ Len(ends') = block
  BY <1>1 DEF block
<1>3. \A i \in 1..Len(log) : log[i].block \in 1..block' /\ log[i].block # block'
  BY <1>2 DEF LogOrdered
<1>4. \A i \in 1..Len(log)' :
          /\ Written(log[i].address, log[i].params)'
          /\ (log[i].block)' \in 1..block'
          /\ (log[i].transaction)' \in Nat /\ (log[i].logIndex)' \in Nat
          /\ (log[i].block)' = block' => (log[i].logIndex)' < BlockEvents'
  BY <1>3 DEF LogOrdered, Written
<1>5. IsList(log')
  BY DEF LogOrdered
<1>6. \A i, j \in 1..Len(log) : i < j =>
          /\ log[i].transaction <= log[j].transaction
          /\ log[i].transaction = log[j].transaction =>
                 log[i].block = log[j].block /\ log[i].logIndex < log[j].logIndex
  BY DEF LogOrdered
<1> QED
  BY <1>1, <1>2, <1>4, <1>5, <1>6 DEF LogOrdered

\* The ids of two events differ.
LEMMA IdsDiffer ==
    ASSUME LogOrdered, NEW i \in 1..Len(log), NEW j \in 1..Len(log), i # j
    PROVE  logRowId(log[i]) # logRowId(log[j])
<1>1. Len(log) \in Nat
  BY ListDomain DEF LogOrdered
<1>2. \A a, b \in 1..Len(log) : a < b => logRowId(log[a]) # logRowId(log[b])
  <2>1. TAKE a, b \in 1..Len(log)
  <2>2. HAVE a < b
  <2>3. log[a].logIndex \in Nat /\ log[b].logIndex \in Nat
    BY DEF LogOrdered
  <2>4. log[a].transaction = log[b].transaction => log[a].logIndex < log[b].logIndex
    BY <2>2 DEF LogOrdered
  <2>5. log[a].transaction # log[b].transaction \/ log[a].logIndex # log[b].logIndex
    BY <2>3, <2>4
  <2> QED
    BY <2>5 DEF logRowId
<1> QED
  BY <1>1, <1>2

-----------------------------------------------------------------------------
(* What the log says of the registries.                                    *)

\* A call's own event, and whatever metas come with it.
Told(registry, p) ==
    /\ LogGrows
    /\ ends' = ends
    /\ Len(log) < Len(log')
    /\ LET e == log'[Len(log) + 1] IN
       /\ e.address = registry /\ e.block = block /\ e.params = p
    /\ \A i \in Len(log) + 2..Len(log') : log'[i].params.event = "MetaV1_2"

\* The subject of each kind of event.
LEMMA SubjectOfKind ==
    ASSUME NEW address, NEW p, p.event \in Kinds
    PROVE  /\ p.event = "Register" =>
                  SubjectOf(address, p) = <<"binding", <<p.authority, p.name>>>>
           /\ p.event = "Migrated" =>
                  SubjectOf(address, p) = <<"line", <<p.writer, p.namespace>>>>
           /\ p.event \in {"Approved", "Revoked"} =>
                  SubjectOf(address, p)
                      = <<"delegate", <<address, p.sender, p.scope, p.delegate>>>>
           /\ p.event \in {"ApprovedUnscoped", "RevokedUnscoped"} =>
                  SubjectOf(address, p) = <<"unscoped", <<address, p.sender, p.delegate>>>>
           /\ p.event = "MetaV1_2" => SubjectOf(address, p) = <<"meta", p.subject>>
  BY DEF SubjectOf, Kinds

\* And the kind of each subject.
LEMMA KindOfSubject ==
    ASSUME NEW address, NEW p, p.event \in Kinds, NEW thing
    PROVE  /\ SubjectOf(address, p) = <<"binding", thing>> =>
                  p.event = "Register" /\ thing = <<p.authority, p.name>>
           /\ SubjectOf(address, p) = <<"line", thing>> =>
                  p.event = "Migrated" /\ thing = <<p.writer, p.namespace>>
           /\ SubjectOf(address, p) = <<"delegate", thing>> =>
                  /\ p.event \in {"Approved", "Revoked"}
                  /\ thing = <<address, p.sender, p.scope, p.delegate>>
           /\ SubjectOf(address, p) = <<"unscoped", thing>> =>
                  /\ p.event \in {"ApprovedUnscoped", "RevokedUnscoped"}
                  /\ thing = <<address, p.sender, p.delegate>>
<1>1. CASE p.event = "Register"
  <2>1. SubjectOf(address, p) = <<"binding", <<p.authority, p.name>>>>
    BY <1>1, SubjectOfKind
  <2> QED BY <1>1, <2>1
<1>2. CASE p.event = "Migrated"
  <2>1. SubjectOf(address, p) = <<"line", <<p.writer, p.namespace>>>>
    BY <1>2, SubjectOfKind
  <2> QED BY <1>2, <2>1
<1>3. CASE p.event \in {"Approved", "Revoked"}
  <2>1. SubjectOf(address, p) = <<"delegate", <<address, p.sender, p.scope, p.delegate>>>>
    BY <1>3, SubjectOfKind
  <2> QED BY <1>3, <2>1
<1>4. CASE p.event \in {"ApprovedUnscoped", "RevokedUnscoped"}
  <2>1. SubjectOf(address, p) = <<"unscoped", <<address, p.sender, p.delegate>>>>
    BY <1>4, SubjectOfKind
  <2> QED BY <1>4, <2>1
<1>5. CASE p.event = "MetaV1_2"
  <2>1. SubjectOf(address, p) = <<"meta", p.subject>>
    BY <1>5, SubjectOfKind
  <2> QED BY <1>5, <2>1
<1> QED
  BY <1>1, <1>2, <1>3, <1>4, <1>5 DEF Kinds

\* One more event about its own subject, and none about another but a meta's.
LEMMA ToldAbout ==
    ASSUME NEW registry, NEW p, Told(registry, p), NEW kind, NEW thing, kind # "meta"
    PROVE  LET subject == <<kind, thing>>
               before == About(log, subject, Len(log))
               after == About(log', subject, Len(log'))
           IN
           /\ SubjectOf(registry, p) # subject => after = before
           /\ SubjectOf(registry, p) = subject =>
                  /\ after # {}
                  /\ Cardinality(after) = Cardinality(before) + 1
                  /\ \A i : Newest(i, after) <=> i = Len(log) + 1
<1> DEFINE subject == <<kind, thing>>
           n == Len(log)
           m == Len(log')
<1>1. /\ n \in Nat /\ m \in Nat /\ n + 1 <= m
      /\ \A i \in 1..n : log'[i] = log[i]
      /\ log'[n + 1].address = registry /\ log'[n + 1].params = p
      /\ \A i \in n + 2..m : log'[i].params.event = "MetaV1_2"
  BY DEF Told, LogGrows
<1>2. Subject(log'[n + 1]) = SubjectOf(registry, p)
  BY <1>1 DEF Subject
<1>3. \A i \in n + 2..m : Subject(log'[i]) # subject
  <2>1. TAKE i \in n + 2..m
  <2>2. Subject(log'[i]) = <<"meta", log'[i].params.subject>>
    BY <1>1, SubjectOfKind DEF Subject, Kinds
  <2> QED
    BY <2>2
<1> HIDE DEF subject, n, m
<1>4. About(log', subject, n) = About(log, subject, n)
  BY <1>1, AboutSame
<1>5. About(log', subject, m) = About(log', subject, n + 1)
  <2>1. n + 1 \in Nat /\ (n + 1) + 1 = n + 2 /\ \A i \in 1..n + 1 : log'[i] = log'[i]
    BY <1>1
  <2>2. \A i \in (n + 1) + 1..m : Subject(log'[i]) # subject
    BY <1>3, <2>1
  <2> QED
    BY <1>1, <2>1, <2>2, AboutKept
<1>6. /\ Subject(log'[n + 1]) # subject =>
             About(log', subject, n + 1) = About(log', subject, n)
      /\ Subject(log'[n + 1]) = subject =>
             /\ About(log', subject, n + 1) # {}
             /\ Cardinality(About(log', subject, n + 1)) = Cardinality(About(log', subject, n)) + 1
             /\ \A i : Newest(i, About(log', subject, n + 1)) <=> i = n + 1
  <2>1. n \in Nat
    BY <1>1
  <2>2. Subject(log'[n + 1]) # subject =>
            About(log', subject, n + 1) = About(log', subject, n)
    BY <2>1, AboutNext
  <2>3. ASSUME Subject(log'[n + 1]) = subject
        PROVE  /\ About(log', subject, n + 1) # {}
               /\ Cardinality(About(log', subject, n + 1))
                      = Cardinality(About(log', subject, n)) + 1
               /\ \A i : Newest(i, About(log', subject, n + 1)) <=> i = n + 1
    <3>1. About(log', subject, n + 1) = About(log', subject, n) \cup {n + 1}
      BY <2>1, <2>3, AboutNext
    <3>2. Cardinality(About(log', subject, n + 1)) = Cardinality(About(log', subject, n)) + 1
      BY <2>1, <2>3, AboutNext
    <3>3. \A j \in About(log', subject, n) : j \in 1..n
      BY DEF About
    <3>4. \A i : Newest(i, About(log', subject, n + 1)) <=> i = n + 1
      BY <2>1, <3>1, <3>3 DEF Newest
    <3> QED
      BY <3>1, <3>2, <3>4
  <2> QED
    BY <2>2, <2>3
<1> QED
  BY <1>2, <1>4, <1>5, <1>6 DEF subject, n, m

\* A call and its log.
LEMMA ToldLemma ==
    ASSUME LogOrdered, NEW registry, NEW list, IsList(list), Len(list) > 0,
           \A k \in 1..Len(list) : Written(registry, list[k]),
           \A k \in 2..Len(list) : list[k].event = "MetaV1_2",
           Emit(registry, list), ends' = ends
    PROVE  LogOrdered' /\ Told(registry, list[1]) /\ Emitted(registry, list)
<1>1. Emitted(registry, list)
  BY EmitLemma DEF LogOrdered
<1>2. LogOrdered'
  BY <1>1, EmittedInOrder
<1>3. Told(registry, list[1])
  <2>1. /\ LogGrows /\ Len(log') = Len(log) + Len(list)
        /\ \A k \in 1..Len(list) :
               /\ log'[Len(log) + k].address = registry
               /\ log'[Len(log) + k].block = block
               /\ log'[Len(log) + k].params = list[k]
    BY <1>1 DEF Emitted
  <2>2. Len(list) \in Nat /\ Len(log) \in Nat
    BY <2>1, ListDomain DEF LogGrows
  <2>3. 1 \in 1..Len(list) /\ Len(log) < Len(log')
    BY <2>1, <2>2
  <2>4. ASSUME NEW i \in Len(log) + 2..Len(log')
        PROVE  log'[i].params.event = "MetaV1_2"
    <3>1. i - Len(log) \in 2..Len(list) /\ i - Len(log) \in 1..Len(list)
          /\ Len(log) + (i - Len(log)) = i
      BY <2>1, <2>2
    <3> QED
      BY <2>1, <3>1
  <2> QED
    BY <2>1, <2>3, <2>4 DEF Told
<1> QED
  BY <1>1, <1>2, <1>3

-----------------------------------------------------------------------------
(* What the registries hold and what the log says of it.                   *)

Approvals(scopes) == [Addresses -> [scopes -> SUBSET Accounts]]

ChainTyped ==
    /\ cApproved \in Approvals(Names)
    /\ cApprovedUnscoped \in [Addresses -> SUBSET Accounts]
    /\ sBindings \in [Addresses -> [Names -> Config!Binding]]
    /\ IsList(registers)
    /\ mApproved \in Approvals(Migration!Words)
    /\ mApprovedUnscoped \in [Addresses -> SUBSET Accounts]
    /\ sRecords \in [Addresses -> [Migration!Words ->
                        [Migration!MigrationWords -> Migration!MigrationRecord]]]
    /\ sHead \in [Addresses -> [Migration!Words -> Migrations \cup {ZeroBytes32}]]
    /\ now \in Nat

\* A block has at most one Register of a name, so what the name is bound to at
\* its end is what that Register bound.
BlocksAnswer ==
    \A i \in 1..Len(log) : log[i].params.event = "Register" =>
        LET p == log[i].params
            held == IF log[i].block = block
                    THEN sBindings[p.authority][p.name]
                    ELSE ends[log[i].block][p.authority][p.name]
        IN
        /\ held.valueTypeHash = p.valueType
        /\ log[i].block = block => held.registeredAt = now

\* A name is bound to what the last Register of it says.
BindingLogged(l, a, n, binding, count) ==
    LET events == About(l, <<"binding", <<a, n>>>>, Len(l)) IN
    /\ binding.value # EmptyValue <=> events # {}
    /\ \A i \in 1..Len(l) : Newest(i, events) =>
           binding.value = l[i].params.value /\ binding.valueTypeHash = l[i].params.valueType
    /\ count = Cardinality(events)

BindingsLogged ==
    \A a \in Addresses, n \in Names :
        /\ IsFiniteSet(Config!BindsOf(a, n))
        /\ BindingLogged(log, a, n, sBindings[a][n], Cardinality(Config!BindsOf(a, n)))

\* A meta comes straight after the write it is about.
WrittenKey(p) ==
    IF p.event = "Register" THEN <<p.authority, p.name>>
    ELSE <<p.writer, p.namespace, p.migration>>

MetaFollows ==
    \A i \in 1..Len(log) : log[i].params.event = "MetaV1_2" =>
        /\ i - 1 \in 1..Len(log)
        /\ log[i - 1].transaction = log[i].transaction
        /\ log[i - 1].address = log[i].address
        /\ log[i - 1].params.event \in {"Register", "Migrated"}
        /\ log[i].params.subject = WrittenKey(log[i - 1].params)

\* A write emits its own event, and after it its meta if it has one.
LEMMA WithMetaList ==
    ASSUME NEW p, NEW subject, NEW meta
    PROVE  LET list == WithMeta(p, subject, meta) IN
           /\ IsList(list) /\ Len(list) \in {1, 2} /\ list[1] = p
           /\ Len(list) = 2 =>
                  list[2].event = "MetaV1_2" /\ list[2].subject = subject
<1> DEFINE m == [event |-> "MetaV1_2", sender |-> p.sender, subject |-> subject, meta |-> meta]
<1>1. m.event = "MetaV1_2" /\ m.subject = subject
  OBVIOUS
<1>2. WithMeta(p, subject, meta) = <<p>> \/ WithMeta(p, subject, meta) = <<p, m>>
  BY DEF WithMeta
<1> HIDE DEF m
<1>3. IsList(<<p>>) /\ Len(<<p>>) = 1 /\ <<p>>[1] = p
  BY Singleton
<1>4. IsList(<<p, m>>) /\ Len(<<p, m>>) = 2 /\ <<p, m>>[1] = p /\ <<p, m>>[2] = m
  BY Pair
<1>5. CASE WithMeta(p, subject, meta) = <<p>>
  BY <1>3, <1>5
<1>6. CASE WithMeta(p, subject, meta) = <<p, m>>
  BY <1>1, <1>4, <1>6
<1> QED
  BY <1>2, <1>5, <1>6

\* What a call emits leaves every meta straight after its write.
LEMMA MetaFollowsStep ==
    ASSUME MetaFollows, NEW registry, NEW list, IsList(list), Emitted(registry, list),
           Len(list) \in {1, 2}, list[1].event # "MetaV1_2",
           Len(list) = 2 => /\ list[1].event \in {"Register", "Migrated"}
                            /\ list[2].subject = WrittenKey(list[1])
    PROVE  MetaFollows'
<1> DEFINE n == Len(log)
<1>1. /\ n \in Nat /\ Len(log') = n + Len(list)
      /\ \A i \in 1..n : log'[i] = log[i]
  BY DEF Emitted, LogGrows
<1>2. PICK t : \A k \in 1..Len(list) :
          /\ log'[n + k].address = registry /\ log'[n + k].transaction = t
          /\ log'[n + k].params = list[k]
  BY DEF Emitted
<1>3. \A i \in 1..n : log[i].params.event = "MetaV1_2" =>
          /\ i - 1 \in 1..n
          /\ log[i - 1].transaction = log[i].transaction
          /\ log[i - 1].address = log[i].address
          /\ log[i - 1].params.event \in {"Register", "Migrated"}
          /\ log[i].params.subject = WrittenKey(log[i - 1].params)
  BY DEF MetaFollows
<1> HIDE DEF n
<1> SUFFICES ASSUME NEW i \in 1..Len(log'), log'[i].params.event = "MetaV1_2"
             PROVE  /\ i - 1 \in 1..Len(log')
                    /\ log'[i - 1].transaction = log'[i].transaction
                    /\ log'[i - 1].address = log'[i].address
                    /\ log'[i - 1].params.event \in {"Register", "Migrated"}
                    /\ log'[i].params.subject = WrittenKey(log'[i - 1].params)
  BY DEF MetaFollows
<1>4. CASE i \in 1..n
  <2>1. log'[i] = log[i]
    BY <1>1, <1>4
  <2>2. i - 1 \in 1..n
    BY <1>3, <1>4, <2>1
  <2>3. log'[i - 1] = log[i - 1]
    BY <1>1, <2>2
  <2>4. i - 1 \in 1..Len(log')
    BY <1>1, <2>2
  <2> QED
    BY <1>3, <1>4, <2>1, <2>3, <2>4
<1>5. CASE i = n + 1
  <2>1. 1 \in 1..Len(list)
    OBVIOUS
  <2>2. log'[i].params = list[1]
    BY <1>2, <1>5, <2>1
  <2> QED
    BY <2>2
<1>6. CASE i = n + 2 /\ Len(list) = 2
  <2>1. 1 \in 1..Len(list) /\ 2 \in 1..Len(list) /\ i - 1 = n + 1
    BY <1>1, <1>6
  <2>2. /\ log'[i].params = list[2] /\ log'[i - 1].params = list[1]
        /\ log'[i - 1].transaction = t /\ log'[i].transaction = t
        /\ log'[i - 1].address = registry /\ log'[i].address = registry
    BY <1>2, <1>6, <2>1
  <2>3. i - 1 \in 1..Len(log')
    BY <1>1, <1>6
  <2> QED
    BY <1>6, <2>2, <2>3
<1>7. i \in 1..n \/ i = n + 1 \/ (i = n + 2 /\ Len(list) = 2)
  <2>1. \A k \in {1, 2} : \A j \in 1..n + k : j \in 1..n \/ j = n + 1 \/ (j = n + 2 /\ k = 2)
    BY <1>1
  <2>2. i \in 1..n + Len(list)
    BY <1>1
  <2> QED
    BY <2>1, <2>2
<1> QED
  BY <1>4, <1>5, <1>6, <1>7

\* Events about other things leave what is logged of a binding.
LEMMA BindingStillLogged ==
    ASSUME NEW registry, NEW p, Told(registry, p), NEW a, NEW n, NEW binding, NEW count,
           SubjectOf(registry, p) # <<"binding", <<a, n>>>>,
           BindingLogged(log, a, n, binding, count)
    PROVE  BindingLogged(log', a, n, binding, count)
<1> DEFINE subject == <<"binding", <<a, n>>>>
           events == About(log, subject, Len(log))
<1>1. About(log', subject, Len(log')) = events
  BY ToldAbout
<1>2. /\ Len(log) \in Nat /\ Len(log') \in Nat
      /\ \A i \in 1..Len(log) : log'[i] = log[i]
  BY DEF Told, LogGrows
<1>3. \A i : Newest(i, events) => i \in 1..Len(log)
  BY DEF Newest, About
<1> QED
  BY <1>1, <1>2, <1>3 DEF BindingLogged

\* What a Register does.
LEMMA BindingNowLogged ==
    ASSUME NEW p, Told("config", p), p.event = "Register", p.value # EmptyValue,
           NEW before, NEW count \in Nat,
           BindingLogged(log, p.authority, p.name, before, count),
           NEW after, after.value = p.value, after.valueTypeHash = p.valueType
    PROVE  BindingLogged(log', p.authority, p.name, after, count + 1)
<1> DEFINE subject == <<"binding", <<p.authority, p.name>>>>
           events == About(log', subject, Len(log'))
<1>1. SubjectOf("config", p) = subject
  BY SubjectOfKind DEF Kinds
<1>2. /\ events # {}
      /\ Cardinality(events) = Cardinality(About(log, subject, Len(log))) + 1
      /\ \A i : Newest(i, events) <=> i = Len(log) + 1
  BY <1>1, ToldAbout
<1>3. log'[Len(log) + 1].params = p
  BY DEF Told
<1>4. count = Cardinality(About(log, subject, Len(log)))
  BY DEF BindingLogged
<1> HIDE DEF events
<1>5. /\ after.value # EmptyValue <=> events # {}
      /\ count + 1 = Cardinality(events)
  BY <1>2, <1>4
<1>6. \A i \in 1..Len(log') : Newest(i, events) =>
          after.value = log'[i].params.value /\ after.valueTypeHash = log'[i].params.valueType
  BY <1>2, <1>3
<1> QED
  BY <1>5, <1>6 DEF events, BindingLogged

\* What an accepted bind does to the ConfigRegistry.
Bound(p) ==
    /\ p.event = "Register"
    /\ p.authority \in Addresses /\ p.name \in Names
    /\ p.valueType \in Types /\ p.value \in Values
    /\ now > sBindings[p.authority][p.name].registeredAt
    /\ sBindings' = [sBindings EXCEPT ![p.authority][p.name] =
           [value |-> p.value, registeredAt |-> now, valueTypeHash |-> p.valueType]]
    /\ IsList(registers')
    /\ \A a \in Addresses, n \in Names :
           /\ <<a, n>> # <<p.authority, p.name>> =>
                  Config!BindsOf(a, n)' = Config!BindsOf(a, n)
           /\ <<a, n>> = <<p.authority, p.name>> =>
                  /\ Len(registers) + 1 \notin Config!BindsOf(a, n)
                  /\ Config!BindsOf(a, n)' = Config!BindsOf(a, n) \cup {Len(registers) + 1}
    /\ UNCHANGED <<cApproved, cApprovedUnscoped, now>>

\* A bind that registerV5 accepts.
LEMMA BindLemma ==
    ASSUME ChainTyped, NEW sender \in Accounts, NEW call \in ConfigCalls,
           Config!registerV5(sender, call.authority, call.name, call.valueType, call.value)
    PROVE  Bound(Register(sender, call.authority, call.name, call.valueType, call.value))
<1> DEFINE p == Register(sender, call.authority, call.name, call.valueType, call.value)
           e == [sender |-> sender, authority |-> call.authority, name |-> call.name,
                 valueType |-> call.valueType, value |-> call.value, at |-> now]
<1>1. /\ call.authority \in Addresses /\ call.name \in Names
      /\ call.valueType \in Types \cup {EmptyType} /\ call.value \in Values \cup {EmptyValue}
  BY ConstantsAssumption
<1>2. /\ p.event = "Register" /\ p.authority = call.authority /\ p.name = call.name
      /\ p.valueType = call.valueType /\ p.value = call.value
  BY DEF Register
<1>3. call.valueType \in Types /\ call.value \in Values
  BY <1>1 DEF Config!registerV5, Config!checkValue
<1>4. /\ now > sBindings[call.authority][call.name].registeredAt
      /\ sBindings' = [sBindings EXCEPT ![call.authority][call.name] =
             [value |-> call.value, registeredAt |-> now, valueTypeHash |-> call.valueType]]
      /\ registers' = Append(registers, e)
      /\ UNCHANGED <<cApproved, cApprovedUnscoped, now>>
  BY DEF Config!registerV5, Config!checkTimestamp, Config!bind
<1>5. e.authority = call.authority /\ e.name = call.name
  OBVIOUS
<1> HIDE DEF p, e
<1>6. /\ IsList(registers') /\ Len(registers) \in Nat /\ Len(registers') = Len(registers) + 1
      /\ \A i \in 1..Len(registers) : registers'[i] = registers[i]
      /\ registers'[Len(registers) + 1] = e
  BY <1>4, ListAppend DEF ChainTyped
<1>7. DOMAIN registers = 1..Len(registers) /\ DOMAIN registers' = 1..Len(registers) + 1
  BY <1>6, ListDomain DEF ChainTyped
<1>8. ASSUME NEW a \in Addresses, NEW n \in Names
      PROVE  /\ <<a, n>> # <<call.authority, call.name>> =>
                    Config!BindsOf(a, n)' = Config!BindsOf(a, n)
             /\ <<a, n>> = <<call.authority, call.name>> =>
                    /\ Len(registers) + 1 \notin Config!BindsOf(a, n)
                    /\ Config!BindsOf(a, n)' = Config!BindsOf(a, n) \cup {Len(registers) + 1}
  <2>1. \A i : i \in 1..Len(registers) + 1 <=> i \in 1..Len(registers) \/ i = Len(registers) + 1
    BY <1>6
  <2>2. Len(registers) + 1 \notin 1..Len(registers)
    BY <1>6
  <2> QED
    BY <1>5, <1>6, <1>7, <2>1, <2>2 DEF Config!BindsOf
<1> QED
  BY <1>1, <1>2, <1>3, <1>4, <1>6, <1>8 DEF Bound, p

\* A bind and its event keep what the log says of the bindings.
LEMMA BoundLogged ==
    ASSUME ChainTyped, BindingsLogged, NEW p, Bound(p), Told("config", p)
    PROVE  BindingsLogged'
<1> SUFFICES ASSUME NEW a \in Addresses, NEW n \in Names
             PROVE  /\ IsFiniteSet(Config!BindsOf(a, n)')
                    /\ BindingLogged(log', a, n, sBindings'[a][n],
                                     Cardinality(Config!BindsOf(a, n)'))
  BY DEF BindingsLogged
<1>1. /\ IsFiniteSet(Config!BindsOf(a, n))
      /\ BindingLogged(log, a, n, sBindings[a][n], Cardinality(Config!BindsOf(a, n)))
  BY DEF BindingsLogged
<1>2. CASE <<a, n>> # <<p.authority, p.name>>
  <2>1. Config!BindsOf(a, n)' = Config!BindsOf(a, n)
    BY <1>2 DEF Bound
  <2>2. sBindings'[a][n] = sBindings[a][n]
    BY <1>2 DEF Bound, ChainTyped
  <2>3. SubjectOf("config", p) # <<"binding", <<a, n>>>>
    BY <1>2, KindOfSubject DEF Bound, Kinds
  <2> QED
    BY <1>1, <2>1, <2>2, <2>3, BindingStillLogged
<1>3. CASE <<a, n>> = <<p.authority, p.name>>
  <2>1. a = p.authority /\ n = p.name
    BY <1>3
  <2>2. /\ Len(registers) + 1 \notin Config!BindsOf(a, n)
        /\ Config!BindsOf(a, n)' = Config!BindsOf(a, n) \cup {Len(registers) + 1}
    BY <1>3 DEF Bound
  <2>3. /\ IsFiniteSet(Config!BindsOf(a, n)')
        /\ Cardinality(Config!BindsOf(a, n)') = Cardinality(Config!BindsOf(a, n)) + 1
        /\ Cardinality(Config!BindsOf(a, n)) \in Nat
    BY <1>1, <2>2, FS_AddElement, FS_CardinalityType
  <2>4. sBindings'[a][n].value = p.value /\ sBindings'[a][n].valueTypeHash = p.valueType
    <3>1. sBindings'[a][n] =
              [value |-> p.value, registeredAt |-> now, valueTypeHash |-> p.valueType]
      BY <2>1 DEF Bound, ChainTyped
    <3> QED
      BY <3>1
  <2>5. p.event = "Register" /\ p.value # EmptyValue
    BY ConstantsAssumption DEF Bound
  <2> HIDE <1>3
  <2>6. BindingLogged(log', a, n, sBindings'[a][n], Cardinality(Config!BindsOf(a, n)) + 1)
    BY <1>1, <2>1, <2>3, <2>4, <2>5, BindingNowLogged
  <2> QED
    BY <2>3, <2>6
<1> QED
  BY <1>2, <1>3

\* The new event answers for its name, which no other event of the block is of.
LEMMA BoundAnswers ==
    ASSUME ChainTyped, LogOrdered, BlocksAnswer, NEW p, Bound(p), Told("config", p)
    PROVE  BlocksAnswer'
<1>1. /\ Len(log) \in Nat /\ Len(log') \in Nat
      /\ \A i \in 1..Len(log) : log'[i] = log[i]
      /\ log'[Len(log) + 1].block = block /\ log'[Len(log) + 1].params = p
      /\ \A i \in Len(log) + 2..Len(log') : log'[i].params.event = "MetaV1_2"
  BY DEF Told, LogGrows
<1>2. block' = block /\ ends' = ends /\ now' = now
  BY DEF Told, Bound, block
<1> SUFFICES ASSUME NEW i \in 1..Len(log'), log'[i].params.event = "Register"
             PROVE  LET q == log'[i].params
                        held == IF log'[i].block = block
                                THEN sBindings'[q.authority][q.name]
                                ELSE ends[log'[i].block][q.authority][q.name]
                    IN
                    /\ held.valueTypeHash = q.valueType
                    /\ log'[i].block = block => held.registeredAt = now
  BY <1>2 DEF BlocksAnswer
<1>3. /\ p.authority \in Addresses /\ p.name \in Names
      /\ sBindings'[p.authority][p.name] =
             [value |-> p.value, registeredAt |-> now, valueTypeHash |-> p.valueType]
      /\ \A a \in Addresses, n \in Names :
             a # p.authority \/ n # p.name => sBindings'[a][n] = sBindings[a][n]
  BY DEF Bound, ChainTyped
<1>4. CASE i \in 1..Len(log)
  <2> DEFINE q == log[i].params
  <2>1. log'[i] = log[i]
    BY <1>1, <1>4
  <2>2. q.authority \in Addresses /\ q.name \in Names
    BY <1>4, <2>1 DEF LogOrdered, Written
  <2>3. CASE log[i].block = block
    <3>1. /\ sBindings[q.authority][q.name].valueTypeHash = q.valueType
          /\ sBindings[q.authority][q.name].registeredAt = now
      BY <1>4, <2>1, <2>3 DEF BlocksAnswer
    <3>2. q.authority # p.authority \/ q.name # p.name
      <4>1. sBindings[p.authority][p.name].registeredAt # now
        BY DEF Bound, ChainTyped, Config!Binding
      <4> QED
        BY <3>1, <4>1
    <3>3. sBindings'[q.authority][q.name] = sBindings[q.authority][q.name]
      BY <1>3, <2>2, <3>2
    <3> QED
      BY <2>1, <2>3, <3>1, <3>3
  <2>4. CASE log[i].block # block
    <3>1. ends[log[i].block][q.authority][q.name].valueTypeHash = q.valueType
      BY <1>4, <2>1, <2>4 DEF BlocksAnswer
    <3> QED
      BY <2>1, <2>4, <3>1
  <2> QED
    BY <2>3, <2>4
<1>5. CASE i = Len(log) + 1
  <2>1. log'[i].params = p /\ log'[i].block = block
    BY <1>1, <1>5
  <2> QED
    BY <1>3, <2>1
<1>6. i \in 1..Len(log) \/ i = Len(log) + 1 \/ i \in Len(log) + 2..Len(log')
  BY <1>1
<1> QED
  BY <1>1, <1>4, <1>5, <1>6

\* Calls about anything else leave the bindings and what is logged of them.
LEMMA OthersLeaveBindings ==
    ASSUME BindingsLogged, BlocksAnswer, NEW registry, NEW p, Told(registry, p),
           p.event \in Kinds \ {"Register"},
           UNCHANGED <<sBindings, registers, now>>
    PROVE  BindingsLogged' /\ BlocksAnswer'
<1>1. /\ Len(log) \in Nat /\ Len(log') \in Nat
      /\ \A i \in 1..Len(log) : log'[i] = log[i]
      /\ log'[Len(log) + 1].block = block /\ log'[Len(log) + 1].params = p
      /\ \A i \in Len(log) + 2..Len(log') : log'[i].params.event = "MetaV1_2"
  BY DEF Told, LogGrows
<1>2. block' = block /\ ends' = ends /\ now' = now /\ sBindings' = sBindings
  BY DEF Told, block
<1>3. BlocksAnswer'
  <2>1. \A i \in 1..Len(log') : log'[i].params.event = "Register" => i \in 1..Len(log)
    <3>1. \A i \in 1..Len(log') :
              i \in 1..Len(log) \/ i = Len(log) + 1 \/ i \in Len(log) + 2..Len(log')
      BY <1>1
    <3> QED
      BY <1>1, <3>1
  <2>2. \A i \in 1..Len(log) : log[i].params.event = "Register" =>
            LET q == log[i].params
                held == IF log[i].block = block
                        THEN sBindings[q.authority][q.name]
                        ELSE ends[log[i].block][q.authority][q.name]
            IN
            /\ held.valueTypeHash = q.valueType
            /\ log[i].block = block => held.registeredAt = now
    BY DEF BlocksAnswer
  <2>3. ASSUME NEW i \in 1..Len(log'), log'[i].params.event = "Register"
        PROVE  LET q == log'[i].params
                   held == IF log'[i].block = block
                           THEN sBindings[q.authority][q.name]
                           ELSE ends[log'[i].block][q.authority][q.name]
               IN
               /\ held.valueTypeHash = q.valueType
               /\ log'[i].block = block => held.registeredAt = now
    <3>1. i \in 1..Len(log) /\ log'[i] = log[i]
      BY <1>1, <2>1, <2>3
    <3> QED
      BY <2>2, <2>3, <3>1
  <2> QED
    BY <1>2, <2>3 DEF BlocksAnswer
<1>4. BindingsLogged'
  <2> SUFFICES ASSUME NEW a \in Addresses, NEW n \in Names
               PROVE  /\ IsFiniteSet(Config!BindsOf(a, n)')
                      /\ BindingLogged(log', a, n, sBindings'[a][n],
                                       Cardinality(Config!BindsOf(a, n)'))
    BY DEF BindingsLogged
  <2>1. Config!BindsOf(a, n)' = Config!BindsOf(a, n)
    BY DEF Config!BindsOf
  <2>2. SubjectOf(registry, p) # <<"binding", <<a, n>>>>
    BY KindOfSubject
  <2>3. /\ IsFiniteSet(Config!BindsOf(a, n))
        /\ BindingLogged(log, a, n, sBindings[a][n], Cardinality(Config!BindsOf(a, n)))
    BY DEF BindingsLogged
  <2> QED
    BY <1>2, <2>1, <2>2, <2>3, BindingStillLogged
<1> QED
  BY <1>3, <1>4

-----------------------------------------------------------------------------
(* The lines.                                                              *)

\* A line is at the migration of the last Migrated of it, or at genesis.
LineLogged(l, w, n, head, count) ==
    LET events == About(l, <<"line", <<w, n>>>>, Len(l)) IN
    /\ events = {} => head = Genesis
    /\ \A i \in 1..Len(l) : Newest(i, events) => head = l[i].params.migration
    /\ count = Cardinality(events)

LinesLogged ==
    \A w \in Addresses, n \in Namespaces :
        /\ IsFiniteSet(Migration!AppliedIn(<<w, n>>))
        /\ LineLogged(log, w, n, Migration!HeadOf(<<w, n>>),
                      Cardinality(Migration!AppliedIn(<<w, n>>)))

\* The head a line was at before the i-th event.
HeadBefore(l, i, head) ==
    LET p == l[i].params
        before == About(l, <<"line", <<p.writer, p.namespace>>>>, i - 1)
    IN
    /\ before = {} => head = Genesis
    /\ \A j \in 1..Len(l) : Newest(j, before) => head = l[j].params.migration

RecordsLogged ==
    \A i \in 1..Len(log) : log[i].params.event = "Migrated" =>
        LET p == log[i].params
            key == Migration!Key(p.writer, p.namespace, p.migration)
        IN
        /\ Migration!appliedV5(key) = p.appliedAt
        /\ HeadBefore(log, i, Migration!appliedOntoV5(key))

\* What an accepted migration does to the MigrationRegistry.
Applied(p) ==
    LET key == Migration!Key(p.writer, p.namespace, p.migration) IN
    /\ p.event = "Migrated"
    /\ p.writer \in Addresses /\ p.namespace \in Namespaces
    /\ p.migration \in Migrations /\ p.appliedAt \in Nat \ {0}
    /\ Migration!appliedV5(key) = 0
    /\ Migration!appliedV5(key)' = p.appliedAt
    /\ Migration!appliedOntoV5(key)' = Migration!HeadOf(<<p.writer, p.namespace>>)
    /\ \A other \in Migration!Prerequisite : other # key =>
           /\ Migration!appliedV5(other)' = Migration!appliedV5(other)
           /\ Migration!appliedOntoV5(other)' = Migration!appliedOntoV5(other)
    /\ Migration!HeadOf(<<p.writer, p.namespace>>)' = p.migration
    /\ \A w \in Addresses, n \in Namespaces : <<w, n>> # <<p.writer, p.namespace>> =>
           Migration!HeadOf(<<w, n>>)' = Migration!HeadOf(<<w, n>>)
    /\ sRecords' \in [Addresses -> [Migration!Words ->
                        [Migration!MigrationWords -> Migration!MigrationRecord]]]
    /\ sHead' \in [Addresses -> [Migration!Words -> Migrations \cup {ZeroBytes32}]]
    /\ UNCHANGED <<mApproved, mApprovedUnscoped, now>>

\* A migration that applyMigrationRecord accepts.
LEMMA ApplyLemma ==
    ASSUME ChainTyped, NEW sender \in Accounts, NEW call \in MigrationCalls,
           NEW appliedAt \in Nat,
           Migration!applyMigrationRecord(sender, call.writer, call.namespace,
               call.migration, appliedAt, call.prerequisites)
    PROVE  Applied(Migrated(sender, call.writer, call.namespace, call.migration, appliedAt))
<1> DEFINE p == Migrated(sender, call.writer, call.namespace, call.migration, appliedAt)
           w == call.writer
           n == call.namespace
           m == call.migration
           list == call.prerequisites
           key == Migration!Key(w, n, m)
           head == Migration!HeadOf(<<w, n>>)
           row == [appliedAt |-> appliedAt, appliedAfter |-> list, writtenBy |-> sender]
<1>1. /\ w \in Addresses /\ n \in Migration!Words /\ m \in Migration!MigrationWords
      /\ list \in Seq(Migration!Prerequisite)
  BY ConstantsAssumption
<1>2. /\ p.event = "Migrated" /\ p.writer = w /\ p.namespace = n /\ p.migration = m
      /\ p.appliedAt = appliedAt
  BY DEF Migrated
<1>3. n \in Namespaces /\ m \in Migrations /\ appliedAt \in Nat \ {0}
  BY <1>1 DEF Migration!applyMigrationRecord, Migration!checkMigrationArguments,
              Migration!Words, Migration!MigrationWords
<1>4. /\ Migration!appliedV5(key) = 0
      /\ sRecords' = [sRecords EXCEPT ![w][n][m] = row]
      /\ sHead' = [sHead EXCEPT ![w][n] = m]
      /\ UNCHANGED <<mApproved, mApprovedUnscoped, now>>
  BY DEF Migration!applyMigrationRecord, Migration!writeMigrationRecord,
         Migration!checkNotApplied
<1>5. list # <<>> /\ Head(list).migration = head
  <2>1. list # <<>> /\ Head(list) = Migration!Key(w, n, Migration!headV5(w, n))
    BY DEF Migration!applyMigrationRecord, Migration!checkPrerequisites, Migration!checkHead
  <2>2. Migration!Key(w, n, Migration!headV5(w, n)).migration = Migration!headV5(w, n)
    BY DEF Migration!Key
  <2>3. head = Migration!headV5(w, n)
    BY DEF Migration!HeadOf
  <2> QED
    BY <2>1, <2>2, <2>3
<1>6. row \in Migration!MigrationRecord
  BY <1>1, <1>3 DEF Migration!MigrationRecord, Migration!Addresses
<1>7. key.writer = w /\ key.namespace = n /\ key.migration = m
  BY DEF Migration!Key
<1>8. row.appliedAt = appliedAt /\ row.appliedAfter = list
  OBVIOUS
<1> HIDE DEF p, w, n, m, list, key, head, row
<1>9. /\ sRecords' \in [Addresses -> [Migration!Words ->
                           [Migration!MigrationWords -> Migration!MigrationRecord]]]
      /\ sHead' \in [Addresses -> [Migration!Words -> Migrations \cup {ZeroBytes32}]]
  BY <1>1, <1>3, <1>4, <1>6 DEF ChainTyped
<1>10. /\ Migration!appliedV5(key)' = appliedAt
       /\ Migration!appliedOntoV5(key)' = head
  <2>1. Migration!record(key)' = row
    BY <1>1, <1>4, <1>7 DEF ChainTyped, Migration!record
  <2> QED
    BY <1>5, <1>8, <2>1 DEF Migration!appliedV5, Migration!appliedOntoV5
<1>11. ASSUME NEW other \in Migration!Prerequisite, other # key
       PROVE  /\ Migration!appliedV5(other)' = Migration!appliedV5(other)
              /\ Migration!appliedOntoV5(other)' = Migration!appliedOntoV5(other)
  <2>1. /\ other.writer \in Addresses /\ other.namespace \in Migration!Words
        /\ other.migration \in Migration!MigrationWords
    BY DEF Migration!Prerequisite, Migration!Addresses, Addresses
  <2>2. other.writer # w \/ other.namespace # n \/ other.migration # m
    BY <1>11 DEF Migration!Prerequisite, key, Migration!Key
  <2>3. Migration!record(other)' = Migration!record(other)
    BY <1>1, <1>4, <2>1, <2>2 DEF ChainTyped, Migration!record
  <2> QED
    BY <2>3 DEF Migration!appliedV5, Migration!appliedOntoV5
<1>12. Migration!HeadOf(<<w, n>>)' = m
  <2>1. sHead'[w][n] = m /\ m # ZeroBytes32
    BY <1>1, <1>3, <1>4, ConstantsAssumption DEF ChainTyped
  <2> QED
    BY <2>1 DEF Migration!HeadOf, Migration!headV5
<1>13. ASSUME NEW a \in Addresses, NEW b \in Namespaces, <<a, b>> # <<w, n>>
       PROVE  Migration!HeadOf(<<a, b>>)' = Migration!HeadOf(<<a, b>>)
  <2>1. b \in Migration!Words /\ (a # w \/ b # n)
    BY <1>13 DEF Migration!Words
  <2>2. sHead'[a][b] = sHead[a][b]
    BY <1>1, <1>4, <2>1 DEF ChainTyped
  <2> QED
    BY <2>2 DEF Migration!HeadOf, Migration!headV5
<1>14. key = Migration!Key(p.writer, p.namespace, p.migration)
       /\ head = Migration!HeadOf(<<p.writer, p.namespace>>)
  BY <1>2 DEF key, head
<1>15. Applied(p)
  BY <1>1, <1>2, <1>3, <1>4, <1>9, <1>10, <1>11, <1>12, <1>13, <1>14 DEF Applied
<1> QED
  BY <1>15 DEF p, w, n, m

\* An event about something else leaves what the log says of a line.
LEMMA LineStillLogged ==
    ASSUME NEW registry, NEW p, Told(registry, p), NEW w, NEW n, NEW head, NEW count,
           SubjectOf(registry, p) # <<"line", <<w, n>>>>,
           LineLogged(log, w, n, head, count)
    PROVE  LineLogged(log', w, n, head, count)
<1> DEFINE subject == <<"line", <<w, n>>>>
           events == About(log, subject, Len(log))
<1>1. About(log', subject, Len(log')) = events
  BY ToldAbout
<1>2. /\ Len(log) \in Nat /\ Len(log') \in Nat
      /\ \A i \in 1..Len(log) : log'[i] = log[i]
  BY DEF Told, LogGrows
<1>3. \A i : Newest(i, events) => i \in 1..Len(log)
  BY DEF Newest, About
<1> QED
  BY <1>1, <1>2, <1>3 DEF LineLogged

\* A Migrated says what its own line is at now.
LEMMA LineNowLogged ==
    ASSUME NEW p, Told("migration", p), p.event = "Migrated",
           NEW head, NEW count \in Nat,
           LineLogged(log, p.writer, p.namespace, head, count)
    PROVE  LineLogged(log', p.writer, p.namespace, p.migration, count + 1)
<1> DEFINE subject == <<"line", <<p.writer, p.namespace>>>>
           events == About(log', subject, Len(log'))
<1>1. SubjectOf("migration", p) = subject
  BY SubjectOfKind DEF Kinds
<1>2. /\ events # {}
      /\ Cardinality(events) = Cardinality(About(log, subject, Len(log))) + 1
      /\ \A i : Newest(i, events) <=> i = Len(log) + 1
  BY <1>1, ToldAbout
<1>3. log'[Len(log) + 1].params = p
  BY DEF Told
<1>4. count = Cardinality(About(log, subject, Len(log)))
  BY DEF LineLogged
<1> HIDE DEF events
<1>5. events # {} /\ count + 1 = Cardinality(events)
  BY <1>2, <1>4
<1>6. \A i \in 1..Len(log') : Newest(i, events) => p.migration = log'[i].params.migration
  BY <1>2, <1>3
<1> QED
  BY <1>5, <1>6 DEF events, LineLogged

\* An accepted migration keeps the lines as the log says.
LEMMA AppliedLines ==
    ASSUME ChainTyped, LinesLogged, NEW p, Applied(p), Told("migration", p)
    PROVE  LinesLogged'
<1> SUFFICES ASSUME NEW w \in Addresses, NEW n \in Namespaces
             PROVE  /\ IsFiniteSet(Migration!AppliedIn(<<w, n>>)')
                    /\ LineLogged(log', w, n, Migration!HeadOf(<<w, n>>)',
                                  Cardinality(Migration!AppliedIn(<<w, n>>)'))
  BY DEF LinesLogged
<1>1. /\ IsFiniteSet(Migration!AppliedIn(<<w, n>>))
      /\ LineLogged(log, w, n, Migration!HeadOf(<<w, n>>),
                    Cardinality(Migration!AppliedIn(<<w, n>>)))
  BY DEF LinesLogged
<1>2. ASSUME NEW m \in Migration!MigrationWords
      PROVE  LET key == Migration!Key(w, n, m) IN
             /\ key \in Migration!Prerequisite
             /\ key # Migration!Key(p.writer, p.namespace, p.migration) =>
                    Migration!appliedV5(key)' = Migration!appliedV5(key)
             /\ key = Migration!Key(p.writer, p.namespace, p.migration) <=>
                    <<w, n>> = <<p.writer, p.namespace>> /\ m = p.migration
  <2>1. Migration!Key(w, n, m) \in Migration!Prerequisite
    BY DEF Migration!Key, Migration!Prerequisite, Migration!Addresses, Addresses,
           Migration!Words
  <2>2. Migration!Key(w, n, m) = Migration!Key(p.writer, p.namespace, p.migration) <=>
            w = p.writer /\ n = p.namespace /\ m = p.migration
    BY DEF Migration!Key
  <2> QED
    BY <2>1, <2>2 DEF Applied
<1>3. CASE <<w, n>> # <<p.writer, p.namespace>>
  <2>1. Migration!AppliedIn(<<w, n>>)' = Migration!AppliedIn(<<w, n>>)
    BY <1>2, <1>3 DEF Migration!AppliedIn
  <2>2. Migration!HeadOf(<<w, n>>)' = Migration!HeadOf(<<w, n>>)
    BY <1>3 DEF Applied
  <2>3. SubjectOf("migration", p) # <<"line", <<w, n>>>>
    BY <1>3, KindOfSubject DEF Applied, Kinds
  <2> QED
    BY <1>1, <2>1, <2>2, <2>3, LineStillLogged
<1>4. CASE <<w, n>> = <<p.writer, p.namespace>>
  <2>1. w = p.writer /\ n = p.namespace
    BY <1>4
  <2>2. /\ p.migration \in Migration!MigrationWords
        /\ p.migration \notin Migration!AppliedIn(<<w, n>>)
        /\ Migration!AppliedIn(<<w, n>>)' = Migration!AppliedIn(<<w, n>>) \cup {p.migration}
    <3>1. p.migration \in Migration!MigrationWords
      BY DEF Applied, Migration!MigrationWords
    <3>2. LET key == Migration!Key(w, n, p.migration) IN
          Migration!appliedV5(key) = 0 /\ Migration!appliedV5(key)' # 0
      BY <2>1 DEF Applied
    <3>3. \A m \in Migration!MigrationWords : m # p.migration =>
              Migration!appliedV5(Migration!Key(w, n, m))'
                  = Migration!appliedV5(Migration!Key(w, n, m))
      BY <1>2
    <3> QED
      BY <3>1, <3>2, <3>3 DEF Migration!AppliedIn
  <2>3. /\ IsFiniteSet(Migration!AppliedIn(<<w, n>>)')
        /\ Cardinality(Migration!AppliedIn(<<w, n>>)')
               = Cardinality(Migration!AppliedIn(<<w, n>>)) + 1
        /\ Cardinality(Migration!AppliedIn(<<w, n>>)) \in Nat
    BY <1>1, <2>2, FS_AddElement, FS_CardinalityType
  <2>4. p.event = "Migrated" /\ Migration!HeadOf(<<w, n>>)' = p.migration
    BY <2>1 DEF Applied
  <2>5. LineLogged(log', w, n, p.migration, Cardinality(Migration!AppliedIn(<<w, n>>)) + 1)
    BY <1>1, <2>1, <2>3, <2>4, LineNowLogged
  <2> QED
    BY <2>3, <2>4, <2>5
<1> QED
  BY <1>3, <1>4

\* What is known of a head before an event stays known as the log goes on.
LEMMA HeadBeforeKept ==
    ASSUME LogGrows, NEW i \in 1..Len(log), NEW head, HeadBefore(log, i, head)
    PROVE  HeadBefore(log', i, head)
<1> DEFINE p == log[i].params
           subject == <<"line", <<p.writer, p.namespace>>>>
           before == About(log, subject, i - 1)
<1>1. /\ Len(log) \in Nat /\ Len(log') \in Nat /\ i - 1 \in Nat
      /\ \A j \in 1..Len(log) : log'[j] = log[j]
      /\ \A j \in 1..i - 1 : j \in 1..Len(log) /\ log'[j] = log[j]
  BY DEF LogGrows
<1>2. log'[i].params = p
  BY <1>1
<1>3. About(log', subject, i - 1) = before
  BY <1>1, AboutSame
<1>4. \A j : Newest(j, before) => j \in 1..Len(log)
  BY <1>1 DEF Newest, About
<1>5. before = {} => head = Genesis
  BY DEF HeadBefore
<1>6. \A j \in 1..Len(log) : Newest(j, before) => head = log[j].params.migration
  BY DEF HeadBefore
<1> HIDE DEF p, before
<1> QED
  BY <1>1, <1>2, <1>3, <1>4, <1>5, <1>6 DEF HeadBefore

\* An accepted migration keeps the records as the log says.
LEMMA AppliedRecords ==
    ASSUME LogOrdered, LinesLogged, RecordsLogged, NEW p, Applied(p), Told("migration", p)
    PROVE  RecordsLogged'
<1>1. /\ Len(log) \in Nat /\ Len(log') \in Nat /\ LogGrows
      /\ \A i \in 1..Len(log) : log'[i] = log[i]
      /\ log'[Len(log) + 1].params = p
      /\ \A i \in Len(log) + 2..Len(log') : log'[i].params.event = "MetaV1_2"
  BY DEF Told, LogGrows
<1> SUFFICES ASSUME NEW i \in 1..Len(log'), NEW q, q = log'[i].params, q.event = "Migrated",
                    NEW key, key = Migration!Key(q.writer, q.namespace, q.migration)
             PROVE  /\ Migration!appliedV5(key)' = q.appliedAt
                    /\ HeadBefore(log', i, Migration!appliedOntoV5(key)')
  BY DEF RecordsLogged, Migration!appliedV5, Migration!appliedOntoV5, Migration!record
<1>2. CASE i \in 1..Len(log)
  <2>1. log'[i] = log[i] /\ log[i].params = q
    BY <1>1, <1>2
  <2>2. /\ Migration!appliedV5(key) = q.appliedAt
        /\ HeadBefore(log, i, Migration!appliedOntoV5(key))
    BY <1>2, <2>1 DEF RecordsLogged
  <2>3. q.appliedAt # 0 /\ key \in Migration!Prerequisite
    <3>1. /\ q.writer \in Addresses /\ q.namespace \in Namespaces
          /\ q.migration \in Migrations /\ q.appliedAt \in Nat \ {0}
      BY <1>2, <2>1 DEF LogOrdered, Written
    <3> QED
      BY <3>1 DEF Migration!Key, Migration!Prerequisite, Migration!Addresses, Addresses,
             Migration!Words, Migration!MigrationWords
  <2>4. key # Migration!Key(p.writer, p.namespace, p.migration)
    BY <2>2, <2>3 DEF Applied
  <2>5. /\ Migration!appliedV5(key)' = Migration!appliedV5(key)
        /\ Migration!appliedOntoV5(key)' = Migration!appliedOntoV5(key)
    BY <2>3, <2>4 DEF Applied
  <2>6. HeadBefore(log', i, Migration!appliedOntoV5(key))
    BY <1>1, <1>2, <2>2, HeadBeforeKept
  <2> QED
    BY <2>1, <2>2, <2>5, <2>6
<1>3. CASE i = Len(log) + 1
  <2> DEFINE head == Migration!HeadOf(<<p.writer, p.namespace>>)
             subject == <<"line", <<p.writer, p.namespace>>>>
  <2>1. log'[i].params = p /\ i - 1 = Len(log)
    BY <1>1, <1>3
  <2>2. LET own == Migration!Key(p.writer, p.namespace, p.migration) IN
        Migration!appliedV5(own)' = p.appliedAt /\ Migration!appliedOntoV5(own)' = head
    BY DEF Applied
  <2>3. LineLogged(log, p.writer, p.namespace, head,
                   Cardinality(Migration!AppliedIn(<<p.writer, p.namespace>>)))
    BY DEF LinesLogged, Applied
  <2>4. About(log', subject, Len(log)) = About(log, subject, Len(log))
    BY <1>1, AboutSame
  <2>5. \A j : Newest(j, About(log, subject, Len(log))) => j \in 1..Len(log)
    BY DEF Newest, About
  <2>6. /\ About(log, subject, Len(log)) = {} => head = Genesis
        /\ \A j \in 1..Len(log) : Newest(j, About(log, subject, Len(log))) =>
               head = log[j].params.migration
    BY <2>3 DEF LineLogged
  <2> HIDE DEF head
  <2>7. HeadBefore(log', i, head)
    BY <1>1, <2>1, <2>4, <2>5, <2>6 DEF HeadBefore
  <2> QED
    BY <2>1, <2>2, <2>7
<1>4. i \in 1..Len(log) \/ i = Len(log) + 1 \/ i \in Len(log) + 2..Len(log')
  BY <1>1
<1> QED
  BY <1>1, <1>2, <1>3, <1>4

\* A call of another kind leaves lines and records.
LEMMA OthersLeaveLines ==
    ASSUME LinesLogged, RecordsLogged, NEW registry, NEW p, Told(registry, p),
           p.event \in Kinds \ {"Migrated"},
           UNCHANGED <<sRecords, sHead>>
    PROVE  LinesLogged' /\ RecordsLogged'
<1>1. /\ Len(log) \in Nat /\ Len(log') \in Nat /\ LogGrows
      /\ \A i \in 1..Len(log) : log'[i] = log[i]
      /\ log'[Len(log) + 1].params = p
      /\ \A i \in Len(log) + 2..Len(log') : log'[i].params.event = "MetaV1_2"
  BY DEF Told, LogGrows
<1>2. /\ \A key : /\ Migration!appliedV5(key)' = Migration!appliedV5(key)
                  /\ Migration!appliedOntoV5(key)' = Migration!appliedOntoV5(key)
      /\ \A line : /\ Migration!HeadOf(line)' = Migration!HeadOf(line)
                   /\ Migration!AppliedIn(line)' = Migration!AppliedIn(line)
  BY DEF Migration!record, Migration!appliedV5, Migration!appliedOntoV5, Migration!HeadOf,
         Migration!headV5, Migration!AppliedIn
<1>3. LinesLogged'
  <2> SUFFICES ASSUME NEW w \in Addresses, NEW n \in Namespaces
               PROVE  /\ IsFiniteSet(Migration!AppliedIn(<<w, n>>)')
                      /\ LineLogged(log', w, n, Migration!HeadOf(<<w, n>>)',
                                    Cardinality(Migration!AppliedIn(<<w, n>>)'))
    BY DEF LinesLogged
  <2>1. SubjectOf(registry, p) # <<"line", <<w, n>>>>
    BY KindOfSubject
  <2>2. /\ IsFiniteSet(Migration!AppliedIn(<<w, n>>))
        /\ LineLogged(log, w, n, Migration!HeadOf(<<w, n>>),
                      Cardinality(Migration!AppliedIn(<<w, n>>)))
    BY DEF LinesLogged
  <2> QED
    BY <1>2, <2>1, <2>2, LineStillLogged
<1>4. RecordsLogged'
  <2> SUFFICES ASSUME NEW i \in 1..Len(log'), NEW q, q = log'[i].params, q.event = "Migrated",
                      NEW key, key = Migration!Key(q.writer, q.namespace, q.migration)
               PROVE  /\ Migration!appliedV5(key)' = q.appliedAt
                      /\ HeadBefore(log', i, Migration!appliedOntoV5(key)')
    BY DEF RecordsLogged, Migration!appliedV5, Migration!appliedOntoV5, Migration!record
  <2>1. i \in 1..Len(log) /\ log'[i] = log[i] /\ log[i].params = q
    <3>1. i \in 1..Len(log) \/ i = Len(log) + 1 \/ i \in Len(log) + 2..Len(log')
      BY <1>1
    <3> QED
      BY <1>1, <3>1
  <2>2. /\ Migration!appliedV5(key) = q.appliedAt
        /\ HeadBefore(log, i, Migration!appliedOntoV5(key))
    BY <2>1 DEF RecordsLogged
  <2>3. HeadBefore(log', i, Migration!appliedOntoV5(key))
    BY <1>1, <2>1, <2>2, HeadBeforeKept
  <2> QED
    BY <1>2, <2>1, <2>2, <2>3
<1> QED
  BY <1>3, <1>4

-----------------------------------------------------------------------------
(* The delegates.                                                          *)

\* An approval stands as the last event about it left it.
Decided(l, subject, approved, yes) ==
    LET events == About(l, subject, Len(l)) IN
    /\ events = {} => ~approved
    /\ \A i \in 1..Len(l) : Newest(i, events) => (approved <=> l[i].params.event = yes)

DelegatesDecided(l, registry, approved, unscoped, scopes) ==
    \A account \in Addresses, delegate \in Accounts :
        /\ \A scope \in scopes :
               Decided(l, <<"delegate", <<registry, account, scope, delegate>>>>,
                       delegate \in approved[account][scope], "Approved")
        /\ Decided(l, <<"unscoped", <<registry, account, delegate>>>>,
                   delegate \in unscoped[account], "ApprovedUnscoped")

DelegatesLogged ==
    /\ DelegatesDecided(log, "config", cApproved, cApprovedUnscoped, Names)
    /\ DelegatesDecided(log, "migration", mApproved, mApprovedUnscoped, Namespaces)

\* An event about something else leaves an approval as it stood.
LEMMA StillDecided ==
    ASSUME NEW registry, NEW p, Told(registry, p), NEW kind, NEW thing, kind # "meta",
           SubjectOf(registry, p) # <<kind, thing>>, NEW yes,
           NEW before, NEW after, before <=> after,
           Decided(log, <<kind, thing>>, before, yes)
    PROVE  Decided(log', <<kind, thing>>, after, yes)
<1> DEFINE subject == <<kind, thing>>
           events == About(log, subject, Len(log))
<1>1. About(log', subject, Len(log')) = events
  BY ToldAbout
<1>2. /\ Len(log) \in Nat /\ Len(log') \in Nat
      /\ \A i \in 1..Len(log) : log'[i] = log[i]
  BY DEF Told, LogGrows
<1>3. \A i : Newest(i, events) => i \in 1..Len(log)
  BY DEF Newest, About
<1> QED
  BY <1>1, <1>2, <1>3 DEF Decided

\* The event of an approval or a revocation decides it.
LEMMA NowDecided ==
    ASSUME NEW registry, NEW p, Told(registry, p), NEW kind, NEW thing, kind # "meta",
           SubjectOf(registry, p) = <<kind, thing>>, NEW yes,
           NEW after, after <=> p.event = yes
    PROVE  Decided(log', <<kind, thing>>, after, yes)
<1> DEFINE subject == <<kind, thing>>
           events == About(log', subject, Len(log'))
<1>1. events # {} /\ \A i : Newest(i, events) <=> i = Len(log) + 1
  BY ToldAbout
<1>2. log'[Len(log) + 1].params = p
  BY DEF Told
<1> HIDE DEF events
<1>3. \A i \in 1..Len(log') : Newest(i, events) => (after <=> log'[i].params.event = yes)
  BY <1>1, <1>2
<1> QED
  BY <1>1, <1>3 DEF events, Decided

\* An event that is about no delegate of the registry decides none.
LEMMA OthersDecideNone ==
    ASSUME NEW told, NEW p, Told(told, p), p.event \in Kinds,
           NEW registry, NEW approved, NEW unscoped, NEW scopes,
           told # registry \/ p.event \in {"Register", "Migrated"},
           DelegatesDecided(log, registry, approved, unscoped, scopes)
    PROVE  DelegatesDecided(log', registry, approved, unscoped, scopes)
<1> SUFFICES ASSUME NEW account \in Addresses, NEW delegate \in Accounts
             PROVE  /\ \A scope \in scopes :
                           Decided(log', <<"delegate", <<registry, account, scope, delegate>>>>,
                                   delegate \in approved[account][scope], "Approved")
                    /\ Decided(log', <<"unscoped", <<registry, account, delegate>>>>,
                               delegate \in unscoped[account], "ApprovedUnscoped")
  BY DEF DelegatesDecided
<1>1. ASSUME NEW scope \in scopes
      PROVE  Decided(log', <<"delegate", <<registry, account, scope, delegate>>>>,
                     delegate \in approved[account][scope], "Approved")
  <2> DEFINE thing == <<registry, account, scope, delegate>>
             is == delegate \in approved[account][scope]
  <2>1. SubjectOf(told, p) # <<"delegate", thing>>
    <3>1. SubjectOf(told, p) = <<"delegate", thing>> =>
              p.event \in {"Approved", "Revoked"} /\ thing[1] = told
      <4>1. SubjectOf(told, p) = <<"delegate", thing>> =>
                p.event \in {"Approved", "Revoked"}
                /\ thing = <<told, p.sender, p.scope, p.delegate>>
        BY KindOfSubject
      <4> QED BY <4>1
    <3> QED BY <3>1
  <2>2. Decided(log, <<"delegate", thing>>, is, "Approved")
    BY DEF DelegatesDecided
  <2> HIDE DEF thing, is
  <2>3. Decided(log', <<"delegate", thing>>, is, "Approved")
    BY <2>1, <2>2, StillDecided
  <2> QED
    BY <2>3 DEF thing, is
<1>2. Decided(log', <<"unscoped", <<registry, account, delegate>>>>,
              delegate \in unscoped[account], "ApprovedUnscoped")
  <2> DEFINE thing == <<registry, account, delegate>>
             is == delegate \in unscoped[account]
  <2>1. SubjectOf(told, p) # <<"unscoped", thing>>
    <3>1. SubjectOf(told, p) = <<"unscoped", thing>> =>
              p.event \in {"ApprovedUnscoped", "RevokedUnscoped"} /\ thing[1] = told
      <4>1. SubjectOf(told, p) = <<"unscoped", thing>> =>
                p.event \in {"ApprovedUnscoped", "RevokedUnscoped"}
                /\ thing = <<told, p.sender, p.delegate>>
        BY KindOfSubject
      <4> QED BY <4>1
    <3> QED BY <3>1
  <2>2. Decided(log, <<"unscoped", thing>>, is, "ApprovedUnscoped")
    BY DEF DelegatesDecided
  <2> HIDE DEF thing, is
  <2>3. Decided(log', <<"unscoped", thing>>, is, "ApprovedUnscoped")
    BY <2>1, <2>2, StillDecided
  <2> QED
    BY <2>3 DEF thing, is
<1> QED
  BY <1>1, <1>2

\* An approval or a revocation decides the one it is about.
ApprovalDecides(p, approved, approvedAfter, scopes) ==
    \A account \in Addresses, delegate \in Accounts : \A scope \in scopes :
        IF account = p.sender /\ scope = p.scope /\ delegate = p.delegate
        THEN delegate \in approvedAfter[account][scope] <=> p.event = "Approved"
        ELSE delegate \in approvedAfter[account][scope] <=> delegate \in approved[account][scope]

UnscopedDecides(p, unscoped, unscopedAfter) ==
    \A account \in Addresses, delegate \in Accounts :
        IF account = p.sender /\ delegate = p.delegate
        THEN delegate \in unscopedAfter[account] <=> p.event = "ApprovedUnscoped"
        ELSE delegate \in unscopedAfter[account] <=> delegate \in unscoped[account]

\* A call that changes one scoped approval.
LEMMA ScopedDecided ==
    ASSUME NEW registry, NEW p, Told(registry, p), p.event \in {"Approved", "Revoked"},
           NEW approved, NEW approvedAfter, NEW unscoped, NEW scopes,
           ApprovalDecides(p, approved, approvedAfter, scopes),
           DelegatesDecided(log, registry, approved, unscoped, scopes)
    PROVE  DelegatesDecided(log', registry, approvedAfter, unscoped, scopes)
<1>0. p.event \in Kinds
  BY DEF Kinds
<1> SUFFICES ASSUME NEW account \in Addresses, NEW delegate \in Accounts
             PROVE  /\ \A scope \in scopes :
                           Decided(log', <<"delegate", <<registry, account, scope, delegate>>>>,
                                   delegate \in approvedAfter[account][scope], "Approved")
                    /\ Decided(log', <<"unscoped", <<registry, account, delegate>>>>,
                               delegate \in unscoped[account], "ApprovedUnscoped")
  BY DEF DelegatesDecided
<1>1. ASSUME NEW scope \in scopes
      PROVE  Decided(log', <<"delegate", <<registry, account, scope, delegate>>>>,
                     delegate \in approvedAfter[account][scope], "Approved")
  <2> DEFINE thing == <<registry, account, scope, delegate>>
             is == delegate \in approved[account][scope]
             will == delegate \in approvedAfter[account][scope]
  <2>1. SubjectOf(registry, p) = <<"delegate", <<registry, p.sender, p.scope, p.delegate>>>>
    BY <1>0, SubjectOfKind
  <2>2. Decided(log, <<"delegate", thing>>, is, "Approved")
    BY DEF DelegatesDecided
  <2>3. CASE account = p.sender /\ scope = p.scope /\ delegate = p.delegate
    <3>1. will <=> p.event = "Approved"
      BY <2>3 DEF ApprovalDecides
    <3>2. SubjectOf(registry, p) = <<"delegate", thing>>
      BY <2>1, <2>3
    <3> HIDE DEF thing, will
    <3>3. Decided(log', <<"delegate", thing>>, will, "Approved")
      BY <3>1, <3>2, NowDecided
    <3> QED
      BY <3>3 DEF thing, will
  <2>4. CASE ~(account = p.sender /\ scope = p.scope /\ delegate = p.delegate)
    <3>1. is <=> will
      BY <2>4 DEF ApprovalDecides
    <3>2. SubjectOf(registry, p) # <<"delegate", thing>>
      BY <2>1, <2>4
    <3> HIDE DEF thing, is, will
    <3>3. Decided(log', <<"delegate", thing>>, will, "Approved")
      BY <2>2, <3>1, <3>2, StillDecided
    <3> QED
      BY <3>3 DEF thing, will
  <2> QED
    BY <2>3, <2>4
<1>2. Decided(log', <<"unscoped", <<registry, account, delegate>>>>,
              delegate \in unscoped[account], "ApprovedUnscoped")
  <2> DEFINE thing == <<registry, account, delegate>>
             is == delegate \in unscoped[account]
  <2>1. SubjectOf(registry, p) # <<"unscoped", thing>>
    BY <1>0, KindOfSubject
  <2>2. Decided(log, <<"unscoped", thing>>, is, "ApprovedUnscoped")
    BY DEF DelegatesDecided
  <2> HIDE DEF thing, is
  <2>3. Decided(log', <<"unscoped", thing>>, is, "ApprovedUnscoped")
    BY <2>1, <2>2, StillDecided
  <2> QED
    BY <2>3 DEF thing, is
<1> QED
  BY <1>1, <1>2

\* A call that changes one unscoped approval.
LEMMA UnscopedDecided ==
    ASSUME NEW registry, NEW p, Told(registry, p),
           p.event \in {"ApprovedUnscoped", "RevokedUnscoped"},
           NEW approved, NEW unscoped, NEW unscopedAfter, NEW scopes,
           UnscopedDecides(p, unscoped, unscopedAfter),
           DelegatesDecided(log, registry, approved, unscoped, scopes)
    PROVE  DelegatesDecided(log', registry, approved, unscopedAfter, scopes)
<1>0. p.event \in Kinds
  BY DEF Kinds
<1> SUFFICES ASSUME NEW account \in Addresses, NEW delegate \in Accounts
             PROVE  /\ \A scope \in scopes :
                           Decided(log', <<"delegate", <<registry, account, scope, delegate>>>>,
                                   delegate \in approved[account][scope], "Approved")
                    /\ Decided(log', <<"unscoped", <<registry, account, delegate>>>>,
                               delegate \in unscopedAfter[account], "ApprovedUnscoped")
  BY DEF DelegatesDecided
<1>1. ASSUME NEW scope \in scopes
      PROVE  Decided(log', <<"delegate", <<registry, account, scope, delegate>>>>,
                     delegate \in approved[account][scope], "Approved")
  <2> DEFINE thing == <<registry, account, scope, delegate>>
             is == delegate \in approved[account][scope]
  <2>1. SubjectOf(registry, p) # <<"delegate", thing>>
    BY <1>0, KindOfSubject
  <2>2. Decided(log, <<"delegate", thing>>, is, "Approved")
    BY DEF DelegatesDecided
  <2> HIDE DEF thing, is
  <2>3. Decided(log', <<"delegate", thing>>, is, "Approved")
    BY <2>1, <2>2, StillDecided
  <2> QED
    BY <2>3 DEF thing, is
<1>2. Decided(log', <<"unscoped", <<registry, account, delegate>>>>,
              delegate \in unscopedAfter[account], "ApprovedUnscoped")
  <2> DEFINE thing == <<registry, account, delegate>>
             is == delegate \in unscoped[account]
             will == delegate \in unscopedAfter[account]
  <2>1. SubjectOf(registry, p) = <<"unscoped", <<registry, p.sender, p.delegate>>>>
    BY <1>0, SubjectOfKind
  <2>2. Decided(log, <<"unscoped", thing>>, is, "ApprovedUnscoped")
    BY DEF DelegatesDecided
  <2>3. CASE account = p.sender /\ delegate = p.delegate
    <3>1. will <=> p.event = "ApprovedUnscoped"
      BY <2>3 DEF UnscopedDecides
    <3>2. SubjectOf(registry, p) = <<"unscoped", thing>>
      BY <2>1, <2>3
    <3> HIDE DEF thing, will
    <3>3. Decided(log', <<"unscoped", thing>>, will, "ApprovedUnscoped")
      BY <3>1, <3>2, NowDecided
    <3> QED
      BY <3>3 DEF thing, will
  <2>4. CASE ~(account = p.sender /\ delegate = p.delegate)
    <3>1. is <=> will
      BY <2>4 DEF UnscopedDecides
    <3>2. SubjectOf(registry, p) # <<"unscoped", thing>>
      BY <2>1, <2>4
    <3> HIDE DEF thing, is, will
    <3>3. Decided(log', <<"unscoped", thing>>, will, "ApprovedUnscoped")
      BY <2>2, <3>1, <3>2, StillDecided
    <3> QED
      BY <3>3 DEF thing, will
  <2> QED
    BY <2>3, <2>4
<1> QED
  BY <1>1, <1>2

-----------------------------------------------------------------------------
(* The steps of the chain.                                                 *)

ChainInv ==
    /\ ChainTyped
    /\ LogOrdered
    /\ BlocksAnswer
    /\ BindingsLogged
    /\ LinesLogged
    /\ RecordsLogged
    /\ MetaFollows
    /\ DelegatesLogged

\* registerV5.
LEMMA BindsKeeps ==
    ASSUME ChainInv, Binds
    PROVE  ChainInv' /\ LogGrows
<1>1. PICK sender \in Accounts, call \in ConfigCalls, meta \in Claims \cup {NoMeta} :
          /\ Config!registerV5(sender, call.authority, call.name, call.valueType, call.value)
          /\ Emit("config", WithMeta(
                 Register(sender, call.authority, call.name, call.valueType, call.value),
                 <<call.authority, call.name>>, meta))
  BY DEF Binds
<1> DEFINE p == Register(sender, call.authority, call.name, call.valueType, call.value)
           list == WithMeta(p, <<call.authority, call.name>>, meta)
<1>2. ChainTyped /\ LogOrdered /\ BlocksAnswer /\ BindingsLogged /\ LinesLogged
      /\ RecordsLogged /\ MetaFollows /\ DelegatesLogged
  BY DEF ChainInv
<1>3. Bound(p)
  BY <1>1, <1>2, BindLemma
<1>4. /\ p.event = "Register" /\ WrittenKey(p) = <<call.authority, call.name>>
      /\ UNCHANGED <<mApproved, mApprovedUnscoped, sRecords, sHead, ends>>
  BY DEF Binds, migrationVars, Register, WrittenKey
<1> HIDE DEF p
<1>5. /\ IsList(list) /\ Len(list) \in {1, 2} /\ list[1] = p
      /\ Len(list) = 2 =>
             list[2].event = "MetaV1_2" /\ list[2].subject = <<call.authority, call.name>>
  BY WithMetaList
<1>6. Emit("config", list)
  BY <1>1 DEF p
<1> HIDE DEF list
<1>7. Written("config", p)
  BY <1>3, <1>4 DEF Bound, Written, Registries, Kinds
<1>8. \A k \in 1..Len(list) : k = 1 \/ (k = 2 /\ Len(list) = 2)
  <2>1. \A h \in {1, 2} : \A k \in 1..h : k = 1 \/ (k = 2 /\ h = 2)
    OBVIOUS
  <2> QED
    BY <1>5, <2>1
<1>9. /\ \A k \in 1..Len(list) : Written("config", list[k])
      /\ \A k \in 2..Len(list) : list[k].event = "MetaV1_2"
  <2>1. Len(list) = 2 => Written("config", list[2])
    BY <1>5 DEF Written, Registries, Kinds
  <2>2. \A k \in 2..Len(list) : k \in 1..Len(list) /\ k # 1
    BY <1>5
  <2> QED
    BY <1>5, <1>7, <1>8, <2>1, <2>2
<1>10. LogOrdered' /\ Told("config", p) /\ Emitted("config", list)
  BY <1>2, <1>4, <1>5, <1>6, <1>9, ToldLemma
<1>11. ChainTyped'
  <2>1. p.value \in Values /\ p.valueType \in Types /\ now \in Nat
    BY <1>2, <1>3 DEF Bound, ChainTyped
  <2>2. [value |-> p.value, registeredAt |-> now, valueTypeHash |-> p.valueType] \in Config!Binding
    BY <2>1 DEF Config!Binding
  <2>3. sBindings' \in [Addresses -> [Names -> Config!Binding]]
    BY <1>2, <1>3, <2>2 DEF Bound, ChainTyped
  <2> QED
    BY <1>2, <1>3, <1>4, <2>3 DEF Bound, ChainTyped
<1>12. BindingsLogged' /\ BlocksAnswer'
  BY <1>2, <1>3, <1>10, BoundLogged, BoundAnswers
<1>13. LinesLogged' /\ RecordsLogged'
  BY <1>2, <1>4, <1>10, OthersLeaveLines DEF Kinds
<1>14. MetaFollows'
  BY <1>2, <1>4, <1>5, <1>10, MetaFollowsStep
<1>15. DelegatesLogged'
  <2>1. p.event \in Kinds /\ p.event \in {"Register", "Migrated"}
    BY <1>4 DEF Kinds
  <2>2. cApproved' = cApproved /\ cApprovedUnscoped' = cApprovedUnscoped
        /\ mApproved' = mApproved /\ mApprovedUnscoped' = mApprovedUnscoped
    BY <1>3, <1>4 DEF Bound
  <2>3. /\ DelegatesDecided(log', "config", cApproved, cApprovedUnscoped, Names)
        /\ DelegatesDecided(log', "migration", mApproved, mApprovedUnscoped, Namespaces)
    BY <1>2, <1>10, <2>1, OthersDecideNone DEF DelegatesLogged
  <2> QED
    BY <2>2, <2>3 DEF DelegatesLogged
<1>16. LogGrows
  BY <1>10 DEF Told
<1> QED
  BY <1>10, <1>11, <1>12, <1>13, <1>14, <1>15, <1>16 DEF ChainInv

\* applyMigrationRecord.
LEMMA AppliesKeeps ==
    ASSUME ChainInv, Applies
    PROVE  ChainInv' /\ LogGrows
<1>1. PICK sender \in Accounts, call \in MigrationCalls, appliedAt \in 0..now,
           meta \in Claims \cup {NoMeta} :
          /\ Migration!applyMigrationRecord(sender, call.writer, call.namespace,
                 call.migration, appliedAt, call.prerequisites)
          /\ Emit("migration", WithMeta(
                 Migrated(sender, call.writer, call.namespace, call.migration, appliedAt),
                 <<call.writer, call.namespace, call.migration>>, meta))
  BY DEF Applies
<1> DEFINE p == Migrated(sender, call.writer, call.namespace, call.migration, appliedAt)
           subject == <<call.writer, call.namespace, call.migration>>
           list == WithMeta(p, subject, meta)
<1>2. ChainTyped /\ LogOrdered /\ BlocksAnswer /\ BindingsLogged /\ LinesLogged
      /\ RecordsLogged /\ MetaFollows /\ DelegatesLogged
  BY DEF ChainInv
<1>3. Applied(p)
  <2>1. appliedAt \in Nat
    BY <1>2 DEF ChainTyped
  <2> QED
    BY <1>1, <1>2, <2>1, ApplyLemma
<1>4. /\ p.event = "Migrated" /\ WrittenKey(p) = subject
      /\ UNCHANGED <<cApproved, cApprovedUnscoped, sBindings, registers, ends>>
  BY DEF Applies, configVars, Migrated, WrittenKey
<1> HIDE DEF p
<1>5. /\ IsList(list) /\ Len(list) \in {1, 2} /\ list[1] = p
      /\ Len(list) = 2 => list[2].event = "MetaV1_2" /\ list[2].subject = subject
  BY WithMetaList
<1>6. Emit("migration", list)
  BY <1>1 DEF p
<1> HIDE DEF list, subject
<1>7. Written("migration", p)
  BY <1>3, <1>4 DEF Applied, Written, Registries, Kinds
<1>8. \A k \in 1..Len(list) : k = 1 \/ (k = 2 /\ Len(list) = 2)
  <2>1. \A h \in {1, 2} : \A k \in 1..h : k = 1 \/ (k = 2 /\ h = 2)
    OBVIOUS
  <2> QED
    BY <1>5, <2>1
<1>9. /\ \A k \in 1..Len(list) : Written("migration", list[k])
      /\ \A k \in 2..Len(list) : list[k].event = "MetaV1_2"
  <2>1. Len(list) = 2 => Written("migration", list[2])
    BY <1>5 DEF Written, Registries, Kinds
  <2>2. \A k \in 2..Len(list) : k \in 1..Len(list) /\ k # 1
    BY <1>5
  <2> QED
    BY <1>5, <1>7, <1>8, <2>1, <2>2
<1>10. LogOrdered' /\ Told("migration", p) /\ Emitted("migration", list)
  BY <1>2, <1>4, <1>5, <1>6, <1>9, ToldLemma
<1>11. ChainTyped'
  BY <1>2, <1>3, <1>4 DEF Applied, ChainTyped
<1>12. LinesLogged' /\ RecordsLogged'
  BY <1>2, <1>3, <1>10, AppliedLines, AppliedRecords
<1>13. BindingsLogged' /\ BlocksAnswer'
  <2>1. UNCHANGED <<sBindings, registers, now>>
    BY <1>3, <1>4 DEF Applied
  <2> QED
    BY <1>2, <1>4, <1>10, <2>1, OthersLeaveBindings DEF Kinds
<1>14. MetaFollows'
  BY <1>2, <1>4, <1>5, <1>10, MetaFollowsStep
<1>15. DelegatesLogged'
  <2>1. p.event \in Kinds /\ p.event \in {"Register", "Migrated"}
    BY <1>4 DEF Kinds
  <2>2. cApproved' = cApproved /\ cApprovedUnscoped' = cApprovedUnscoped
        /\ mApproved' = mApproved /\ mApprovedUnscoped' = mApprovedUnscoped
    BY <1>3, <1>4 DEF Applied
  <2>3. /\ DelegatesDecided(log', "config", cApproved, cApprovedUnscoped, Names)
        /\ DelegatesDecided(log', "migration", mApproved, mApprovedUnscoped, Namespaces)
    BY <1>2, <1>10, <2>1, OthersDecideNone DEF DelegatesLogged
  <2> QED
    BY <2>2, <2>3 DEF DelegatesLogged
<1>16. LogGrows
  BY <1>10 DEF Told
<1> QED
  BY <1>10, <1>11, <1>12, <1>13, <1>14, <1>15, <1>16 DEF ChainInv

\* What a change of a delegate leaves of everything else.
LEMMA DelegateEvent ==
    ASSUME ChainInv, NEW registry \in Registries, NEW p,
           p.event \in {"Approved", "Revoked", "ApprovedUnscoped", "RevokedUnscoped"},
           Emit(registry, <<p>>),
           UNCHANGED <<sBindings, registers, sRecords, sHead, now, ends>>
    PROVE  /\ Told(registry, p) /\ LogGrows /\ LogOrdered' /\ BlocksAnswer'
           /\ BindingsLogged' /\ LinesLogged' /\ RecordsLogged' /\ MetaFollows'
<1> DEFINE list == <<p>>
<1>1. LogOrdered /\ BlocksAnswer /\ BindingsLogged /\ LinesLogged /\ RecordsLogged /\ MetaFollows
  BY DEF ChainInv
<1>2. IsList(list) /\ Len(list) = 1 /\ list[1] = p /\ Emit(registry, list)
  BY Singleton
<1>3. Written(registry, p) /\ p.event \in Kinds
  BY DEF Written, Registries, Kinds
<1> HIDE DEF list
<1>4. /\ \A k \in 1..Len(list) : Written(registry, list[k])
      /\ \A k \in 2..Len(list) : list[k].event = "MetaV1_2"
  BY <1>2, <1>3
<1>5. LogOrdered' /\ Told(registry, p) /\ Emitted(registry, list)
  <2>1. Len(list) > 0 /\ ends' = ends
    BY <1>2
  <2> QED
    BY <1>1, <1>2, <1>4, <2>1, ToldLemma
<1>6. BindingsLogged' /\ BlocksAnswer'
  <2>1. UNCHANGED <<sBindings, registers, now>>
    OBVIOUS
  <2> QED
    BY <1>1, <1>3, <1>5, <2>1, OthersLeaveBindings
<1>7. LinesLogged' /\ RecordsLogged'
  <2>1. UNCHANGED <<sRecords, sHead>>
    OBVIOUS
  <2> QED
    BY <1>1, <1>3, <1>5, <2>1, OthersLeaveLines
<1>8. MetaFollows'
  BY <1>1, <1>2, <1>5, MetaFollowsStep
<1>9. LogGrows
  BY <1>5 DEF Told
<1> QED
  BY <1>5, <1>6, <1>7, <1>8, <1>9

\* What an approval or a revocation does to the table it is kept in.
Granted(approved, account, scope, delegate) ==
    [approved EXCEPT ![account][scope] = @ \cup {delegate}]
Denied(approved, account, scope, delegate) ==
    [approved EXCEPT ![account][scope] = @ \ {delegate}]

\* What approveV5 leaves in its table.
LEMMA GrantedEffect ==
    ASSUME NEW words, NEW scopes, scopes \subseteq words,
           NEW approved \in Approvals(words), NEW approvedAfter,
           NEW account \in Addresses, NEW scope \in words, NEW delegate \in Accounts,
           approvedAfter = Granted(approved, account, scope, delegate)
    PROVE  /\ approvedAfter \in Approvals(words)
           /\ ApprovalDecides(DelegateChange("Approved", account, scope, delegate),
                              approved, approvedAfter, scopes)
  BY DEF ApprovalDecides, DelegateChange, Granted, Approvals

\* What revokeV5 leaves in its table.
LEMMA DeniedEffect ==
    ASSUME NEW words, NEW scopes, scopes \subseteq words,
           NEW approved \in Approvals(words), NEW approvedAfter,
           NEW account \in Addresses, NEW scope \in words, NEW delegate \in Accounts,
           approvedAfter = Denied(approved, account, scope, delegate)
    PROVE  /\ approvedAfter \in Approvals(words)
           /\ ApprovalDecides(DelegateChange("Revoked", account, scope, delegate),
                              approved, approvedAfter, scopes)
  BY DEF ApprovalDecides, DelegateChange, Denied, Approvals

\* What the two unscoped calls leave in theirs.
LEMMA UnscopedEffect ==
    ASSUME NEW unscoped \in [Addresses -> SUBSET Accounts], NEW unscopedAfter,
           NEW account \in Addresses, NEW delegate \in Accounts
    PROVE  /\ unscopedAfter = [unscoped EXCEPT ![account] = @ \cup {delegate}] =>
                  /\ unscopedAfter \in [Addresses -> SUBSET Accounts]
                  /\ UnscopedDecides(UnscopedDelegateChange("ApprovedUnscoped", account, delegate),
                                     unscoped, unscopedAfter)
           /\ unscopedAfter = [unscoped EXCEPT ![account] = @ \ {delegate}] =>
                  /\ unscopedAfter \in [Addresses -> SUBSET Accounts]
                  /\ UnscopedDecides(UnscopedDelegateChange("RevokedUnscoped", account, delegate),
                                     unscoped, unscopedAfter)
  BY DEF UnscopedDecides, UnscopedDelegateChange

\* The four delegation calls of the ConfigRegistry.
LEMMA ConfigDelegatesKeeps ==
    ASSUME ChainInv, ConfigDelegates
    PROVE  ChainInv' /\ LogGrows
<1>1. ChainTyped /\ DelegatesLogged
  BY DEF ChainInv
<1>2. UNCHANGED <<sBindings, registers, mApproved, mApprovedUnscoped, sRecords, sHead, now, ends>>
  BY DEF ConfigDelegates, migrationVars
<1>3. PICK pair \in ConfigDelegations :
          \/ \E scope \in Names :
                 \/ /\ Config!Delegates!approveV5(pair[1], scope, pair[2])
                    /\ Emit("config", <<DelegateChange("Approved", pair[1], scope, pair[2])>>)
                 \/ /\ Config!Delegates!revokeV5(pair[1], scope, pair[2])
                    /\ Emit("config", <<DelegateChange("Revoked", pair[1], scope, pair[2])>>)
          \/ /\ Config!Delegates!approveUnscopedV5(pair[1], pair[2])
             /\ Emit("config", <<UnscopedDelegateChange("ApprovedUnscoped", pair[1], pair[2])>>)
          \/ /\ Config!Delegates!revokeUnscopedV5(pair[1], pair[2])
             /\ Emit("config", <<UnscopedDelegateChange("RevokedUnscoped", pair[1], pair[2])>>)
  BY DEF ConfigDelegates
<1>4. pair[1] \in Accounts /\ pair[1] \in Addresses /\ pair[2] \in Addresses
  BY ConstantsAssumption DEF Addresses
\* What each of the four does to the approvals.
<1> DEFINE Scoped(p) ==
               /\ p.event \in {"Approved", "Revoked"}
               /\ Emit("config", <<p>>)
               /\ cApproved' \in Approvals(Names)
               /\ cApprovedUnscoped' = cApprovedUnscoped
               /\ ApprovalDecides(p, cApproved, cApproved', Names)
           Unscoped(p) ==
               /\ p.event \in {"ApprovedUnscoped", "RevokedUnscoped"}
               /\ Emit("config", <<p>>)
               /\ cApprovedUnscoped' \in [Addresses -> SUBSET Accounts]
               /\ cApproved' = cApproved
               /\ UnscopedDecides(p, cApprovedUnscoped, cApprovedUnscoped')
<1>5. (\E p : Scoped(p)) \/ (\E p : Unscoped(p))
  <2>1. pair[2] # ZeroAddress => pair[2] \in Accounts
    BY <1>4 DEF Addresses
  <2>2. ASSUME NEW scope \in Names, Config!Delegates!approveV5(pair[1], scope, pair[2]),
               Emit("config", <<DelegateChange("Approved", pair[1], scope, pair[2])>>)
        PROVE  Scoped(DelegateChange("Approved", pair[1], scope, pair[2]))
    <3>1. /\ pair[2] \in Accounts
          /\ cApproved' = Granted(cApproved, pair[1], scope, pair[2])
          /\ cApprovedUnscoped' = cApprovedUnscoped
      BY <2>1, <2>2 DEF Config!Delegates!approveV5, Config!Delegates!checkDelegateKey,
                        Granted
    <3>2. cApproved \in Approvals(Names)
      BY <1>1 DEF ChainTyped
    <3>3. Names \subseteq Names /\ scope \in Names
      BY DEF Migration!Words
    <3>4. /\ cApproved' \in Approvals(Names)
          /\ ApprovalDecides(DelegateChange("Approved", pair[1], scope, pair[2]),
                             cApproved, cApproved', Names)
      BY <1>4, <3>1, <3>2, <3>3, GrantedEffect
    <3> QED
      BY <2>2, <3>1, <3>4 DEF DelegateChange
  <2>3. ASSUME NEW scope \in Names, Config!Delegates!revokeV5(pair[1], scope, pair[2]),
               Emit("config", <<DelegateChange("Revoked", pair[1], scope, pair[2])>>)
        PROVE  Scoped(DelegateChange("Revoked", pair[1], scope, pair[2]))
    <3>1. /\ pair[2] \in Accounts
          /\ cApproved' = Denied(cApproved, pair[1], scope, pair[2])
          /\ cApprovedUnscoped' = cApprovedUnscoped
      BY <2>1, <2>3 DEF Config!Delegates!revokeV5, Config!Delegates!checkDelegateKey,
                        Denied
    <3>2. cApproved \in Approvals(Names)
      BY <1>1 DEF ChainTyped
    <3>3. Names \subseteq Names /\ scope \in Names
      BY DEF Migration!Words
    <3>4. /\ cApproved' \in Approvals(Names)
          /\ ApprovalDecides(DelegateChange("Revoked", pair[1], scope, pair[2]),
                             cApproved, cApproved', Names)
      BY <1>4, <3>1, <3>2, <3>3, DeniedEffect
    <3> QED
      BY <2>3, <3>1, <3>4 DEF DelegateChange
  <2>4. ASSUME Config!Delegates!approveUnscopedV5(pair[1], pair[2]),
               Emit("config", <<UnscopedDelegateChange("ApprovedUnscoped", pair[1], pair[2])>>)
        PROVE  Unscoped(UnscopedDelegateChange("ApprovedUnscoped", pair[1], pair[2]))
    <3>1. /\ pair[2] \in Accounts
          /\ cApprovedUnscoped' = [cApprovedUnscoped EXCEPT ![pair[1]] = @ \cup {pair[2]}]
          /\ cApproved' = cApproved
      BY <2>1, <2>4 DEF Config!Delegates!approveUnscopedV5, Config!Delegates!checkDelegateKey
    <3>2. cApprovedUnscoped \in [Addresses -> SUBSET Accounts]
      BY <1>1 DEF ChainTyped
    <3>3. /\ cApprovedUnscoped' \in [Addresses -> SUBSET Accounts]
          /\ UnscopedDecides(UnscopedDelegateChange("ApprovedUnscoped", pair[1], pair[2]),
                             cApprovedUnscoped, cApprovedUnscoped')
      BY <1>4, <3>1, <3>2, UnscopedEffect
    <3> QED
      BY <2>4, <3>1, <3>3 DEF UnscopedDelegateChange
  <2>5. ASSUME Config!Delegates!revokeUnscopedV5(pair[1], pair[2]),
               Emit("config", <<UnscopedDelegateChange("RevokedUnscoped", pair[1], pair[2])>>)
        PROVE  Unscoped(UnscopedDelegateChange("RevokedUnscoped", pair[1], pair[2]))
    <3>1. /\ pair[2] \in Accounts
          /\ cApprovedUnscoped' = [cApprovedUnscoped EXCEPT ![pair[1]] = @ \ {pair[2]}]
          /\ cApproved' = cApproved
      BY <2>1, <2>5 DEF Config!Delegates!revokeUnscopedV5, Config!Delegates!checkDelegateKey
    <3>2. cApprovedUnscoped \in [Addresses -> SUBSET Accounts]
      BY <1>1 DEF ChainTyped
    <3>3. /\ cApprovedUnscoped' \in [Addresses -> SUBSET Accounts]
          /\ UnscopedDecides(UnscopedDelegateChange("RevokedUnscoped", pair[1], pair[2]),
                             cApprovedUnscoped, cApprovedUnscoped')
      BY <1>4, <3>1, <3>2, UnscopedEffect
    <3> QED
      BY <2>5, <3>1, <3>3 DEF UnscopedDelegateChange
  <2> HIDE DEF Scoped, Unscoped
  <2> QED
    BY <1>3, <2>2, <2>3, <2>4, <2>5
<1>6. "config" \in Registries /\ "migration" # "config"
  BY DEF Registries
<1>7. ASSUME NEW p, Scoped(p) PROVE ChainInv' /\ LogGrows
  <2>1. /\ Told("config", p) /\ LogGrows /\ LogOrdered' /\ BlocksAnswer'
        /\ BindingsLogged' /\ LinesLogged' /\ RecordsLogged' /\ MetaFollows'
    BY <1>2, <1>6, <1>7, DelegateEvent
  <2>2. DelegatesDecided(log', "config", cApproved', cApprovedUnscoped, Names)
    BY <1>1, <1>7, <2>1, ScopedDecided DEF DelegatesLogged
  <2>3. DelegatesDecided(log', "migration", mApproved, mApprovedUnscoped, Namespaces)
    BY <1>1, <1>6, <1>7, <2>1, OthersDecideNone DEF DelegatesLogged, Kinds
  <2>4. DelegatesLogged'
    BY <1>2, <1>7, <2>2, <2>3 DEF DelegatesLogged
  <2>5. ChainTyped'
    BY <1>1, <1>2, <1>7 DEF ChainTyped
  <2> QED
    BY <2>1, <2>4, <2>5 DEF ChainInv
<1>8. ASSUME NEW p, Unscoped(p) PROVE ChainInv' /\ LogGrows
  <2>1. /\ Told("config", p) /\ LogGrows /\ LogOrdered' /\ BlocksAnswer'
        /\ BindingsLogged' /\ LinesLogged' /\ RecordsLogged' /\ MetaFollows'
    BY <1>2, <1>6, <1>8, DelegateEvent
  <2>2. DelegatesDecided(log', "config", cApproved, cApprovedUnscoped', Names)
    BY <1>1, <1>8, <2>1, UnscopedDecided DEF DelegatesLogged
  <2>3. DelegatesDecided(log', "migration", mApproved, mApprovedUnscoped, Namespaces)
    BY <1>1, <1>6, <1>8, <2>1, OthersDecideNone DEF DelegatesLogged, Kinds
  <2>4. DelegatesLogged'
    BY <1>2, <1>8, <2>2, <2>3 DEF DelegatesLogged
  <2>5. ChainTyped'
    BY <1>1, <1>2, <1>8 DEF ChainTyped
  <2> QED
    BY <2>1, <2>4, <2>5 DEF ChainInv
<1> HIDE DEF Scoped, Unscoped
<1> QED
  BY <1>5, <1>7, <1>8

\* The four delegation calls of the MigrationRegistry.
LEMMA MigrationDelegatesKeeps ==
    ASSUME ChainInv, MigrationDelegates
    PROVE  ChainInv' /\ LogGrows
<1>1. ChainTyped /\ DelegatesLogged
  BY DEF ChainInv
<1>2. UNCHANGED <<cApproved, cApprovedUnscoped, sBindings, registers, sRecords, sHead, now, ends>>
  BY DEF MigrationDelegates, configVars
<1>3. PICK pair \in MigrationDelegations :
          \/ \E scope \in Namespaces :
                 \/ /\ Migration!Delegates!approveV5(pair[1], scope, pair[2])
                    /\ Emit("migration", <<DelegateChange("Approved", pair[1], scope, pair[2])>>)
                 \/ /\ Migration!Delegates!revokeV5(pair[1], scope, pair[2])
                    /\ Emit("migration", <<DelegateChange("Revoked", pair[1], scope, pair[2])>>)
          \/ /\ Migration!Delegates!approveUnscopedV5(pair[1], pair[2])
             /\ Emit("migration", <<UnscopedDelegateChange("ApprovedUnscoped", pair[1], pair[2])>>)
          \/ /\ Migration!Delegates!revokeUnscopedV5(pair[1], pair[2])
             /\ Emit("migration", <<UnscopedDelegateChange("RevokedUnscoped", pair[1], pair[2])>>)
  BY DEF MigrationDelegates
<1>4. pair[1] \in Accounts /\ pair[1] \in Addresses /\ pair[2] \in Addresses
  BY ConstantsAssumption DEF Addresses
\* What each of the four does to the approvals.
<1> DEFINE Scoped(p) ==
               /\ p.event \in {"Approved", "Revoked"}
               /\ Emit("migration", <<p>>)
               /\ mApproved' \in Approvals(Migration!Words)
               /\ mApprovedUnscoped' = mApprovedUnscoped
               /\ ApprovalDecides(p, mApproved, mApproved', Namespaces)
           Unscoped(p) ==
               /\ p.event \in {"ApprovedUnscoped", "RevokedUnscoped"}
               /\ Emit("migration", <<p>>)
               /\ mApprovedUnscoped' \in [Addresses -> SUBSET Accounts]
               /\ mApproved' = mApproved
               /\ UnscopedDecides(p, mApprovedUnscoped, mApprovedUnscoped')
<1>5. (\E p : Scoped(p)) \/ (\E p : Unscoped(p))
  <2>1. /\ pair[2] # ZeroAddress => pair[2] \in Accounts
        /\ Namespaces \in SUBSET Migration!Words
    BY <1>4 DEF Addresses, Migration!Words
  <2>2. ASSUME NEW scope \in Namespaces, Migration!Delegates!approveV5(pair[1], scope, pair[2]),
               Emit("migration", <<DelegateChange("Approved", pair[1], scope, pair[2])>>)
        PROVE  Scoped(DelegateChange("Approved", pair[1], scope, pair[2]))
    <3>1. /\ pair[2] \in Accounts
          /\ mApproved' = Granted(mApproved, pair[1], scope, pair[2])
          /\ mApprovedUnscoped' = mApprovedUnscoped
      BY <2>1, <2>2 DEF Migration!Delegates!approveV5, Migration!Delegates!checkDelegateKey,
                        Granted
    <3>2. mApproved \in Approvals(Migration!Words)
      BY <1>1 DEF ChainTyped
    <3>3. Namespaces \subseteq Migration!Words /\ scope \in Migration!Words
      BY DEF Migration!Words
    <3>4. /\ mApproved' \in Approvals(Migration!Words)
          /\ ApprovalDecides(DelegateChange("Approved", pair[1], scope, pair[2]),
                             mApproved, mApproved', Namespaces)
      BY <1>4, <3>1, <3>2, <3>3, GrantedEffect
    <3> QED
      BY <2>2, <3>1, <3>4 DEF DelegateChange
  <2>3. ASSUME NEW scope \in Namespaces, Migration!Delegates!revokeV5(pair[1], scope, pair[2]),
               Emit("migration", <<DelegateChange("Revoked", pair[1], scope, pair[2])>>)
        PROVE  Scoped(DelegateChange("Revoked", pair[1], scope, pair[2]))
    <3>1. /\ pair[2] \in Accounts
          /\ mApproved' = Denied(mApproved, pair[1], scope, pair[2])
          /\ mApprovedUnscoped' = mApprovedUnscoped
      BY <2>1, <2>3 DEF Migration!Delegates!revokeV5, Migration!Delegates!checkDelegateKey,
                        Denied
    <3>2. mApproved \in Approvals(Migration!Words)
      BY <1>1 DEF ChainTyped
    <3>3. Namespaces \subseteq Migration!Words /\ scope \in Migration!Words
      BY DEF Migration!Words
    <3>4. /\ mApproved' \in Approvals(Migration!Words)
          /\ ApprovalDecides(DelegateChange("Revoked", pair[1], scope, pair[2]),
                             mApproved, mApproved', Namespaces)
      BY <1>4, <3>1, <3>2, <3>3, DeniedEffect
    <3> QED
      BY <2>3, <3>1, <3>4 DEF DelegateChange
  <2>4. ASSUME Migration!Delegates!approveUnscopedV5(pair[1], pair[2]),
               Emit("migration", <<UnscopedDelegateChange("ApprovedUnscoped", pair[1], pair[2])>>)
        PROVE  Unscoped(UnscopedDelegateChange("ApprovedUnscoped", pair[1], pair[2]))
    <3>1. /\ pair[2] \in Accounts
          /\ mApprovedUnscoped' = [mApprovedUnscoped EXCEPT ![pair[1]] = @ \cup {pair[2]}]
          /\ mApproved' = mApproved
      BY <2>1, <2>4 DEF Migration!Delegates!approveUnscopedV5, Migration!Delegates!checkDelegateKey
    <3>2. mApprovedUnscoped \in [Addresses -> SUBSET Accounts]
      BY <1>1 DEF ChainTyped
    <3>3. /\ mApprovedUnscoped' \in [Addresses -> SUBSET Accounts]
          /\ UnscopedDecides(UnscopedDelegateChange("ApprovedUnscoped", pair[1], pair[2]),
                             mApprovedUnscoped, mApprovedUnscoped')
      BY <1>4, <3>1, <3>2, UnscopedEffect
    <3> QED
      BY <2>4, <3>1, <3>3 DEF UnscopedDelegateChange
  <2>5. ASSUME Migration!Delegates!revokeUnscopedV5(pair[1], pair[2]),
               Emit("migration", <<UnscopedDelegateChange("RevokedUnscoped", pair[1], pair[2])>>)
        PROVE  Unscoped(UnscopedDelegateChange("RevokedUnscoped", pair[1], pair[2]))
    <3>1. /\ pair[2] \in Accounts
          /\ mApprovedUnscoped' = [mApprovedUnscoped EXCEPT ![pair[1]] = @ \ {pair[2]}]
          /\ mApproved' = mApproved
      BY <2>1, <2>5 DEF Migration!Delegates!revokeUnscopedV5, Migration!Delegates!checkDelegateKey
    <3>2. mApprovedUnscoped \in [Addresses -> SUBSET Accounts]
      BY <1>1 DEF ChainTyped
    <3>3. /\ mApprovedUnscoped' \in [Addresses -> SUBSET Accounts]
          /\ UnscopedDecides(UnscopedDelegateChange("RevokedUnscoped", pair[1], pair[2]),
                             mApprovedUnscoped, mApprovedUnscoped')
      BY <1>4, <3>1, <3>2, UnscopedEffect
    <3> QED
      BY <2>5, <3>1, <3>3 DEF UnscopedDelegateChange
  <2> HIDE DEF Scoped, Unscoped
  <2> QED
    BY <1>3, <2>2, <2>3, <2>4, <2>5
<1>6. "migration" \in Registries /\ "config" # "migration"
  BY DEF Registries
<1>7. ASSUME NEW p, Scoped(p) PROVE ChainInv' /\ LogGrows
  <2>1. /\ Told("migration", p) /\ LogGrows /\ LogOrdered' /\ BlocksAnswer'
        /\ BindingsLogged' /\ LinesLogged' /\ RecordsLogged' /\ MetaFollows'
    BY <1>2, <1>6, <1>7, DelegateEvent
  <2>2. DelegatesDecided(log', "migration", mApproved', mApprovedUnscoped, Namespaces)
    BY <1>1, <1>7, <2>1, ScopedDecided DEF DelegatesLogged
  <2>3. DelegatesDecided(log', "config", cApproved, cApprovedUnscoped, Names)
    BY <1>1, <1>6, <1>7, <2>1, OthersDecideNone DEF DelegatesLogged, Kinds
  <2>4. DelegatesLogged'
    BY <1>2, <1>7, <2>2, <2>3 DEF DelegatesLogged
  <2>5. ChainTyped'
    BY <1>1, <1>2, <1>7 DEF ChainTyped
  <2> QED
    BY <2>1, <2>4, <2>5 DEF ChainInv
<1>8. ASSUME NEW p, Unscoped(p) PROVE ChainInv' /\ LogGrows
  <2>1. /\ Told("migration", p) /\ LogGrows /\ LogOrdered' /\ BlocksAnswer'
        /\ BindingsLogged' /\ LinesLogged' /\ RecordsLogged' /\ MetaFollows'
    BY <1>2, <1>6, <1>8, DelegateEvent
  <2>2. DelegatesDecided(log', "migration", mApproved, mApprovedUnscoped', Namespaces)
    BY <1>1, <1>8, <2>1, UnscopedDecided DEF DelegatesLogged
  <2>3. DelegatesDecided(log', "config", cApproved, cApprovedUnscoped, Names)
    BY <1>1, <1>6, <1>8, <2>1, OthersDecideNone DEF DelegatesLogged, Kinds
  <2>4. DelegatesLogged'
    BY <1>2, <1>8, <2>2, <2>3 DEF DelegatesLogged
  <2>5. ChainTyped'
    BY <1>1, <1>2, <1>8 DEF ChainTyped
  <2> QED
    BY <2>1, <2>4, <2>5 DEF ChainInv
<1> HIDE DEF Scoped, Unscoped
<1> QED
  BY <1>5, <1>7, <1>8

-----------------------------------------------------------------------------
(* What a handler does to the store.                                       *)

Tables == {"contracts", "configBindings", "configRegisters", "lines", "records", "delegates",
           "delegateChanges", "unscopedDelegates", "unscopedDelegateChanges", "metaSubjects",
           "metas"}
IsStore(s) == s \in [Tables -> {s[table] : table \in Tables}]

\* The row saved, and the others.
LEMMA SavedLemma ==
    ASSUME NEW rows, NEW id, NEW row, NEW after, after = Save(rows, id, row)
    PROVE  id \in DOMAIN after /\ after[id] = row
  BY DEF Save

\* Saving one row leaves the others.
LEMMA OthersSavedLemma ==
    ASSUME NEW rows, NEW id, NEW row, NEW after, after = Save(rows, id, row), NEW key, key # id
    PROVE  /\ key \in DOMAIN after <=> key \in DOMAIN rows
           /\ key \in DOMAIN rows => after[key] = rows[key]
  BY DEF Save

\* A Register is a row of its own, shown on its binding and on its subject.
RegisterSaved(s, e, hash, after) ==
    LET p == e.params
        id == <<p.authority, p.name>>
    IN
    /\ \E row : /\ after.configBindings = Save(s.configBindings, id, row)
                /\ row.value = p.value /\ row.valueTypeHash = hash
                /\ row.registerCount = (IF id \in DOMAIN s.configBindings
                                        THEN s.configBindings[id].registerCount ELSE 0) + 1
    /\ \E row : /\ after.configRegisters = Save(s.configRegisters, logRowId(e), row)
                /\ row.binding = id /\ row.value = p.value /\ row.valueTypeHash = hash
                /\ row.valueType = (IF decoded(p.valueType) = hash THEN hash ELSE NotSet)
                /\ row.transaction = e.transaction
    /\ \E row : /\ after.metaSubjects = Save(s.metaSubjects, <<e.address, id>>, row)
                /\ row.configRegister = logRowId(e)

\* handleConfigRegistryV5Register saves that.
LEMMA RegisterSavedLemma ==
    ASSUME NEW s, IsStore(s), NEW e, NEW hash
    PROVE  LET after == handleRegister(s, e, hash) IN
           /\ IsStore(after)
           /\ RegisterSaved(s, e, hash, after)
           /\ after.lines = s.lines /\ after.records = s.records
           /\ after.delegates = s.delegates /\ after.delegateChanges = s.delegateChanges
           /\ after.unscopedDelegates = s.unscopedDelegates
           /\ after.unscopedDelegateChanges = s.unscopedDelegateChanges
           /\ after.metas = s.metas
<1> DEFINE p == e.params
           id == <<p.authority, p.name>>
           valueType == IF decoded(p.valueType) = hash THEN hash ELSE NotSet
           registerCount == IF id \in DOMAIN s.configBindings
                            THEN s.configBindings[id].registerCount ELSE 0
           binding == [value |-> p.value, valueType |-> valueType, valueTypeHash |-> hash,
                       sender |-> p.sender, boundAtBlock |-> e.block,
                       registerCount |-> registerCount + 1]
           register == [binding |-> id, sender |-> p.sender, value |-> p.value,
                        valueType |-> valueType, valueTypeHash |-> hash,
                        transaction |-> e.transaction]
           subject == [configBinding |-> id, configRegister |-> logRowId(e),
                       migrationRecord |-> NotSet]
           contracts == getOrCreateContract(s, e)
           bindings == Save(s.configBindings, id, binding)
           registered == Save(s.configRegisters, logRowId(e), register)
           subjects == Save(s.metaSubjects, <<e.address, id>>, subject)
           after == [s EXCEPT !.contracts = contracts, !.configBindings = bindings,
                              !.configRegisters = registered, !.metaSubjects = subjects]
<1>1. handleRegister(s, e, hash) = after
  BY DEF handleRegister, recordMetaSubjectBinding
<1>2. /\ binding.value = p.value /\ binding.valueTypeHash = hash
      /\ binding.registerCount = registerCount + 1
      /\ register.binding = id /\ register.value = p.value /\ register.valueTypeHash = hash
      /\ register.valueType = valueType /\ register.transaction = e.transaction
      /\ subject.configRegister = logRowId(e)
  OBVIOUS
<1>3. bindings = Save(s.configBindings, id, binding)
      /\ registered = Save(s.configRegisters, logRowId(e), register)
      /\ subjects = Save(s.metaSubjects, <<e.address, id>>, subject)
  OBVIOUS
<1> HIDE DEF contracts, bindings, registered, subjects, binding, register, subject
<1>4. /\ IsStore(after)
      /\ after.configBindings = bindings /\ after.configRegisters = registered
      /\ after.metaSubjects = subjects
      /\ after.lines = s.lines /\ after.records = s.records
      /\ after.delegates = s.delegates /\ after.delegateChanges = s.delegateChanges
      /\ after.unscopedDelegates = s.unscopedDelegates
      /\ after.unscopedDelegateChanges = s.unscopedDelegateChanges
      /\ after.metas = s.metas
  BY DEF IsStore, Tables
<1> HIDE DEF after
<1>5. RegisterSaved(s, e, hash, after)
  BY <1>2, <1>3, <1>4 DEF RegisterSaved
<1> QED
  BY <1>1, <1>4, <1>5

\* A Migrated is a row of its own, and the new head of its line.
MigratedSaved(s, e, after) ==
    LET p == e.params
        id == <<p.writer, p.namespace>>
        known == id \in DOMAIN s.lines
        count == IF known THEN s.lines[id].recordCount ELSE 0
    IN
    /\ \E row : /\ after.lines = Save(s.lines, id, row)
                /\ row.head = p.migration /\ row.recordCount = count + 1
    /\ \E row : /\ after.records = Save(s.records, logRowId(e), row)
                /\ row.line = id /\ row.index = count /\ row.migration = p.migration
                /\ row.appliedOnto = (IF known THEN s.lines[id].head ELSE Genesis)
                /\ row.appliedAt = p.appliedAt
    /\ \E row : /\ after.metaSubjects =
                       Save(s.metaSubjects,
                            <<e.address, <<p.writer, p.namespace, p.migration>>>>, row)
                /\ {"configRegister", "migrationRecord"} \subseteq DOMAIN row
                /\ row.configRegister = NotSet /\ row.migrationRecord = logRowId(e)

\* handleMigrationRegistryV5Migrated saves that.
LEMMA MigratedSavedLemma ==
    ASSUME NEW s, IsStore(s), NEW e
    PROVE  LET after == handleMigrated(s, e) IN
           /\ IsStore(after)
           /\ MigratedSaved(s, e, after)
           /\ after.configBindings = s.configBindings
           /\ after.configRegisters = s.configRegisters
           /\ after.delegates = s.delegates /\ after.delegateChanges = s.delegateChanges
           /\ after.unscopedDelegates = s.unscopedDelegates
           /\ after.unscopedDelegateChanges = s.unscopedDelegateChanges
           /\ after.metas = s.metas
<1> DEFINE p == e.params
           id == <<p.writer, p.namespace>>
           key == <<e.address, <<p.writer, p.namespace, p.migration>>>>
           known == id \in DOMAIN s.lines
           count == IF known THEN s.lines[id].recordCount ELSE 0
           head == IF known THEN s.lines[id].head ELSE Genesis
           record == [line |-> id, index |-> count, migration |-> p.migration,
                      appliedOnto |-> head, appliedAt |-> p.appliedAt, sender |-> p.sender]
           line == [head |-> p.migration, headRecord |-> logRowId(e),
                    recordCount |-> count + 1]
           subject == [configBinding |-> NotSet, configRegister |-> NotSet,
                       migrationRecord |-> logRowId(e)]
           contracts == getOrCreateContract(s, e)
           recorded == Save(s.records, logRowId(e), record)
           lines == Save(s.lines, id, line)
           subjects == Save(s.metaSubjects, key, subject)
           after == [s EXCEPT !.contracts = contracts, !.records = recorded, !.lines = lines,
                              !.metaSubjects = subjects]
<1>1. handleMigrated(s, e) = after
  BY DEF handleMigrated, recordMetaSubjectRecord
<1>2. /\ line.head = p.migration /\ line.recordCount = count + 1
      /\ record.line = id /\ record.index = count /\ record.migration = p.migration
      /\ record.appliedOnto = head /\ record.appliedAt = p.appliedAt
      /\ {"configRegister", "migrationRecord"} \subseteq DOMAIN subject
      /\ subject.configRegister = NotSet /\ subject.migrationRecord = logRowId(e)
  OBVIOUS
<1>3. /\ recorded = Save(s.records, logRowId(e), record)
      /\ lines = Save(s.lines, id, line)
      /\ subjects = Save(s.metaSubjects, key, subject)
  OBVIOUS
<1> HIDE DEF contracts, recorded, lines, subjects, line, record, subject
<1>4. /\ IsStore(after)
      /\ after.records = recorded /\ after.lines = lines /\ after.metaSubjects = subjects
      /\ after.configBindings = s.configBindings
      /\ after.configRegisters = s.configRegisters
      /\ after.delegates = s.delegates /\ after.delegateChanges = s.delegateChanges
      /\ after.unscopedDelegates = s.unscopedDelegates
      /\ after.unscopedDelegateChanges = s.unscopedDelegateChanges
      /\ after.metas = s.metas
  BY DEF IsStore, Tables
<1> HIDE DEF after
<1>5. MigratedSaved(s, e, after)
  BY <1>2, <1>3, <1>4 DEF MigratedSaved
<1> QED
  BY <1>1, <1>4, <1>5

\* A change of a delegate is a row of its own, and the delegate's answer.
DelegateSaved(s, e, approved, after) ==
    LET id == <<e.address, e.params.sender, e.params.scope, e.params.delegate>> IN
    /\ after.delegates = Save(s.delegates, id, approved)
    /\ \E row : after.delegateChanges = Save(s.delegateChanges, logRowId(e), row)

UnscopedSaved(s, e, approved, after) ==
    LET id == <<e.address, e.params.sender, e.params.delegate>> IN
    /\ after.unscopedDelegates = Save(s.unscopedDelegates, id, approved)
    /\ \E row : after.unscopedDelegateChanges = Save(s.unscopedDelegateChanges, logRowId(e), row)

DelegateAlone(s, after) ==
    /\ after.configBindings = s.configBindings
    /\ after.configRegisters = s.configRegisters
    /\ after.lines = s.lines /\ after.records = s.records
    /\ after.metas = s.metas
    /\ after.unscopedDelegates = s.unscopedDelegates
    /\ after.unscopedDelegateChanges = s.unscopedDelegateChanges

\* recordDelegateChange saves that.
LEMMA DelegateSavedLemma ==
    ASSUME NEW s, IsStore(s), NEW e, NEW approved
    PROVE  LET after == recordDelegateChange(s, e, approved) IN
           IsStore(after) /\ DelegateSaved(s, e, approved, after) /\ DelegateAlone(s, after)
<1> DEFINE id == <<e.address, e.params.sender, e.params.scope, e.params.delegate>>
           change == [registryDelegate |-> id, approved |-> approved]
           contracts == getOrCreateContract(s, e)
           answers == Save(s.delegates, id, approved)
           changes == Save(s.delegateChanges, logRowId(e), change)
           after == [s EXCEPT !.contracts = contracts, !.delegates = answers,
                              !.delegateChanges = changes]
<1>1. recordDelegateChange(s, e, approved) = after
  BY DEF recordDelegateChange
<1>2. /\ answers = Save(s.delegates, id, approved)
      /\ changes = Save(s.delegateChanges, logRowId(e), change)
  OBVIOUS
<1> HIDE DEF contracts, answers, changes, change
<1>3. /\ IsStore(after)
      /\ after.delegates = answers /\ after.delegateChanges = changes
      /\ after.configBindings = s.configBindings
      /\ after.configRegisters = s.configRegisters
      /\ after.lines = s.lines /\ after.records = s.records
      /\ after.unscopedDelegates = s.unscopedDelegates
      /\ after.unscopedDelegateChanges = s.unscopedDelegateChanges
      /\ after.metas = s.metas
  BY DEF IsStore, Tables
<1> HIDE DEF after
<1>4. DelegateSaved(s, e, approved, after)
  BY <1>2, <1>3 DEF DelegateSaved
<1>5. IsStore(after) /\ DelegateAlone(s, after)
  BY <1>3 DEF DelegateAlone
<1> QED
  BY <1>1, <1>4, <1>5

UnscopedAlone(s, after) ==
    /\ after.configBindings = s.configBindings
    /\ after.configRegisters = s.configRegisters
    /\ after.lines = s.lines /\ after.records = s.records
    /\ after.metas = s.metas
    /\ after.delegates = s.delegates
    /\ after.delegateChanges = s.delegateChanges

\* recordUnscopedDelegateChange saves that.
LEMMA UnscopedSavedLemma ==
    ASSUME NEW s, IsStore(s), NEW e, NEW approved
    PROVE  LET after == recordUnscopedDelegateChange(s, e, approved) IN
           IsStore(after) /\ UnscopedSaved(s, e, approved, after) /\ UnscopedAlone(s, after)
<1> DEFINE id == <<e.address, e.params.sender, e.params.delegate>>
           change == [registryDelegate |-> id, approved |-> approved]
           contracts == getOrCreateContract(s, e)
           answers == Save(s.unscopedDelegates, id, approved)
           changes == Save(s.unscopedDelegateChanges, logRowId(e), change)
           after == [s EXCEPT !.contracts = contracts, !.unscopedDelegates = answers,
                              !.unscopedDelegateChanges = changes]
<1>1. recordUnscopedDelegateChange(s, e, approved) = after
  BY DEF recordUnscopedDelegateChange
<1>2. /\ answers = Save(s.unscopedDelegates, id, approved)
      /\ changes = Save(s.unscopedDelegateChanges, logRowId(e), change)
  OBVIOUS
<1> HIDE DEF contracts, answers, changes, change
<1>3. /\ IsStore(after)
      /\ after.unscopedDelegates = answers /\ after.unscopedDelegateChanges = changes
      /\ after.configBindings = s.configBindings
      /\ after.configRegisters = s.configRegisters
      /\ after.lines = s.lines /\ after.records = s.records
      /\ after.delegates = s.delegates /\ after.delegateChanges = s.delegateChanges
      /\ after.metas = s.metas
  BY DEF IsStore, Tables
<1> HIDE DEF after
<1>4. UnscopedSaved(s, e, approved, after)
  BY <1>2, <1>3 DEF UnscopedSaved
<1>5. IsStore(after) /\ UnscopedAlone(s, after)
  BY <1>3 DEF UnscopedAlone
<1> QED
  BY <1>1, <1>4, <1>5

\* A meta is a row of its own.
MetaLink(s, e) ==
    LET subject == <<e.address, e.params.subject>>
        unlinked == [configBinding |-> NotSet, configRegister |-> NotSet,
                     migrationRecord |-> NotSet]
        entity == IF subject \in DOMAIN s.metaSubjects THEN s.metaSubjects[subject] ELSE unlinked
        sameTransaction ==
            /\ entity.configRegister # NotSet
            /\ s.configRegisters[entity.configRegister].transaction = e.transaction
    IN IF sameTransaction THEN entity ELSE [entity EXCEPT !.configRegister = NotSet]

MetaSaved(s, e, after) ==
    \E row : /\ after.metas = Save(s.metas, logRowId(e), row)
             /\ row.configRegister = MetaLink(s, e).configRegister
             /\ row.migrationRecord = MetaLink(s, e).migrationRecord
             /\ row.verified <=> e.params.meta = preimageChecks(s, MetaLink(s, e))

\* recordRegistryMeta saves that.
LEMMA MetaSavedLemma ==
    ASSUME NEW s, IsStore(s), NEW e
    PROVE  LET after == recordRegistryMeta(s, e) IN
           /\ IsStore(after)
           /\ MetaSaved(s, e, after)
           /\ after.configBindings = s.configBindings
           /\ after.configRegisters = s.configRegisters
           /\ after.lines = s.lines /\ after.records = s.records
           /\ after.delegates = s.delegates /\ after.delegateChanges = s.delegateChanges
           /\ after.unscopedDelegates = s.unscopedDelegates
           /\ after.unscopedDelegateChanges = s.unscopedDelegateChanges
<1> DEFINE p == e.params
           link == MetaLink(s, e)
           row == [registry |-> e.address, sender |-> p.sender, subject |-> p.subject,
                   meta |-> p.meta, configBinding |-> link.configBinding,
                   configRegister |-> link.configRegister,
                   migrationRecord |-> link.migrationRecord,
                   verified |-> p.meta = preimageChecks(s, link)]
           contracts == getOrCreateContract(s, e)
           metas == Save(s.metas, logRowId(e), row)
           after == [s EXCEPT !.contracts = contracts, !.metas = metas]
<1>1. recordRegistryMeta(s, e) = after
  BY DEF recordRegistryMeta, MetaLink
<1>2. /\ metas = Save(s.metas, logRowId(e), row)
      /\ row.configRegister = link.configRegister
      /\ row.migrationRecord = link.migrationRecord
  BY DEF row
<1>3. row.verified <=> p.meta = preimageChecks(s, link)
  <2> HIDE DEF link, p
  <2> QED OBVIOUS
<1> HIDE DEF contracts, metas, row, link
<1>4. /\ IsStore(after) /\ after.metas = metas
      /\ after.configBindings = s.configBindings
      /\ after.configRegisters = s.configRegisters
      /\ after.lines = s.lines /\ after.records = s.records
      /\ after.delegates = s.delegates /\ after.delegateChanges = s.delegateChanges
      /\ after.unscopedDelegates = s.unscopedDelegates
      /\ after.unscopedDelegateChanges = s.unscopedDelegateChanges
  BY DEF IsStore, Tables
<1> HIDE DEF after
<1>5. MetaSaved(s, e, after)
  BY <1>2, <1>3, <1>4 DEF MetaSaved, link
<1> QED
  BY <1>1, <1>4, <1>5

-----------------------------------------------------------------------------
(* What the store says of the events it has had, the first n of the log.   *)

\* A binding is shown as the last Register of it says.
BindingShown(l, n, rows, key) ==
    LET events == About(l, <<"binding", key>>, n) IN
    IF key \in DOMAIN rows
    THEN \E i \in 1..n : /\ Newest(i, events)
                         /\ rows[key].value = l[i].params.value
                         /\ rows[key].valueTypeHash = l[i].params.valueType
                         /\ rows[key].registerCount = Cardinality(events)
    ELSE events = {}

BindingsShown(s, n) ==
    \A a \in Addresses, name \in Names : BindingShown(log, n, s.configBindings, <<a, name>>)

\* A line is shown at what the last Migrated of it applied.
LineShown(l, n, rows, key) ==
    LET events == About(l, <<"line", key>>, n) IN
    IF key \in DOMAIN rows
    THEN \E i \in 1..n : /\ Newest(i, events)
                         /\ rows[key].head = l[i].params.migration
                         /\ rows[key].recordCount = Cardinality(events)
    ELSE events = {}

LinesShown(s, n) ==
    \A w \in Addresses, namespace \in Namespaces :
        LineShown(log, n, s.lines, <<w, namespace>>)

\* A delegate is shown as the last event about it decides.
AnswerShown(l, n, rows, kind, id, yes) ==
    LET events == About(l, <<kind, id>>, n) IN
    IF id \in DOMAIN rows
    THEN \E i \in 1..n : /\ Newest(i, events)
                         /\ l[i].params.event = yes => rows[id] = TRUE
                         /\ l[i].params.event # yes => rows[id] = FALSE
    ELSE events = {}

AnswersShown(s, n) ==
    \A registry \in Registries, account \in Addresses, delegate \in Accounts :
        /\ \A scope \in Names \cup Namespaces :
               AnswerShown(log, n, s.delegates, "delegate",
                           <<registry, account, scope, delegate>>, "Approved")
        /\ AnswerShown(log, n, s.unscopedDelegates, "unscoped",
                       <<registry, account, delegate>>, "ApprovedUnscoped")

\* The rows are those of the events, one each.
RowsRecorded(s, n) ==
    /\ \A i \in 1..n : isRecorded(s, log[i])
    /\ \A id \in DOMAIN s.configRegisters \cup DOMAIN s.records \cup DOMAIN s.delegateChanges
                    \cup DOMAIN s.unscopedDelegateChanges \cup DOMAIN s.metas :
           \E i \in 1..n : id = logRowId(log[i])

\* What each of them says.
RegisterRow(l, i, rows) ==
    LET p == l[i].params
        row == rows[logRowId(l[i])]
    IN
    /\ row.binding = <<p.authority, p.name>> /\ row.value = p.value
    /\ row.valueTypeHash = p.valueType /\ row.valueType = decoded(p.valueType)
    /\ row.transaction = l[i].transaction

RecordRow(l, i, rows) ==
    LET p == l[i].params
        row == rows[logRowId(l[i])]
        line == <<"line", <<p.writer, p.namespace>>>>
    IN
    /\ row.line = <<p.writer, p.namespace>>
    /\ row.migration = p.migration /\ row.appliedAt = p.appliedAt
    /\ row.index = Cardinality(About(l, line, i - 1))
    /\ \/ About(l, line, i - 1) = {} /\ row.appliedOnto = Genesis
       \/ \E j \in 1..i - 1 : Newest(j, About(l, line, i - 1))
                              /\ row.appliedOnto = l[j].params.migration

MetaRow(l, i, rows) ==
    LET written == l[i - 1].params
        row == rows[logRowId(l[i])]
        link == IF l[i].address = "config" THEN row.configRegister ELSE row.migrationRecord
        key == IF l[i].address = "config"
               THEN <<written.name, written.valueType>>
               ELSE <<written.namespace, written.migration>>
    IN
    /\ link = logRowId(l[i - 1])
    /\ row.verified <=> l[i].params.meta = key

RowsShown(s, n) ==
    \A i \in 1..n :
        /\ log[i].params.event = "Register" => RegisterRow(log, i, s.configRegisters)
        /\ log[i].params.event = "Migrated" => RecordRow(log, i, s.records)
        /\ log[i].params.event = "MetaV1_2" => MetaRow(log, i, s.metas)

\* The last write is the one a meta of it would be linked to.
WriteShown(s, n) ==
    n > 0 =>
        LET e == log[n]
            subject == <<e.address, WrittenKey(e.params)>>
            entity == s.metaSubjects[subject]
        IN
        /\ e.params.event \in {"Register", "Migrated"} => subject \in DOMAIN s.metaSubjects
        /\ e.params.event = "Register" => entity.configRegister = logRowId(e)
        /\ e.params.event = "Migrated" =>
               /\ {"configRegister", "migrationRecord"} \subseteq DOMAIN entity
               /\ entity.configRegister = NotSet /\ entity.migrationRecord = logRowId(e)

StoreInv(s, n) ==
    /\ IsStore(s)
    /\ n \in Nat /\ n <= Len(log)
    /\ RowsRecorded(s, n) /\ RowsShown(s, n)
    /\ BindingsShown(s, n) /\ LinesShown(s, n) /\ AnswersShown(s, n)
    /\ WriteShown(s, n)

-----------------------------------------------------------------------------
(* One more event is had.                                                  *)

Handled(s, e, hash, after) ==
    LET event == e.params.event IN
    /\ IsStore(after)
    /\ IF event = "Register"
       THEN RegisterSaved(s, e, hash, after)
       ELSE /\ after.configBindings = s.configBindings
            /\ after.configRegisters = s.configRegisters
    /\ IF event = "Migrated"
       THEN MigratedSaved(s, e, after)
       ELSE after.lines = s.lines /\ after.records = s.records
    /\ IF event \in {"Approved", "Revoked"}
       THEN /\ event = "Approved" => DelegateSaved(s, e, TRUE, after)
            /\ event = "Revoked" => DelegateSaved(s, e, FALSE, after)
       ELSE after.delegates = s.delegates /\ after.delegateChanges = s.delegateChanges
    /\ IF event \in {"ApprovedUnscoped", "RevokedUnscoped"}
       THEN /\ event = "ApprovedUnscoped" => UnscopedSaved(s, e, TRUE, after)
            /\ event = "RevokedUnscoped" => UnscopedSaved(s, e, FALSE, after)
       ELSE /\ after.unscopedDelegates = s.unscopedDelegates
            /\ after.unscopedDelegateChanges = s.unscopedDelegateChanges
    /\ IF event = "MetaV1_2"
       THEN MetaSaved(s, e, after)
       ELSE after.metas = s.metas

\* A handler of an event that has no row yet does what its kind says.
LEMMA HandledLemma ==
    ASSUME NEW s, IsStore(s), NEW e, e.params.event \in Kinds, ~isRecorded(s, e),
           NEW hash, e.params.event = "Register" =>
               hash = ends[e.block][e.params.authority][e.params.name].valueTypeHash
    PROVE  Handled(s, e, hash, handle(s, e))
<1> SUFFICES ASSUME NEW after, after = handle(s, e) PROVE Handled(s, e, hash, after)
  OBVIOUS
<1> DEFINE event == e.params.event
<1>1. event \in {"Register", "Migrated", "Approved", "Revoked", "ApprovedUnscoped",
                 "RevokedUnscoped", "MetaV1_2"}
  BY DEF Kinds
<1>2. /\ event = "Register" => after = handleRegister(s, e, hash)
      /\ event = "Migrated" => after = handleMigrated(s, e)
      /\ event = "Approved" => after = recordDelegateChange(s, e, TRUE)
      /\ event = "Revoked" => after = recordDelegateChange(s, e, FALSE)
      /\ event = "ApprovedUnscoped" => after = recordUnscopedDelegateChange(s, e, TRUE)
      /\ event = "RevokedUnscoped" => after = recordUnscopedDelegateChange(s, e, FALSE)
      /\ event = "MetaV1_2" => after = recordRegistryMeta(s, e)
  BY DEF handle
<1>3. CASE event = "Register"
  BY <1>2, <1>3, RegisterSavedLemma DEF Handled
<1>4. CASE event = "Migrated"
  BY <1>2, <1>4, MigratedSavedLemma DEF Handled
<1>5. CASE event = "Approved"
  <2>1. after = recordDelegateChange(s, e, TRUE)
    BY <1>2, <1>5
  <2>2. IsStore(after) /\ DelegateSaved(s, e, TRUE, after) /\ DelegateAlone(s, after)
    BY <2>1, DelegateSavedLemma
  <2> QED
    BY <1>5, <2>2 DEF Handled, DelegateAlone
<1>6. CASE event = "Revoked"
  <2>1. after = recordDelegateChange(s, e, FALSE)
    BY <1>2, <1>6
  <2>2. IsStore(after) /\ DelegateSaved(s, e, FALSE, after) /\ DelegateAlone(s, after)
    BY <2>1, DelegateSavedLemma
  <2> QED
    BY <1>6, <2>2 DEF Handled, DelegateAlone
<1>7. CASE event = "ApprovedUnscoped"
  <2>1. after = recordUnscopedDelegateChange(s, e, TRUE)
    BY <1>2, <1>7
  <2>2. IsStore(after) /\ UnscopedSaved(s, e, TRUE, after) /\ UnscopedAlone(s, after)
    BY <2>1, UnscopedSavedLemma
  <2> QED
    BY <1>7, <2>2 DEF Handled, UnscopedAlone
<1>8. CASE event = "RevokedUnscoped"
  <2>1. after = recordUnscopedDelegateChange(s, e, FALSE)
    BY <1>2, <1>8
  <2>2. IsStore(after) /\ UnscopedSaved(s, e, FALSE, after) /\ UnscopedAlone(s, after)
    BY <2>1, UnscopedSavedLemma
  <2> QED
    BY <1>8, <2>2 DEF Handled, UnscopedAlone
<1>9. CASE event = "MetaV1_2"
  BY <1>2, <1>9, MetaSavedLemma DEF Handled
<1> HIDE DEF event
<1> QED
  BY <1>1, <1>3, <1>4, <1>5, <1>6, <1>7, <1>8, <1>9

\* A binding, before and after an event about it or about something else.
LEMMA BindingStillShown ==
    ASSUME NEW l, NEW n \in Nat, NEW rows, NEW key, BindingShown(l, n, rows, key),
           Subject(l[n + 1]) # <<"binding", key>>,
           NEW after, key \in DOMAIN after <=> key \in DOMAIN rows,
           key \in DOMAIN rows => after[key] = rows[key]
    PROVE  BindingShown(l, n + 1, after, key)
<1>1. About(l, <<"binding", key>>, n + 1) = About(l, <<"binding", key>>, n)
  BY AboutNext
<1>2. \A i \in 1..n : i \in 1..n + 1
  OBVIOUS
<1> QED
  BY <1>1, <1>2 DEF BindingShown

\* A Register is counted and shown in its binding.
LEMMA BindingNowShown ==
    ASSUME NEW l, NEW n \in Nat, NEW rows, NEW key, BindingShown(l, n, rows, key),
           Subject(l[n + 1]) = <<"binding", key>>,
           NEW after, key \in DOMAIN after,
           after[key].value = l[n + 1].params.value,
           after[key].valueTypeHash = l[n + 1].params.valueType,
           after[key].registerCount
               = (IF key \in DOMAIN rows THEN rows[key].registerCount ELSE 0) + 1
    PROVE  BindingShown(l, n + 1, after, key)
<1> DEFINE before == About(l, <<"binding", key>>, n)
           events == About(l, <<"binding", key>>, n + 1)
<1>1. Cardinality(events) = Cardinality(before) + 1 /\ Newest(n + 1, events)
  BY AboutNext
<1>2. Cardinality(before) = IF key \in DOMAIN rows THEN rows[key].registerCount ELSE 0
  BY FS_EmptySet DEF BindingShown
<1>3. n + 1 \in 1..n + 1
  OBVIOUS
<1> HIDE DEF before
<1>4. after[key].registerCount = Cardinality(events)
  BY <1>1, <1>2
<1> QED
  BY <1>1, <1>3, <1>4 DEF BindingShown

\* What an event of the log may be.
LEMMA EventWritten ==
    ASSUME LogOrdered, NEW i \in 1..Len(log)
    PROVE  /\ Written(log[i].address, log[i].params)
           /\ log[i].params.event \in Kinds /\ log[i].address \in Registries
           /\ logRowId(log[i]) \in Nat \X Nat
  BY DEF LogOrdered, Written, logRowId

\* Every binding is shown as of one event more.
LEMMA BindingsStep ==
    ASSUME LogOrdered, NEW n \in Nat, n + 1 \in 1..Len(log), NEW s, BindingsShown(s, n),
           NEW after, Handled(s, log[n + 1], log[n + 1].params.valueType, after)
    PROVE  BindingsShown(after, n + 1)
<1> DEFINE e == log[n + 1]
           p == e.params
<1>1. p.event \in Kinds
  BY EventWritten
<1> SUFFICES ASSUME NEW a \in Addresses, NEW name \in Names, NEW key, key = <<a, name>>
             PROVE  BindingShown(log, n + 1, after.configBindings, key)
  BY DEF BindingsShown
<1>2. BindingShown(log, n, s.configBindings, key)
  BY DEF BindingsShown
<1>3. CASE p.event = "Register" /\ <<p.authority, p.name>> = key
  <2>1. PICK row : /\ after.configBindings = Save(s.configBindings, key, row)
                   /\ row.value = p.value /\ row.valueTypeHash = p.valueType
                   /\ row.registerCount = (IF key \in DOMAIN s.configBindings
                                           THEN s.configBindings[key].registerCount ELSE 0) + 1
    BY <1>3 DEF Handled, RegisterSaved
  <2>2. key \in DOMAIN after.configBindings /\ after.configBindings[key] = row
    BY <2>1, SavedLemma
  <2>3. Subject(e) = <<"binding", key>>
    BY <1>1, <1>3, SubjectOfKind DEF Subject
  <2> QED
    BY <1>2, <2>1, <2>2, <2>3, BindingNowShown
<1>4. CASE ~(p.event = "Register" /\ <<p.authority, p.name>> = key)
  <2>1. Subject(e) # <<"binding", key>>
    BY <1>1, <1>4, KindOfSubject DEF Subject
  <2>2. \/ after.configBindings = s.configBindings
        \/ \E id, row : id # key /\ after.configBindings = Save(s.configBindings, id, row)
    BY <1>4 DEF Handled, RegisterSaved
  <2>3. /\ key \in DOMAIN after.configBindings <=> key \in DOMAIN s.configBindings
        /\ key \in DOMAIN s.configBindings =>
               after.configBindings[key] = s.configBindings[key]
    BY <2>2, OthersSavedLemma
  <2> QED
    BY <1>2, <2>1, <2>3, BindingStillShown
<1> QED
  BY <1>3, <1>4

\* A line, in the same way.
LEMMA LineStillShown ==
    ASSUME NEW l, NEW n \in Nat, NEW rows, NEW key, LineShown(l, n, rows, key),
           Subject(l[n + 1]) # <<"line", key>>,
           NEW after, key \in DOMAIN after <=> key \in DOMAIN rows,
           key \in DOMAIN rows => after[key] = rows[key]
    PROVE  LineShown(l, n + 1, after, key)
<1>1. About(l, <<"line", key>>, n + 1) = About(l, <<"line", key>>, n)
  BY AboutNext
<1>2. \A i \in 1..n : i \in 1..n + 1
  OBVIOUS
<1> QED
  BY <1>1, <1>2 DEF LineShown

\* A Migrated is counted and shown in its line.
LEMMA LineNowShown ==
    ASSUME NEW l, NEW n \in Nat, NEW rows, NEW key, LineShown(l, n, rows, key),
           Subject(l[n + 1]) = <<"line", key>>,
           NEW after, key \in DOMAIN after,
           after[key].head = l[n + 1].params.migration,
           after[key].recordCount
               = (IF key \in DOMAIN rows THEN rows[key].recordCount ELSE 0) + 1
    PROVE  LineShown(l, n + 1, after, key)
<1> DEFINE before == About(l, <<"line", key>>, n)
           events == About(l, <<"line", key>>, n + 1)
<1>1. Cardinality(events) = Cardinality(before) + 1 /\ Newest(n + 1, events)
  BY AboutNext
<1>2. Cardinality(before) = IF key \in DOMAIN rows THEN rows[key].recordCount ELSE 0
  BY FS_EmptySet DEF LineShown
<1>3. n + 1 \in 1..n + 1
  OBVIOUS
<1> HIDE DEF before
<1>4. after[key].recordCount = Cardinality(events)
  BY <1>1, <1>2
<1> QED
  BY <1>1, <1>3, <1>4 DEF LineShown

\* Every line is shown as of one event more.
LEMMA LinesStep ==
    ASSUME LogOrdered, NEW n \in Nat, n + 1 \in 1..Len(log), NEW s, LinesShown(s, n),
           NEW hash, NEW after, Handled(s, log[n + 1], hash, after)
    PROVE  LinesShown(after, n + 1)
<1> DEFINE e == log[n + 1]
           p == e.params
<1>1. p.event \in Kinds
  BY EventWritten
<1> SUFFICES ASSUME NEW w \in Addresses, NEW namespace \in Namespaces,
                    NEW key, key = <<w, namespace>>
             PROVE  LineShown(log, n + 1, after.lines, key)
  BY DEF LinesShown
<1>2. LineShown(log, n, s.lines, key)
  BY DEF LinesShown
<1>3. CASE p.event = "Migrated" /\ <<p.writer, p.namespace>> = key
  <2>1. PICK row : /\ after.lines = Save(s.lines, key, row)
                   /\ row.head = p.migration
                   /\ row.recordCount = (IF key \in DOMAIN s.lines
                                         THEN s.lines[key].recordCount ELSE 0) + 1
    BY <1>3 DEF Handled, MigratedSaved
  <2>2. key \in DOMAIN after.lines /\ after.lines[key] = row
    BY <2>1, SavedLemma
  <2>3. Subject(e) = <<"line", key>>
    BY <1>1, <1>3, SubjectOfKind DEF Subject
  <2> QED
    BY <1>2, <2>1, <2>2, <2>3, LineNowShown
<1>4. CASE ~(p.event = "Migrated" /\ <<p.writer, p.namespace>> = key)
  <2>1. Subject(e) # <<"line", key>>
    BY <1>1, <1>4, KindOfSubject DEF Subject
  <2>2. \/ after.lines = s.lines
        \/ \E id, row : id # key /\ after.lines = Save(s.lines, id, row)
    BY <1>4 DEF Handled, MigratedSaved
  <2>3. /\ key \in DOMAIN after.lines <=> key \in DOMAIN s.lines
        /\ key \in DOMAIN s.lines => after.lines[key] = s.lines[key]
    BY <2>2, OthersSavedLemma
  <2> QED
    BY <1>2, <2>1, <2>3, LineStillShown
<1> QED
  BY <1>3, <1>4

\* A delegate, in the same way.
LEMMA AnswerStillShown ==
    ASSUME NEW l, NEW n \in Nat, NEW rows, NEW kind, NEW id, NEW yes,
           AnswerShown(l, n, rows, kind, id, yes),
           Subject(l[n + 1]) # <<kind, id>>,
           NEW after, id \in DOMAIN after <=> id \in DOMAIN rows,
           id \in DOMAIN rows => after[id] = rows[id]
    PROVE  AnswerShown(l, n + 1, after, kind, id, yes)
<1>1. About(l, <<kind, id>>, n + 1) = About(l, <<kind, id>>, n)
  BY AboutNext
<1>2. \A i \in 1..n : i \in 1..n + 1
  OBVIOUS
<1> QED
  BY <1>1, <1>2 DEF AnswerShown

\* An approval or a revocation is the answer from then on.
LEMMA AnswerNowShown ==
    ASSUME NEW l, NEW n \in Nat, NEW kind, NEW id, NEW yes,
           Subject(l[n + 1]) = <<kind, id>>,
           NEW after, id \in DOMAIN after,
           l[n + 1].params.event = yes => after[id] = TRUE,
           l[n + 1].params.event # yes => after[id] = FALSE
    PROVE  AnswerShown(l, n + 1, after, kind, id, yes)
<1>1. Newest(n + 1, About(l, <<kind, id>>, n + 1))
  BY AboutNext
<1>2. n + 1 \in 1..n + 1
  OBVIOUS
<1> QED
  BY <1>1, <1>2 DEF AnswerShown

\* Every delegate is shown as of one event more.
LEMMA AnswersStep ==
    ASSUME LogOrdered, NEW n \in Nat, n + 1 \in 1..Len(log), NEW s, AnswersShown(s, n),
           NEW hash, NEW after, Handled(s, log[n + 1], hash, after)
    PROVE  AnswersShown(after, n + 1)
<1> DEFINE e == log[n + 1]
           p == e.params
<1>1. p.event \in Kinds
  BY EventWritten
<1> SUFFICES ASSUME NEW registry \in Registries, NEW account \in Addresses,
                    NEW delegate \in Accounts
             PROVE  /\ \A scope \in Names \cup Namespaces :
                           AnswerShown(log, n + 1, after.delegates, "delegate",
                                       <<registry, account, scope, delegate>>, "Approved")
                    /\ AnswerShown(log, n + 1, after.unscopedDelegates, "unscoped",
                                   <<registry, account, delegate>>, "ApprovedUnscoped")
  BY DEF AnswersShown
<1>2. ASSUME NEW scope \in Names \cup Namespaces
      PROVE  AnswerShown(log, n + 1, after.delegates, "delegate",
                         <<registry, account, scope, delegate>>, "Approved")
  <2> SUFFICES ASSUME NEW id, id = <<registry, account, scope, delegate>>
               PROVE  AnswerShown(log, n + 1, after.delegates, "delegate", id, "Approved")
    OBVIOUS
  <2>1. AnswerShown(log, n, s.delegates, "delegate", id, "Approved")
    BY DEF AnswersShown
  <2>2. CASE /\ p.event \in {"Approved", "Revoked"}
             /\ <<e.address, p.sender, p.scope, p.delegate>> = id
    <3>1. Subject(e) = <<"delegate", id>>
      BY <1>1, <2>2, SubjectOfKind DEF Subject
    <3>2. /\ p.event = "Approved" => after.delegates = Save(s.delegates, id, TRUE)
          /\ p.event # "Approved" => after.delegates = Save(s.delegates, id, FALSE)
      BY <2>2 DEF Handled, DelegateSaved
    <3>3. /\ id \in DOMAIN after.delegates
          /\ p.event = "Approved" => after.delegates[id] = TRUE
          /\ p.event # "Approved" => after.delegates[id] = FALSE
      <4>1. PICK row : /\ after.delegates = Save(s.delegates, id, row)
                       /\ p.event = "Approved" => row = TRUE
                       /\ p.event # "Approved" => row = FALSE
        BY <3>2
      <4>2. id \in DOMAIN after.delegates /\ after.delegates[id] = row
        BY <4>1, SavedLemma
      <4> QED
        BY <4>1, <4>2
    <3> QED
      BY <3>1, <3>3, AnswerNowShown
  <2>3. CASE ~(/\ p.event \in {"Approved", "Revoked"}
               /\ <<e.address, p.sender, p.scope, p.delegate>> = id)
    <3>1. Subject(e) # <<"delegate", id>>
      BY <1>1, <2>3, KindOfSubject DEF Subject
    <3>2. \/ after.delegates = s.delegates
          \/ \E other, row : other # id /\ after.delegates = Save(s.delegates, other, row)
      BY <2>3 DEF Handled, DelegateSaved
    <3>3. /\ id \in DOMAIN after.delegates <=> id \in DOMAIN s.delegates
          /\ id \in DOMAIN s.delegates => after.delegates[id] = s.delegates[id]
      BY <3>2, OthersSavedLemma
    <3> QED
      BY <2>1, <3>1, <3>3, AnswerStillShown
  <2> QED
    BY <2>2, <2>3
<1>3. AnswerShown(log, n + 1, after.unscopedDelegates, "unscoped",
                  <<registry, account, delegate>>, "ApprovedUnscoped")
  <2> SUFFICES ASSUME NEW id, id = <<registry, account, delegate>>
               PROVE  AnswerShown(log, n + 1, after.unscopedDelegates, "unscoped", id,
                                  "ApprovedUnscoped")
    OBVIOUS
  <2>1. AnswerShown(log, n, s.unscopedDelegates, "unscoped", id, "ApprovedUnscoped")
    BY DEF AnswersShown
  <2>2. CASE /\ p.event \in {"ApprovedUnscoped", "RevokedUnscoped"}
             /\ <<e.address, p.sender, p.delegate>> = id
    <3>1. Subject(e) = <<"unscoped", id>>
      BY <1>1, <2>2, SubjectOfKind DEF Subject
    <3>2. /\ p.event = "ApprovedUnscoped" =>
                 after.unscopedDelegates = Save(s.unscopedDelegates, id, TRUE)
          /\ p.event # "ApprovedUnscoped" =>
                 after.unscopedDelegates = Save(s.unscopedDelegates, id, FALSE)
      BY <2>2 DEF Handled, UnscopedSaved
    <3>3. /\ id \in DOMAIN after.unscopedDelegates
          /\ p.event = "ApprovedUnscoped" => after.unscopedDelegates[id] = TRUE
          /\ p.event # "ApprovedUnscoped" => after.unscopedDelegates[id] = FALSE
      <4>1. PICK row : /\ after.unscopedDelegates = Save(s.unscopedDelegates, id, row)
                       /\ p.event = "ApprovedUnscoped" => row = TRUE
                       /\ p.event # "ApprovedUnscoped" => row = FALSE
        BY <3>2
      <4>2. id \in DOMAIN after.unscopedDelegates /\ after.unscopedDelegates[id] = row
        BY <4>1, SavedLemma
      <4> QED
        BY <4>1, <4>2
    <3> QED
      BY <3>1, <3>3, AnswerNowShown
  <2>3. CASE ~(/\ p.event \in {"ApprovedUnscoped", "RevokedUnscoped"}
               /\ <<e.address, p.sender, p.delegate>> = id)
    <3>1. Subject(e) # <<"unscoped", id>>
      BY <1>1, <2>3, KindOfSubject DEF Subject
    <3>2. \/ after.unscopedDelegates = s.unscopedDelegates
          \/ \E other, row : /\ other # id
                             /\ after.unscopedDelegates = Save(s.unscopedDelegates, other, row)
      BY <2>3 DEF Handled, UnscopedSaved
    <3>3. /\ id \in DOMAIN after.unscopedDelegates <=> id \in DOMAIN s.unscopedDelegates
          /\ id \in DOMAIN s.unscopedDelegates =>
                 after.unscopedDelegates[id] = s.unscopedDelegates[id]
      BY <3>2, OthersSavedLemma
    <3> QED
      BY <2>1, <3>1, <3>3, AnswerStillShown
  <2> QED
    BY <2>2, <2>3
<1> QED
  BY <1>2, <1>3

\* The tables of the rows lose none and gain that of the event.
Grown(rows, after, id) ==
    /\ \A key \in DOMAIN after : key \in DOMAIN rows \/ key = id
    /\ \A key \in DOMAIN rows : key \in DOMAIN after /\ (key # id => after[key] = rows[key])

\* Saving a row of an id grows its table by that id.
LEMMA GrownLemma ==
    ASSUME NEW rows, NEW id, NEW after,
           after = rows \/ \E row : after = Save(rows, id, row)
    PROVE  Grown(rows, after, id)
<1>1. CASE after = rows
  BY <1>1 DEF Grown
<1>2. CASE \E row : after = Save(rows, id, row)
  BY <1>2 DEF Grown, Save
<1> QED
  BY <1>1, <1>2

\* An event gives its own table its row, and no other table any.
LEMMA TablesGrow ==
    ASSUME NEW s, NEW e, e.params.event \in Kinds, NEW hash, NEW after,
           Handled(s, e, hash, after)
    PROVE  /\ Grown(s.configRegisters, after.configRegisters, logRowId(e))
           /\ Grown(s.records, after.records, logRowId(e))
           /\ Grown(s.delegateChanges, after.delegateChanges, logRowId(e))
           /\ Grown(s.unscopedDelegateChanges, after.unscopedDelegateChanges, logRowId(e))
           /\ Grown(s.metas, after.metas, logRowId(e))
           /\ isRecorded(after, e)
<1> DEFINE event == e.params.event
           id == logRowId(e)
<1>1. /\ IF event = "Register"
         THEN \E row : after.configRegisters = Save(s.configRegisters, id, row)
         ELSE after.configRegisters = s.configRegisters
      /\ IF event = "Migrated"
         THEN \E row : after.records = Save(s.records, id, row)
         ELSE after.records = s.records
  BY DEF Handled, RegisterSaved, MigratedSaved
<1>2. IF event \in {"Approved", "Revoked"}
      THEN \E row : after.delegateChanges = Save(s.delegateChanges, id, row)
      ELSE after.delegateChanges = s.delegateChanges
  BY DEF Handled, DelegateSaved
<1>3. IF event \in {"ApprovedUnscoped", "RevokedUnscoped"}
      THEN \E row : after.unscopedDelegateChanges = Save(s.unscopedDelegateChanges, id, row)
      ELSE after.unscopedDelegateChanges = s.unscopedDelegateChanges
  BY DEF Handled, UnscopedSaved
<1>4. IF event = "MetaV1_2"
      THEN \E row : after.metas = Save(s.metas, id, row)
      ELSE after.metas = s.metas
  BY DEF Handled, MetaSaved
<1>5. event \in {"Register", "Migrated", "Approved", "Revoked", "ApprovedUnscoped",
                 "RevokedUnscoped", "MetaV1_2"}
  BY DEF Kinds
<1>6. /\ event = "Register" => rowsOf(after, e) = after.configRegisters
      /\ event = "Migrated" => rowsOf(after, e) = after.records
      /\ event \in {"Approved", "Revoked"} => rowsOf(after, e) = after.delegateChanges
      /\ event \in {"ApprovedUnscoped", "RevokedUnscoped"} =>
             rowsOf(after, e) = after.unscopedDelegateChanges
      /\ event = "MetaV1_2" => rowsOf(after, e) = after.metas
  BY DEF rowsOf
<1> HIDE DEF event, id
<1>7. id \in DOMAIN rowsOf(after, e)
  BY <1>1, <1>2, <1>3, <1>4, <1>5, <1>6, SavedLemma
<1>8. Grown(s.configRegisters, after.configRegisters, id) /\ Grown(s.records, after.records, id)
  BY <1>1, GrownLemma
<1>9. Grown(s.delegateChanges, after.delegateChanges, id)
  BY <1>2, GrownLemma
<1>10. Grown(s.unscopedDelegateChanges, after.unscopedDelegateChanges, id)
  BY <1>3, GrownLemma
<1>11. Grown(s.metas, after.metas, id)
  BY <1>4, GrownLemma
<1> QED
  BY <1>7, <1>8, <1>9, <1>10, <1>11 DEF isRecorded, id

\* The rows are those of one event more.
LEMMA RowsRecordedStep ==
    ASSUME LogOrdered, NEW n \in Nat, n + 1 \in 1..Len(log), NEW s, RowsRecorded(s, n),
           NEW hash, NEW after, Handled(s, log[n + 1], hash, after)
    PROVE  RowsRecorded(after, n + 1)
<1> DEFINE e == log[n + 1]
<1>1. e.params.event \in Kinds
  BY EventWritten
<1>2. /\ Grown(s.configRegisters, after.configRegisters, logRowId(e))
      /\ Grown(s.records, after.records, logRowId(e))
      /\ Grown(s.delegateChanges, after.delegateChanges, logRowId(e))
      /\ Grown(s.unscopedDelegateChanges, after.unscopedDelegateChanges, logRowId(e))
      /\ Grown(s.metas, after.metas, logRowId(e))
      /\ isRecorded(after, e)
  BY <1>1, TablesGrow
<1>3. \A i \in 1..n + 1 : i \in 1..n \/ i = n + 1
  OBVIOUS
<1>4. \A i \in 1..n : i \in 1..n + 1 /\ i \in 1..Len(log)
  OBVIOUS
<1>5. n + 1 \in 1..n + 1
  OBVIOUS
<1>6. ASSUME NEW i \in 1..n PROVE isRecorded(after, log[i])
  <2>1. isRecorded(s, log[i]) /\ log[i].params.event \in Kinds
    BY <1>4, EventWritten DEF RowsRecorded
  <2> QED
    BY <1>2, <2>1 DEF isRecorded, rowsOf, Grown, Kinds
<1>7. ASSUME NEW id \in DOMAIN after.configRegisters \cup DOMAIN after.records
                 \cup DOMAIN after.delegateChanges \cup DOMAIN after.unscopedDelegateChanges
                 \cup DOMAIN after.metas
      PROVE  \E i \in 1..n + 1 : id = logRowId(log[i])
  <2>1. \/ id \in DOMAIN s.configRegisters \cup DOMAIN s.records
                 \cup DOMAIN s.delegateChanges \cup DOMAIN s.unscopedDelegateChanges
                 \cup DOMAIN s.metas
        \/ id = logRowId(e)
    BY <1>2 DEF Grown
  <2> QED
    BY <1>4, <1>5, <2>1 DEF RowsRecorded
<1> QED
  BY <1>2, <1>3, <1>6, <1>7 DEF RowsRecorded

\* The row of an earlier event stays as it is.
RowKept(s, after, e) ==
    LET id == logRowId(e) IN
    /\ e.params.event = "Register" => after.configRegisters[id] = s.configRegisters[id]
    /\ e.params.event = "Migrated" => after.records[id] = s.records[id]
    /\ e.params.event = "MetaV1_2" => after.metas[id] = s.metas[id]

\* The rows of the events before it are left as they were.
LEMMA RowsKept ==
    ASSUME LogOrdered, NEW n \in Nat, n + 1 \in 1..Len(log), NEW s, RowsRecorded(s, n),
           NEW hash, NEW after, Handled(s, log[n + 1], hash, after), NEW i \in 1..n
    PROVE  RowKept(s, after, log[i])
<1>1. i \in 1..Len(log) /\ i # n + 1
  OBVIOUS
<1>2. logRowId(log[i]) # logRowId(log[n + 1])
  BY <1>1, IdsDiffer
<1>3. isRecorded(s, log[i])
  BY DEF RowsRecorded
<1>4. /\ Grown(s.configRegisters, after.configRegisters, logRowId(log[n + 1]))
      /\ Grown(s.records, after.records, logRowId(log[n + 1]))
      /\ Grown(s.metas, after.metas, logRowId(log[n + 1]))
  BY TablesGrow, EventWritten
<1> QED
  BY <1>2, <1>3, <1>4 DEF isRecorded, rowsOf, Grown, RowKept

\* The row of the event itself: a Register.
LEMMA RegisterShown ==
    ASSUME LogOrdered, NEW n \in Nat, n + 1 \in 1..Len(log), NEW s,
           NEW after, Handled(s, log[n + 1], log[n + 1].params.valueType, after),
           log[n + 1].params.event = "Register"
    PROVE  RegisterRow(log, n + 1, after.configRegisters)
<1> DEFINE e == log[n + 1]
           p == e.params
<1>1. PICK row :
          /\ after.configRegisters = Save(s.configRegisters, logRowId(e), row)
          /\ row.binding = <<p.authority, p.name>> /\ row.value = p.value
          /\ row.valueTypeHash = p.valueType
          /\ row.valueType = (IF decoded(p.valueType) = p.valueType THEN p.valueType ELSE NotSet)
          /\ row.transaction = e.transaction
  BY DEF Handled, RegisterSaved
<1>2. after.configRegisters[logRowId(e)] = row
  BY <1>1, SavedLemma
<1>3. row.valueType = decoded(p.valueType)
  BY <1>1 DEF decoded
<1> QED
  BY <1>1, <1>2, <1>3 DEF RegisterRow

\* A Migrated: its place in its line and the head it was applied onto.
LEMMA MigratedShown ==
    ASSUME LogOrdered, NEW n \in Nat, n + 1 \in 1..Len(log), NEW s, LinesShown(s, n),
           NEW hash, NEW after, Handled(s, log[n + 1], hash, after),
           log[n + 1].params.event = "Migrated"
    PROVE  RecordRow(log, n + 1, after.records)
<1> DEFINE e == log[n + 1]
           p == e.params
           key == <<p.writer, p.namespace>>
           events == About(log, <<"line", key>>, n)
<1>1. p.writer \in Addresses /\ p.namespace \in Namespaces
  BY EventWritten DEF Written
<1>2. LineShown(log, n, s.lines, key)
  BY <1>1 DEF LinesShown
<1>3. PICK row :
          /\ after.records = Save(s.records, logRowId(e), row)
          /\ row.line = key /\ row.migration = p.migration /\ row.appliedAt = p.appliedAt
          /\ row.index = (IF key \in DOMAIN s.lines THEN s.lines[key].recordCount ELSE 0)
          /\ row.appliedOnto = (IF key \in DOMAIN s.lines THEN s.lines[key].head ELSE Genesis)
  BY DEF Handled, MigratedSaved
<1>4. after.records[logRowId(e)] = row
  BY <1>3, SavedLemma
<1>5. /\ row.index = Cardinality(events)
      /\ \/ events = {} /\ row.appliedOnto = Genesis
         \/ \E j \in 1..n : Newest(j, events) /\ row.appliedOnto = log[j].params.migration
  <2>1. CASE key \in DOMAIN s.lines
    <3>1. \E j \in 1..n : /\ Newest(j, events)
                          /\ s.lines[key].head = log[j].params.migration
                          /\ s.lines[key].recordCount = Cardinality(events)
      BY <1>2, <2>1 DEF LineShown
    <3> QED
      BY <1>3, <2>1, <3>1
  <2>2. CASE key \notin DOMAIN s.lines
    <3>1. events = {}
      BY <1>2, <2>2 DEF LineShown
    <3>2. Cardinality(events) = 0
      BY <3>1, FS_EmptySet
    <3> QED
      BY <1>3, <2>2, <3>1, <3>2
  <2> QED
    BY <2>1, <2>2
<1>6. (n + 1) - 1 = n
  OBVIOUS
<1> QED
  BY <1>3, <1>4, <1>5, <1>6 DEF RecordRow

\* A meta: the write it follows.
LEMMA LinkOnto ==
    ASSUME NEW f, {"configRegister", "migrationRecord"} \subseteq DOMAIN f
    PROVE  LET link == [f EXCEPT !.configRegister = NotSet] IN
           link.configRegister = NotSet /\ link.migrationRecord = f.migrationRecord
  OBVIOUS

\* The subject of a bind leads to its own row.
LEMMA LinkOfRegister ==
    ASSUME NEW s, NEW e, NEW id, id # NotSet,
           <<e.address, e.params.subject>> \in DOMAIN s.metaSubjects,
           s.metaSubjects[<<e.address, e.params.subject>>].configRegister = id,
           s.configRegisters[id].transaction = e.transaction
    PROVE  /\ MetaLink(s, e).configRegister = id
           /\ preimageChecks(s, MetaLink(s, e))
                  = <<s.configRegisters[id].binding[2], s.configRegisters[id].valueTypeHash>>
<1>1. MetaLink(s, e) = s.metaSubjects[<<e.address, e.params.subject>>]
  BY DEF MetaLink
<1>2. MetaLink(s, e).configRegister = id
  BY <1>1
<1> QED
  BY <1>2 DEF preimageChecks

\* The subject of an applied migration leads to its own row.
LEMMA LinkOfMigrated ==
    ASSUME NEW s, NEW e, NEW id, id # NotSet,
           <<e.address, e.params.subject>> \in DOMAIN s.metaSubjects,
           NEW entity, entity = s.metaSubjects[<<e.address, e.params.subject>>],
           {"configRegister", "migrationRecord"} \subseteq DOMAIN entity,
           entity.configRegister = NotSet, entity.migrationRecord = id
    PROVE  /\ MetaLink(s, e).migrationRecord = id
           /\ preimageChecks(s, MetaLink(s, e))
                  = <<s.records[id].line[2], s.records[id].migration>>
<1>1. MetaLink(s, e) = [entity EXCEPT !.configRegister = NotSet]
  BY DEF MetaLink
<1>2. MetaLink(s, e).migrationRecord = id /\ MetaLink(s, e).configRegister = NotSet
  BY <1>1, LinkOnto
<1> QED
  BY <1>2 DEF preimageChecks

\* The row of the event itself: a meta.
LEMMA MetaShown ==
    ASSUME LogOrdered, MetaFollows, NEW n \in Nat, n + 1 \in 1..Len(log),
           NEW s, RowsShown(s, n), WriteShown(s, n),
           NEW hash, NEW after, Handled(s, log[n + 1], hash, after),
           log[n + 1].params.event = "MetaV1_2"
    PROVE  MetaRow(log, n + 1, after.metas)
<1> DEFINE e == log[n + 1]
           w == log[n]
           p == w.params
           id == logRowId(w)
           subject == <<e.address, e.params.subject>>
<1>1. (n + 1) - 1 = n
  OBVIOUS
<1>2. /\ n \in 1..Len(log)
      /\ w.transaction = e.transaction /\ w.address = e.address
      /\ p.event \in {"Register", "Migrated"}
      /\ subject = <<w.address, WrittenKey(p)>>
  <2>1. /\ (n + 1) - 1 \in 1..Len(log)
        /\ log[(n + 1) - 1].transaction = e.transaction
        /\ log[(n + 1) - 1].address = e.address
        /\ log[(n + 1) - 1].params.event \in {"Register", "Migrated"}
        /\ e.params.subject = WrittenKey(log[(n + 1) - 1].params)
    BY DEF MetaFollows
  <2> QED
    BY <1>1, <2>1
<1>3. n > 0 /\ n \in 1..n
  BY <1>2
<1>4. Written(w.address, p) /\ id \in Nat \X Nat
  BY <1>2, EventWritten
<1>5. id # NotSet
  BY <1>4, ConstantsAssumption
<1>6. subject \in DOMAIN s.metaSubjects
  BY <1>2, <1>3 DEF WriteShown
<1>7. PICK row : /\ after.metas = Save(s.metas, logRowId(e), row)
                 /\ row.configRegister = MetaLink(s, e).configRegister
                 /\ row.migrationRecord = MetaLink(s, e).migrationRecord
                 /\ row.verified <=> e.params.meta = preimageChecks(s, MetaLink(s, e))
  BY DEF Handled, MetaSaved
<1>8. after.metas[logRowId(e)] = row
  BY <1>7, SavedLemma
<1>9. CASE p.event = "Register"
  <2>1. e.address = "config"
    BY <1>2, <1>4, <1>9 DEF Written
  <2>2. s.metaSubjects[subject].configRegister = id
    BY <1>2, <1>3, <1>9 DEF WriteShown
  <2>3. RegisterRow(log, n, s.configRegisters)
    BY <1>3, <1>9 DEF RowsShown
  <2>4. /\ s.configRegisters[id].transaction = e.transaction
        /\ s.configRegisters[id].binding = <<p.authority, p.name>>
        /\ s.configRegisters[id].valueTypeHash = p.valueType
    BY <1>2, <2>3 DEF RegisterRow
  <2>5. /\ MetaLink(s, e).configRegister = id
        /\ preimageChecks(s, MetaLink(s, e))
               = <<s.configRegisters[id].binding[2], s.configRegisters[id].valueTypeHash>>
    BY <1>5, <1>6, <2>2, <2>4, LinkOfRegister
  <2>6. preimageChecks(s, MetaLink(s, e)) = <<p.name, p.valueType>>
    BY <2>4, <2>5
  <2>7. row.configRegister = id /\ (row.verified <=> e.params.meta = <<p.name, p.valueType>>)
    BY <1>7, <2>5, <2>6
  <2> QED
    BY <1>1, <1>8, <2>1, <2>7 DEF MetaRow
<1>10. CASE p.event = "Migrated"
  <2>1. e.address = "migration" /\ e.address # "config"
    BY <1>2, <1>4, <1>10 DEF Written
  <2>2. /\ {"configRegister", "migrationRecord"} \subseteq DOMAIN s.metaSubjects[subject]
        /\ s.metaSubjects[subject].configRegister = NotSet
        /\ s.metaSubjects[subject].migrationRecord = id
    BY <1>2, <1>3, <1>10 DEF WriteShown
  <2>3. RecordRow(log, n, s.records)
    BY <1>3, <1>10 DEF RowsShown
  <2>4. /\ s.records[id].line = <<p.writer, p.namespace>>
        /\ s.records[id].migration = p.migration
    BY <2>3 DEF RecordRow
  <2>5. /\ MetaLink(s, e).migrationRecord = id
        /\ preimageChecks(s, MetaLink(s, e))
               = <<s.records[id].line[2], s.records[id].migration>>
    BY <1>5, <1>6, <2>2, LinkOfMigrated
  <2>6. preimageChecks(s, MetaLink(s, e)) = <<p.namespace, p.migration>>
    BY <2>4, <2>5
  <2>7. row.migrationRecord = id /\ (row.verified <=> e.params.meta = <<p.namespace, p.migration>>)
    BY <1>7, <2>5, <2>6
  <2> QED
    BY <1>1, <1>8, <2>1, <2>7 DEF MetaRow
<1> QED
  BY <1>2, <1>9, <1>10

\* Every row says what its event did, as of one event more.
LEMMA RowsShownStep ==
    ASSUME LogOrdered, MetaFollows, NEW n \in Nat, n + 1 \in 1..Len(log),
           NEW s, RowsRecorded(s, n), RowsShown(s, n), LinesShown(s, n), WriteShown(s, n),
           NEW after, Handled(s, log[n + 1], log[n + 1].params.valueType, after)
    PROVE  RowsShown(after, n + 1)
<1> SUFFICES ASSUME NEW i \in 1..n + 1
             PROVE  /\ log[i].params.event = "Register" =>
                           RegisterRow(log, i, after.configRegisters)
                    /\ log[i].params.event = "Migrated" => RecordRow(log, i, after.records)
                    /\ log[i].params.event = "MetaV1_2" => MetaRow(log, i, after.metas)
  BY DEF RowsShown
<1>1. CASE i = n + 1
  BY <1>1, RegisterShown, MigratedShown, MetaShown
<1>2. CASE i \in 1..n
  <2>1. RowKept(s, after, log[i])
    BY <1>2, RowsKept
  <2>2. /\ log[i].params.event = "Register" => RegisterRow(log, i, s.configRegisters)
        /\ log[i].params.event = "Migrated" => RecordRow(log, i, s.records)
        /\ log[i].params.event = "MetaV1_2" => MetaRow(log, i, s.metas)
    BY <1>2 DEF RowsShown
  <2>3. log[i].params.event = "Register" => RegisterRow(log, i, after.configRegisters)
    BY <2>1, <2>2 DEF RegisterRow, RowKept
  <2>4. log[i].params.event = "Migrated" => RecordRow(log, i, after.records)
    BY <2>1, <2>2 DEF RecordRow, RowKept
  <2>5. log[i].params.event = "MetaV1_2" => MetaRow(log, i, after.metas)
    BY <2>1, <2>2 DEF MetaRow, RowKept
  <2> QED
    BY <2>3, <2>4, <2>5
<1> QED
  BY <1>1, <1>2

\* The subject of the last write leads to its row.
LEMMA WriteShownStep ==
    ASSUME NEW n \in Nat, NEW s, NEW hash, NEW after, Handled(s, log[n + 1], hash, after)
    PROVE  WriteShown(after, n + 1)
<1> DEFINE e == log[n + 1]
           p == e.params
           subject == <<e.address, WrittenKey(p)>>
<1>1. CASE p.event = "Register"
  <2>1. subject = <<e.address, <<p.authority, p.name>>>>
    BY <1>1 DEF WrittenKey
  <2>2. PICK row : /\ after.metaSubjects = Save(s.metaSubjects, subject, row)
                   /\ row.configRegister = logRowId(e)
    BY <1>1, <2>1 DEF Handled, RegisterSaved
  <2>3. subject \in DOMAIN after.metaSubjects /\ after.metaSubjects[subject] = row
    BY <2>2, SavedLemma
  <2> QED
    BY <1>1, <2>2, <2>3 DEF WriteShown
<1>2. CASE p.event = "Migrated"
  <2>1. subject = <<e.address, <<p.writer, p.namespace, p.migration>>>>
    BY <1>2 DEF WrittenKey
  <2>2. PICK row : /\ after.metaSubjects = Save(s.metaSubjects, subject, row)
                   /\ {"configRegister", "migrationRecord"} \subseteq DOMAIN row
                   /\ row.configRegister = NotSet /\ row.migrationRecord = logRowId(e)
    BY <1>2, <2>1 DEF Handled, MigratedSaved
  <2>3. subject \in DOMAIN after.metaSubjects /\ after.metaSubjects[subject] = row
    BY <2>2, SavedLemma
  <2> QED
    BY <1>2, <2>2, <2>3 DEF WriteShown
<1>3. CASE p.event \notin {"Register", "Migrated"}
  BY <1>3 DEF WriteShown
<1> QED
  BY <1>1, <1>2, <1>3

-----------------------------------------------------------------------------
(* The invariant.                                                          *)

IndexInv == ChainInv /\ StoreInv(store, indexed)

\* A block ends: what the registry answers from then on for its events is
\* what it holds now.
LEMMA EndedAnswers ==
    ASSUME LogOrdered, BlocksAnswer, UNCHANGED log, ends' = Append(ends, sBindings)
    PROVE  BlocksAnswer'
<1>1. /\ Len(ends) \in Nat /\ block = Len(ends) + 1
      /\ \A i \in 1..Len(ends) : ends'[i] = ends[i]
      /\ ends'[block] = sBindings
  <2>1. IsList(ends)
    BY DEF LogOrdered
  <2> QED
    BY <2>1, ListAppend DEF block
<1>2. block' = block + 1
  BY NextBlockInOrder
<1> SUFFICES ASSUME NEW i \in 1..Len(log), log[i].params.event = "Register",
                    NEW p, p = log[i].params
             PROVE  /\ log[i].block # block'
                    /\ ends'[log[i].block][p.authority][p.name].valueTypeHash = p.valueType
  BY DEF BlocksAnswer
<1>3. log[i].block \in 1..block
  BY DEF LogOrdered
<1>4. log[i].block # block'
  BY <1>1, <1>2, <1>3
<1>5. CASE log[i].block = block
  <2>1. sBindings[p.authority][p.name].valueTypeHash = p.valueType
    BY <1>5 DEF BlocksAnswer
  <2> QED
    BY <1>1, <1>4, <1>5, <2>1
<1>6. CASE log[i].block # block
  <2>1. ends[log[i].block][p.authority][p.name].valueTypeHash = p.valueType
    BY <1>6 DEF BlocksAnswer
  <2>2. log[i].block \in 1..Len(ends)
    BY <1>1, <1>3, <1>6
  <2> QED
    BY <1>1, <1>4, <2>1, <2>2
<1> QED
  BY <1>5, <1>6

\* What rests on the registries and the log alone.
LEMMA RegistriesStay ==
    ASSUME BindingsLogged, LinesLogged, RecordsLogged, MetaFollows, DelegatesLogged,
           UNCHANGED <<cApproved, cApprovedUnscoped, sBindings, registers,
                       mApproved, mApprovedUnscoped, sRecords, sHead, log>>
    PROVE  BindingsLogged' /\ LinesLogged' /\ RecordsLogged' /\ MetaFollows' /\ DelegatesLogged'
<1>1. BindingsLogged'
  <2>1. \A a, n : Config!BindsOf(a, n)' = Config!BindsOf(a, n)
    BY DEF Config!BindsOf
  <2> QED
    BY <2>1 DEF BindingsLogged
<1>2. /\ \A key : /\ Migration!appliedV5(key)' = Migration!appliedV5(key)
                  /\ Migration!appliedOntoV5(key)' = Migration!appliedOntoV5(key)
      /\ \A line : /\ Migration!HeadOf(line)' = Migration!HeadOf(line)
                   /\ Migration!AppliedIn(line)' = Migration!AppliedIn(line)
  BY DEF Migration!record, Migration!appliedV5, Migration!appliedOntoV5, Migration!HeadOf,
         Migration!headV5, Migration!AppliedIn
<1>3. LinesLogged'
  BY <1>2 DEF LinesLogged
<1>4. RecordsLogged'
  <2> SUFFICES ASSUME NEW i \in 1..Len(log), NEW q, q = log[i].params, q.event = "Migrated",
                      NEW key, key = Migration!Key(q.writer, q.namespace, q.migration)
               PROVE  /\ Migration!appliedV5(key)' = q.appliedAt
                      /\ HeadBefore(log, i, Migration!appliedOntoV5(key)')
    BY DEF RecordsLogged, Migration!appliedV5, Migration!appliedOntoV5, Migration!record
  <2>1. /\ Migration!appliedV5(key) = q.appliedAt
        /\ HeadBefore(log, i, Migration!appliedOntoV5(key))
    BY DEF RecordsLogged
  <2> QED
    BY <1>2, <2>1
<1>5. MetaFollows'
  BY DEF MetaFollows
<1>6. DelegatesLogged'
  BY DEF DelegatesLogged
<1> QED
  BY <1>1, <1>3, <1>4, <1>5, <1>6

\* The order of a log that nothing was added to.
LEMMA LogStays ==
    ASSUME LogOrdered, log' = log
    PROVE  LogGrows
<1>1. IsList(log) /\ Len(log) \in Nat
  BY ListDomain DEF LogOrdered
<1> QED
  BY <1>1 DEF LogGrows

\* The end of a block.
LEMMA NextBlockKeeps ==
    ASSUME ChainInv, NextBlock
    PROVE  ChainInv' /\ LogGrows
<1>1. ChainTyped /\ LogOrdered /\ BlocksAnswer /\ BindingsLogged /\ LinesLogged
      /\ RecordsLogged /\ MetaFollows /\ DelegatesLogged
  BY DEF ChainInv
<1>2. /\ ends' = Append(ends, sBindings) /\ log' = log
      /\ now' \in {now, now + 1}
      /\ UNCHANGED <<cApproved, cApprovedUnscoped, sBindings, registers,
                     mApproved, mApprovedUnscoped, sRecords, sHead, log>>
  BY DEF NextBlock, configVars, migrationVars
<1>3. LogOrdered' /\ BlocksAnswer' /\ LogGrows
  BY <1>1, <1>2, NextBlockInOrder, EndedAnswers, LogStays
<1>4. BindingsLogged' /\ LinesLogged' /\ RecordsLogged' /\ MetaFollows' /\ DelegatesLogged'
  BY <1>1, <1>2, RegistriesStay
<1>5. ChainTyped'
  BY <1>1, <1>2 DEF ChainTyped
<1> QED
  BY <1>3, <1>4, <1>5 DEF ChainInv

\* Steps that leave the chain.
LEMMA ChainStays ==
    ASSUME ChainInv, UNCHANGED <<configVars, migrationVars, now, ends, log>>
    PROVE  ChainInv' /\ LogGrows
<1>1. ChainTyped /\ LogOrdered /\ BlocksAnswer /\ BindingsLogged /\ LinesLogged
      /\ RecordsLogged /\ MetaFollows /\ DelegatesLogged
  BY DEF ChainInv
<1>2. /\ UNCHANGED <<cApproved, cApprovedUnscoped, sBindings, registers,
                     mApproved, mApprovedUnscoped, sRecords, sHead, log>>
      /\ now' = now /\ ends' = ends
  BY DEF configVars, migrationVars
<1>3. LogGrows
  BY <1>1, <1>2, LogStays
<1>4. BindingsLogged' /\ LinesLogged' /\ RecordsLogged' /\ MetaFollows' /\ DelegatesLogged'
  BY <1>1, <1>2, RegistriesStay
<1>5. ChainTyped'
  BY <1>1, <1>2 DEF ChainTyped
<1>6. LogOrdered'
  BY <1>1, <1>2 DEF LogOrdered, BlockEvents, block
<1>7. BlocksAnswer'
  BY <1>1, <1>2 DEF BlocksAnswer, block
<1> QED
  BY <1>3, <1>4, <1>5, <1>6, <1>7 DEF ChainInv

\* A chain of no events.
LEMMA InitChain == Init => ChainInv
<1> SUFFICES ASSUME Init PROVE ChainInv
  OBVIOUS
<1>1. /\ cApproved = [account \in Addresses |-> [scope \in Names |-> {}]]
      /\ cApprovedUnscoped = [account \in Addresses |-> {}]
      /\ sBindings = [authority \in Addresses |-> [name \in Names |-> Config!NoBinding]]
      /\ registers = <<>> /\ now = 0
  BY DEF Init, Config!Init, Config!Delegates!DelegatesInit, Config!Addresses, Addresses,
         Config!Delegates!Addresses
<1>2. /\ mApproved = [account \in Addresses |-> [scope \in Migration!Words |-> {}]]
      /\ mApprovedUnscoped = [account \in Addresses |-> {}]
      /\ sRecords = [writer \in Addresses |-> [namespace \in Migration!Words |->
                        [migration \in Migration!MigrationWords |-> Migration!NoRecord]]]
      /\ sHead = [writer \in Addresses |-> [namespace \in Migration!Words |-> ZeroBytes32]]
  BY DEF Init, Migration!Init, Migration!Delegates!DelegatesInit, Migration!Addresses,
         Addresses, Migration!Delegates!Addresses
<1>3. /\ log = <<>> /\ ends = <<>>
      /\ IsList(log) /\ IsList(ends) /\ IsList(registers)
      /\ Len(log) = 0 /\ \A i : i \notin 1..Len(log)
  <2>1. IsList(<<>>) /\ Len(<<>>) = 0
    BY EmptySeq DEF IsList
  <2> QED
    BY <1>1, <2>1 DEF Init
<1>4. ChainTyped
  <2>1. Config!NoBinding \in Config!Binding
    BY DEF Config!NoBinding, Config!Binding
  <2>2. Migration!NoRecord \in Migration!MigrationRecord
    <3>1. <<>> \in Seq(Migration!Prerequisite)
      BY EmptySeq
    <3> QED
      BY <3>1 DEF Migration!NoRecord, Migration!MigrationRecord, Migration!Addresses
  <2> QED
    BY <1>1, <1>2, <1>3, <2>1, <2>2 DEF ChainTyped, Approvals
<1>5. LogOrdered /\ BlocksAnswer /\ RecordsLogged /\ MetaFollows
  BY <1>3 DEF LogOrdered, BlocksAnswer, RecordsLogged, MetaFollows
<1>6. \A subject : About(log, subject, Len(log)) = {}
                   /\ Cardinality(About(log, subject, Len(log))) = 0
  BY <1>3, AboutNone
<1>7. BindingsLogged
  <2> SUFFICES ASSUME NEW a \in Addresses, NEW n \in Names
               PROVE  /\ IsFiniteSet(Config!BindsOf(a, n))
                      /\ BindingLogged(log, a, n, sBindings[a][n],
                                       Cardinality(Config!BindsOf(a, n)))
    BY DEF BindingsLogged
  <2>1. Config!BindsOf(a, n) = {}
    <3>1. DOMAIN registers = {}
      BY <1>1
    <3> QED
      BY <3>1 DEF Config!BindsOf
  <2>2. sBindings[a][n].value = EmptyValue
    BY <1>1 DEF Config!NoBinding
  <2> QED
    BY <1>3, <1>6, <2>1, <2>2, FS_EmptySet DEF BindingLogged
<1>8. LinesLogged
  <2> SUFFICES ASSUME NEW w \in Addresses, NEW n \in Namespaces
               PROVE  /\ IsFiniteSet(Migration!AppliedIn(<<w, n>>))
                      /\ LineLogged(log, w, n, Migration!HeadOf(<<w, n>>),
                                    Cardinality(Migration!AppliedIn(<<w, n>>)))
    BY DEF LinesLogged
  <2>1. n \in Migration!Words
    BY DEF Migration!Words
  <2>2. Migration!AppliedIn(<<w, n>>) = {}
    BY <1>2, <2>1 DEF Migration!AppliedIn, Migration!appliedV5, Migration!record,
                      Migration!Key, Migration!NoRecord
  <2>3. Migration!HeadOf(<<w, n>>) = Genesis
    BY <1>2, <2>1 DEF Migration!HeadOf, Migration!headV5
  <2> QED
    BY <1>3, <1>6, <2>2, <2>3, FS_EmptySet DEF LineLogged
<1>9. DelegatesLogged
  <2>1. Namespaces \subseteq Migration!Words
    BY DEF Migration!Words
  <2> QED
    BY <1>1, <1>2, <1>3, <2>1 DEF DelegatesLogged, DelegatesDecided, Decided
<1> QED
  BY <1>4, <1>5, <1>7, <1>8, <1>9 DEF ChainInv

\* A store of no rows.
LEMMA InitStore == Init => StoreInv(store, indexed)
<1> SUFFICES ASSUME Init PROVE StoreInv(store, indexed)
  OBVIOUS
<1>1. store = EmptyStore /\ indexed = 0 /\ log = <<>> /\ Len(log) = 0
  BY EmptySeq DEF Init
<1>2. IsStore(store)
  BY <1>1 DEF IsStore, EmptyStore, Tables
<1>3. /\ DOMAIN store.configBindings = {} /\ DOMAIN store.configRegisters = {}
      /\ DOMAIN store.lines = {} /\ DOMAIN store.records = {}
      /\ DOMAIN store.delegates = {} /\ DOMAIN store.delegateChanges = {}
      /\ DOMAIN store.unscopedDelegates = {} /\ DOMAIN store.unscopedDelegateChanges = {}
      /\ DOMAIN store.metas = {}
  <2>1. DOMAIN NoRows = {}
    BY DEF NoRows
  <2> QED
    BY <1>1, <2>1 DEF EmptyStore
<1>4. \A i : i \notin 1..indexed
  BY <1>1
<1>5. \A subject : About(log, subject, indexed) = {}
  BY <1>1, AboutNone
<1>6. RowsRecorded(store, indexed) /\ RowsShown(store, indexed) /\ WriteShown(store, indexed)
  BY <1>1, <1>3, <1>4 DEF RowsRecorded, RowsShown, WriteShown
<1>7. BindingsShown(store, indexed) /\ LinesShown(store, indexed)
  BY <1>3, <1>5 DEF BindingsShown, BindingShown, LinesShown, LineShown
<1>8. AnswersShown(store, indexed)
  BY <1>3, <1>5 DEF AnswersShown, AnswerShown
<1> QED
  BY <1>1, <1>2, <1>6, <1>7, <1>8 DEF StoreInv

\* A store the log goes on without.
LEMMA StoreStays ==
    ASSUME LogGrows, MetaFollows, StoreInv(store, indexed), UNCHANGED <<store, indexed>>
    PROVE  StoreInv(store, indexed)'
<1> DEFINE n == indexed
           s == store
<1>1. /\ IsStore(s) /\ n \in Nat /\ n <= Len(log)
      /\ RowsRecorded(s, n) /\ RowsShown(s, n)
      /\ BindingsShown(s, n) /\ LinesShown(s, n) /\ AnswersShown(s, n) /\ WriteShown(s, n)
  BY DEF StoreInv
<1>2. /\ s' = s /\ n' = n
      /\ Len(log) \in Nat /\ Len(log') \in Nat /\ Len(log) <= Len(log')
      /\ \A i \in 1..n : log'[i] = log[i]
  BY <1>1 DEF LogGrows
<1>3. \A m \in 0..n : \A i \in 1..m : log'[i] = log[i]
  BY <1>1, <1>2
<1>4. \A m \in 0..n : \A subject : About(log', subject, m) = About(log, subject, m)
  BY <1>1, <1>3, AboutSame
<1>5. n \in 0..n /\ \A i \in 1..n : i - 1 \in 0..n
  BY <1>1
<1> HIDE DEF n, s
<1>6. RowsRecorded(s, n)'
  BY <1>1, <1>2 DEF RowsRecorded
<1>7. BindingsShown(s, n)'
  <2>1. \A key : BindingShown(log, n, s.configBindings, key) =>
                     BindingShown(log', n, s.configBindings, key)
    BY <1>2, <1>4, <1>5 DEF BindingShown
  <2> QED
    BY <1>1, <1>2, <2>1 DEF BindingsShown
<1>8. LinesShown(s, n)'
  <2>1. \A key : LineShown(log, n, s.lines, key) => LineShown(log', n, s.lines, key)
    BY <1>2, <1>4, <1>5 DEF LineShown
  <2> QED
    BY <1>1, <1>2, <2>1 DEF LinesShown
<1>9. AnswersShown(s, n)'
  <2>1. \A rows, kind, id, yes : AnswerShown(log, n, rows, kind, id, yes) =>
                                     AnswerShown(log', n, rows, kind, id, yes)
    <3>1. TAKE rows, kind, id, yes
    <3>2. About(log', <<kind, id>>, n) = About(log, <<kind, id>>, n)
      BY <1>4, <1>5
    <3>3. \A i \in 1..n : log'[i] = log[i]
      BY <1>2
    <3> QED
      BY <3>2, <3>3 DEF AnswerShown
  <2> QED
    BY <1>1, <1>2, <2>1 DEF AnswersShown
<1>10. RowsShown(s, n)'
  <2> SUFFICES ASSUME NEW i \in 1..n
               PROVE  /\ log'[i].params.event = "Register" =>
                             RegisterRow(log', i, s.configRegisters)
                      /\ log'[i].params.event = "Migrated" => RecordRow(log', i, s.records)
                      /\ log'[i].params.event = "MetaV1_2" => MetaRow(log', i, s.metas)
    BY <1>2 DEF RowsShown
  <2>1. log'[i] = log[i]
    BY <1>2
  <2>2. /\ log[i].params.event = "Register" => RegisterRow(log, i, s.configRegisters)
        /\ log[i].params.event = "Migrated" => RecordRow(log, i, s.records)
        /\ log[i].params.event = "MetaV1_2" => MetaRow(log, i, s.metas)
    BY <1>1 DEF RowsShown
  <2>3. log[i].params.event = "Register" => RegisterRow(log', i, s.configRegisters)
    BY <2>1, <2>2 DEF RegisterRow
  <2>4. log[i].params.event = "Migrated" => RecordRow(log', i, s.records)
    <3>1. \A subject : About(log', subject, i - 1) = About(log, subject, i - 1)
      BY <1>4, <1>5
    <3>2. \A j \in 1..i - 1 : log'[j] = log[j]
      BY <1>1, <1>2
    <3> QED
      BY <2>1, <2>2, <3>1, <3>2 DEF RecordRow
  <2>5. log[i].params.event = "MetaV1_2" => MetaRow(log', i, s.metas)
    <3>1. log[i].params.event = "MetaV1_2" => i - 1 \in 1..n
      <4>1. i \in 1..Len(log)
        BY <1>1, <1>2
      <4>2. log[i].params.event = "MetaV1_2" => i - 1 \in 1..Len(log)
        BY <4>1 DEF MetaFollows
      <4> QED
        BY <1>1, <1>2, <4>2
    <3> QED
      BY <1>2, <2>1, <2>2, <3>1 DEF MetaRow
  <2> QED
    BY <2>1, <2>3, <2>4, <2>5
<1>11. WriteShown(s, n)'
  <2>1. n > 0 => log'[n] = log[n]
    BY <1>1, <1>2
  <2> QED
    BY <1>1, <1>2, <2>1 DEF WriteShown
<1>12. IsStore(s)' /\ (n \in Nat)' /\ (n <= Len(log))'
  BY <1>1, <1>2 DEF IsStore
<1> QED
  BY <1>6, <1>7, <1>8, <1>9, <1>10, <1>11, <1>12 DEF StoreInv, n, s

\* What the registry answers about the block of a Register that has ended.
LEMMA AnswerOfRegister ==
    ASSUME BlocksAnswer, NEW i \in 1..Len(log), log[i].params.event = "Register",
           log[i].block # block
    PROVE  ends[log[i].block][log[i].params.authority][log[i].params.name].valueTypeHash
               = log[i].params.valueType
  BY DEF BlocksAnswer

\* An event handed over again is found recorded; the next one is not.
LEMMA DeliverKeeps ==
    ASSUME ChainInv, StoreInv(store, indexed), Deliver
    PROVE  StoreInv(store, indexed)'
<1>1. LogOrdered /\ BlocksAnswer /\ MetaFollows /\ LogGrows /\ log' = log
  BY ChainStays DEF ChainInv, Deliver
<1>2. /\ IsStore(store) /\ indexed \in Nat /\ indexed <= Len(log)
      /\ RowsRecorded(store, indexed) /\ RowsShown(store, indexed)
      /\ BindingsShown(store, indexed) /\ LinesShown(store, indexed)
      /\ AnswersShown(store, indexed) /\ WriteShown(store, indexed)
  BY DEF StoreInv
<1>3. Len(log) \in Nat /\ DOMAIN log = 1..Len(log)
  BY <1>1, ListDomain DEF LogOrdered
<1>4. PICK i \in 1..Len(log) :
          /\ i <= indexed + 1
          /\ log[i].block < block
          /\ store' = handle(store, log[i])
          /\ indexed' = IF i > indexed THEN i ELSE indexed
  BY <1>3 DEF Deliver
<1>5. CASE i <= indexed
  <2>1. isRecorded(store, log[i])
    BY <1>2, <1>5 DEF RowsRecorded
  <2>2. UNCHANGED <<store, indexed>>
    BY <1>2, <1>4, <1>5, <2>1 DEF handle
  <2> QED
    BY <1>1, <2>2, StoreStays
<1>6. CASE i = indexed + 1
  <2> DEFINE n == indexed
             s == store
             e == log[n + 1]
             after == store'
  <2>1. n + 1 \in 1..Len(log) /\ i = n + 1 /\ indexed' = n + 1
    BY <1>2, <1>4, <1>6
  <2>2. e.params.event \in Kinds
    BY <1>1, <2>1, EventWritten
  <2>3. ~isRecorded(s, e)
    <3>1. \A k \in 1..n : logRowId(log[k]) # logRowId(e)
      <4>1. \A k \in 1..n : k \in 1..Len(log) /\ k # n + 1
        BY <1>2, <1>3
      <4> QED
        BY <1>1, <2>1, <4>1, IdsDiffer
    <3> QED
      BY <1>2, <2>2, <3>1 DEF RowsRecorded, isRecorded, rowsOf, Kinds
  <2>4. log[n + 1].block # block
    <3>1. block \in Nat /\ log[n + 1].block \in 1..block
      BY <1>1, <2>1, ListDomain DEF LogOrdered, block
    <3> QED
      BY <1>4, <2>1, <3>1
  <2>5. e.params.event = "Register" =>
            e.params.valueType
                = ends[e.block][e.params.authority][e.params.name].valueTypeHash
    BY <1>1, <2>1, <2>4, AnswerOfRegister
  <2>6. Handled(s, e, e.params.valueType, handle(s, e))
    BY <1>2, <2>2, <2>3, <2>5, HandledLemma
  <2>7. Handled(s, log[n + 1], log[n + 1].params.valueType, after)
    BY <1>4, <2>1, <2>6
  <2>8. IsStore(after)
    BY <2>7 DEF Handled
  <2> HIDE DEF n, s, e, after
  <2>9. RowsRecorded(after, n + 1)
    BY <1>1, <1>2, <2>1, <2>7, RowsRecordedStep DEF n, s
  <2>10. RowsShown(after, n + 1)
    BY <1>1, <1>2, <2>1, <2>7, RowsShownStep DEF n, s
  <2>11. BindingsShown(after, n + 1)
    BY <1>1, <1>2, <2>1, <2>7, BindingsStep DEF n, s
  <2>12. LinesShown(after, n + 1) /\ AnswersShown(after, n + 1)
    BY <1>1, <1>2, <2>1, <2>7, LinesStep, AnswersStep DEF n, s
  <2>13. WriteShown(after, n + 1)
    BY <1>2, <2>7, WriteShownStep DEF n, s
  <2>14. n + 1 \in Nat /\ n + 1 <= Len(log)
    BY <1>2, <1>3, <2>1 DEF n
  <2>15. StoreInv(after, n + 1)
    BY <2>8, <2>9, <2>10, <2>11, <2>12, <2>13, <2>14 DEF StoreInv
  <2>16. StoreInv(store, indexed)' <=> StoreInv(after, n + 1)
    BY <1>1, <2>1 DEF after, StoreInv, RowsRecorded, RowsShown, BindingsShown, LinesShown,
                      AnswersShown, WriteShown
  <2> QED
    BY <2>15, <2>16
<1> QED
  BY <1>2, <1>4, <1>5, <1>6

-----------------------------------------------------------------------------
(* The theorems.                                                           *)

\* Every step keeps the invariant.
LEMMA IndexInvStep == IndexInv /\ [Next]_vars => IndexInv'
<1> SUFFICES ASSUME IndexInv, [Next]_vars PROVE IndexInv'
  OBVIOUS
<1>1. ChainInv /\ StoreInv(store, indexed) /\ MetaFollows
  BY DEF IndexInv, ChainInv
<1>2. ASSUME ChainInv', LogGrows, UNCHANGED <<store, indexed>> PROVE IndexInv'
  BY <1>1, <1>2, StoreStays DEF IndexInv
<1>3. CASE Binds
  BY <1>1, <1>2, <1>3, BindsKeeps DEF Binds
<1>4. CASE Applies
  BY <1>1, <1>2, <1>4, AppliesKeeps DEF Applies
<1>5. CASE ConfigDelegates
  BY <1>1, <1>2, <1>5, ConfigDelegatesKeeps DEF ConfigDelegates
<1>6. CASE MigrationDelegates
  BY <1>1, <1>2, <1>6, MigrationDelegatesKeeps DEF MigrationDelegates
<1>7. CASE NextBlock
  BY <1>1, <1>2, <1>7, NextBlockKeeps DEF NextBlock
<1>8. CASE Deliver
  <2>1. ChainInv'
    BY <1>1, <1>8, ChainStays DEF Deliver
  <2> QED
    BY <1>1, <1>8, <2>1, DeliverKeeps DEF IndexInv
<1>9. CASE UNCHANGED vars
  <2>1. UNCHANGED <<configVars, migrationVars, now, ends, log>> /\ UNCHANGED <<store, indexed>>
    BY <1>9 DEF vars
  <2> QED
    BY <1>1, <1>2, <2>1, ChainStays
<1> QED
  BY <1>3, <1>4, <1>5, <1>6, <1>7, <1>8, <1>9 DEF Next

\* Whatever calls land in whatever blocks and transactions, and however often
\* an event is handed over again, the log says what the registries hold and
\* the store says what the events it has had say.
\* (The two contracts, and every handler of the subgraph.)
THEOREM IndexInvariant == Spec => []IndexInv
<1>1. Init => IndexInv
  BY InitChain, InitStore DEF IndexInv
<1> QED
  BY <1>1, IndexInvStep, PTL DEF Spec

\* A meta is shown against the write that emitted it and no other, verified
\* exactly when it claims that write's preimages, whatever else is written to
\* its key in its transaction, its block or later.
\* (recordRegistryMeta, and the order the contracts emit in.)
THEOREM MetasNameTheirWriteTheorem == Spec => []MetasNameTheirWrite
<1>1. IndexInv => MetasNameTheirWrite
  <2> SUFFICES ASSUME IndexInv, NEW i \in 1..indexed, log[i].params.event = "MetaV1_2"
               PROVE  LET written == log[i - 1].params
                          link == IF log[i].address = "config"
                                  THEN rowOf(i).configRegister ELSE rowOf(i).migrationRecord
                          key == IF log[i].address = "config"
                                 THEN <<written.name, written.valueType>>
                                 ELSE <<written.namespace, written.migration>>
                      IN
                      /\ link = logRowId(log[i - 1])
                      /\ rowOf(i).verified <=> log[i].params.meta = key
    BY DEF MetasNameTheirWrite
  <2>1. MetaRow(log, i, store.metas)
    BY DEF IndexInv, StoreInv, RowsShown
  <2>2. rowOf(i) = store.metas[logRowId(log[i])]
    BY DEF rowOf, rowsOf
  <2> QED
    BY <2>1, <2>2 DEF MetaRow
<1> QED
  BY <1>1, IndexInvariant, PTL

\* Row ids tell every two events apart, so a row is its own event's.
LEMMA RecordedIffReached ==
    ASSUME IndexInv, NEW i \in 1..Len(log)
    PROVE  isRecorded(store, log[i]) <=> i <= indexed
<1>1. LogOrdered /\ Len(log) \in Nat /\ indexed \in Nat /\ indexed <= Len(log)
      /\ RowsRecorded(store, indexed)
  BY ListDomain DEF IndexInv, ChainInv, LogOrdered, StoreInv
<1>2. CASE i <= indexed
  <2>1. i \in 1..indexed
    BY <1>1, <1>2
  <2> QED
    BY <1>1, <1>2, <2>1 DEF RowsRecorded
<1>3. CASE ~(i <= indexed)
  <2>1. \A k \in 1..indexed : k \in 1..Len(log) /\ k # i
    BY <1>1, <1>3
  <2>2. \A k \in 1..indexed : logRowId(log[k]) # logRowId(log[i])
    BY <1>1, <2>1, IdsDiffer
  <2>3. log[i].params.event \in Kinds
    BY <1>1, EventWritten
  <2> QED
    BY <1>1, <1>3, <2>2, <2>3 DEF RowsRecorded, isRecorded, rowsOf, Kinds
<1> QED
  BY <1>2, <1>3

\* The place of an event among those about the same.
LEMMA PlaceAmong ==
    ASSUME NEW l, NEW subject, NEW i, NEW n \in Nat, i = n + 1, Subject(l[i]) = subject
    PROVE  /\ Cardinality(About(l, subject, i)) = Cardinality(About(l, subject, n)) + 1
           /\ Cardinality(About(l, subject, n)) \in Nat
<1>1. Cardinality(About(l, subject, n)) \in Nat
  BY AboutFinite
<1>2. Subject(l[n + 1]) = subject
  OBVIOUS
<1>3. Cardinality(About(l, subject, n + 1)) = Cardinality(About(l, subject, n)) + 1
  BY <1>2, AboutNext
<1> QED
  BY <1>1, <1>3

\* A record's row says what the registry did in the call it is of.
RecordSays(i, p, key) ==
    /\ rowOf(i).appliedOnto = Migration!appliedOntoV5(key)
    /\ rowOf(i).appliedAt = Migration!appliedV5(key)
    /\ rowOf(i).index = Cardinality({j \in Earlier(i) :
           /\ log[j].params.writer = p.writer
           /\ log[j].params.namespace = p.namespace}) - 1

\* The index, the head and the time of a row are those of its own Migrated.
LEMMA RecordSaysWhatHappened ==
    ASSUME IndexInv, NEW i \in 1..indexed, log[i].params.event = "Migrated",
           NEW p, p = log[i].params,
           NEW key, key = Migration!Key(p.writer, p.namespace, p.migration)
    PROVE  RecordSays(i, p, key)
<1> DEFINE line == <<"line", <<p.writer, p.namespace>>>>
           before == About(log, line, i - 1)
           row == store.records[logRowId(log[i])]
<1>1. LogOrdered /\ Len(log) \in Nat /\ indexed \in Nat /\ indexed <= Len(log)
      /\ RecordsLogged /\ RowsShown(store, indexed)
  BY ListDomain DEF IndexInv, ChainInv, LogOrdered, StoreInv
<1>2. i \in 1..Len(log) /\ i - 1 \in Nat /\ (i - 1) + 1 = i
      /\ \A j \in 1..i : j \in 1..Len(log)
  BY <1>1
<1>3. rowOf(i) = row
  BY DEF rowOf, rowsOf
<1>4. RecordRow(log, i, store.records)
  BY <1>1 DEF RowsShown
<1>5. /\ row.appliedAt = p.appliedAt
      /\ row.index = Cardinality(before)
      /\ \/ before = {} /\ row.appliedOnto = Genesis
         \/ \E j \in 1..i - 1 : Newest(j, before) /\ row.appliedOnto = log[j].params.migration
  BY <1>4 DEF RecordRow
<1>6. Migration!appliedV5(key) = p.appliedAt /\ HeadBefore(log, i, Migration!appliedOntoV5(key))
  BY <1>1, <1>2 DEF RecordsLogged
<1>7. row.appliedOnto = Migration!appliedOntoV5(key)
  <2>1. CASE before = {} /\ row.appliedOnto = Genesis
    BY <1>6, <2>1 DEF HeadBefore
  <2>2. CASE \E j \in 1..i - 1 : Newest(j, before) /\ row.appliedOnto = log[j].params.migration
    <3>1. PICK j \in 1..i - 1 : Newest(j, before) /\ row.appliedOnto = log[j].params.migration
      BY <2>2
    <3>2. j \in 1..Len(log)
      BY <1>2
    <3> QED
      BY <1>6, <3>1, <3>2 DEF HeadBefore
  <2> QED
    BY <1>5, <2>1, <2>2
<1>8. {j \in Earlier(i) : /\ log[j].params.writer = p.writer
                          /\ log[j].params.namespace = p.namespace} = About(log, line, i)
  <2>1. \A j \in 1..i : Subject(log[j]) = line <=>
            /\ log[j].params.event = "Migrated"
            /\ log[j].params.writer = p.writer /\ log[j].params.namespace = p.namespace
    <3> TAKE j \in 1..i
    <3>1. log[j].params.event \in Kinds
      BY <1>1, <1>2, EventWritten
    <3>2. ASSUME Subject(log[j]) = line
          PROVE  /\ log[j].params.event = "Migrated"
                 /\ log[j].params.writer = p.writer /\ log[j].params.namespace = p.namespace
      <4>1. /\ log[j].params.event = "Migrated"
            /\ <<p.writer, p.namespace>> = <<log[j].params.writer, log[j].params.namespace>>
        BY <3>1, <3>2, KindOfSubject DEF Subject
      <4> QED
        BY <4>1
    <3>3. ASSUME log[j].params.event = "Migrated",
                 log[j].params.writer = p.writer, log[j].params.namespace = p.namespace
          PROVE  Subject(log[j]) = line
      BY <3>1, <3>3, SubjectOfKind DEF Subject
    <3> QED
      BY <3>2, <3>3
  <2> QED
    BY <2>1 DEF Earlier, About
<1>9. Subject(log[i]) = line
  BY <1>1, <1>2, EventWritten, SubjectOfKind DEF Subject
<1>10. Cardinality(About(log, line, i)) = Cardinality(before) + 1 /\ Cardinality(before) \in Nat
  <2> HIDE DEF line
  <2>1. PICK n \in Nat : n = i - 1
    BY <1>2
  <2>2. i = n + 1
    BY <1>2, <2>1
  <2>3. /\ Cardinality(About(log, line, i)) = Cardinality(About(log, line, n)) + 1
        /\ Cardinality(About(log, line, n)) \in Nat
    BY <1>9, <2>2, PlaceAmong
  <2> QED
    BY <2>1, <2>3
<1> HIDE DEF before, line, row
<1>11. rowOf(i).index = Cardinality(About(log, line, i)) - 1
  BY <1>3, <1>5, <1>10
<1> QED
  BY <1>3, <1>5, <1>6, <1>7, <1>8, <1>11 DEF RecordSays

\* An event has a row exactly when the indexer has reached it, and the row says
\* what the registry did in that call, whatever it did later in the block.
\* (handleConfigRegistryV5Register and handleMigrationRegistryV5Migrated.)
THEOREM RowsSayWhatHappenedTheorem == Spec => []RowsSayWhatHappened
<1>1. IndexInv => RowsSayWhatHappened
  <2> SUFFICES ASSUME IndexInv, NEW i \in DOMAIN log, NEW p, p = log[i].params,
                      NEW key, key = Migration!Key(p.writer, p.namespace, p.migration)
               PROVE  /\ isRecorded(store, log[i]) <=> i <= indexed
                      /\ (i <= indexed /\ p.event = "Register") =>
                             /\ rowOf(i).valueTypeHash = p.valueType
                             /\ rowOf(i).valueType = decoded(p.valueType)
                             /\ rowOf(i).value = p.value
                      /\ (i <= indexed /\ p.event = "Migrated") =>
                             /\ rowOf(i).appliedOnto = Migration!appliedOntoV5(key)
                             /\ rowOf(i).appliedAt = Migration!appliedV5(key)
                             /\ rowOf(i).index = Cardinality({j \in Earlier(i) :
                                    /\ log[j].params.writer = p.writer
                                    /\ log[j].params.namespace = p.namespace}) - 1
    BY DEF RowsSayWhatHappened
  <2>1. Len(log) \in Nat /\ DOMAIN log = 1..Len(log) /\ indexed \in Nat
        /\ RowsShown(store, indexed)
    BY ListDomain DEF IndexInv, ChainInv, LogOrdered, StoreInv
  <2>2. i \in 1..Len(log) /\ (i <= indexed => i \in 1..indexed)
    BY <2>1
  <2>3. isRecorded(store, log[i]) <=> i <= indexed
    BY <2>2, RecordedIffReached
  <2>4. ASSUME i <= indexed, p.event = "Register"
        PROVE  /\ rowOf(i).valueTypeHash = p.valueType
               /\ rowOf(i).valueType = decoded(p.valueType)
               /\ rowOf(i).value = p.value
    <3>1. RegisterRow(log, i, store.configRegisters)
      BY <2>1, <2>2, <2>4 DEF RowsShown
    <3>2. rowOf(i) = store.configRegisters[logRowId(log[i])]
      BY <2>4 DEF rowOf, rowsOf
    <3> QED
      BY <3>1, <3>2 DEF RegisterRow
  <2>5. ASSUME i <= indexed, p.event = "Migrated"
        PROVE  RecordSays(i, p, key)
    <3>1. i \in 1..indexed /\ log[i].params.event = "Migrated"
      BY <2>2, <2>5
    <3> QED
      BY <3>1, RecordSaysWhatHappened
  <2> QED
    BY <2>3, <2>4, <2>5 DEF RecordSays
<1> QED
  BY <1>1, IndexInvariant, PTL

-----------------------------------------------------------------------------
(* An index that has had every event.                                      *)

\* A binding of such an index is the registry's.
LEMMA BindingMirrored ==
    ASSUME IndexInv, indexed = Len(log), NEW a \in Addresses, NEW n \in Names
    PROVE  /\ <<a, n>> \in DOMAIN store.configBindings <=> Config!isRegistered(a, n)
           /\ <<a, n>> \in DOMAIN store.configBindings =>
                  /\ store.configBindings[<<a, n>>].value = sBindings[a][n].value
                  /\ store.configBindings[<<a, n>>].valueTypeHash = sBindings[a][n].valueTypeHash
                  /\ store.configBindings[<<a, n>>].registerCount
                         = Cardinality(Config!BindsOf(a, n))
<1> DEFINE events == About(log, <<"binding", <<a, n>>>>, Len(log))
<1>1. BindingLogged(log, a, n, sBindings[a][n], Cardinality(Config!BindsOf(a, n)))
  BY DEF IndexInv, ChainInv, BindingsLogged
<1>2. BindingShown(log, Len(log), store.configBindings, <<a, n>>)
  BY DEF IndexInv, StoreInv, BindingsShown
<1>3. \A i : Newest(i, events) => events # {}
  BY DEF Newest
<1>4. Config!isRegistered(a, n) <=> events # {}
  BY <1>1 DEF BindingLogged, Config!isRegistered
<1>5. CASE <<a, n>> \in DOMAIN store.configBindings
  BY <1>1, <1>2, <1>3, <1>4, <1>5 DEF BindingShown, BindingLogged
<1>6. CASE <<a, n>> \notin DOMAIN store.configBindings
  BY <1>2, <1>4, <1>6 DEF BindingShown
<1> QED
  BY <1>5, <1>6

\* A line of such an index is the registry's.
LEMMA LineMirrored ==
    ASSUME IndexInv, indexed = Len(log), NEW w \in Addresses, NEW n \in Namespaces
    PROVE  IF <<w, n>> \in DOMAIN store.lines
           THEN /\ store.lines[<<w, n>>].head = Migration!HeadOf(<<w, n>>)
                /\ store.lines[<<w, n>>].recordCount = Cardinality(Migration!AppliedIn(<<w, n>>))
           ELSE Migration!HeadOf(<<w, n>>) = Genesis
<1>1. LineLogged(log, w, n, Migration!HeadOf(<<w, n>>),
                 Cardinality(Migration!AppliedIn(<<w, n>>)))
  BY DEF IndexInv, ChainInv, LinesLogged
<1>2. LineShown(log, Len(log), store.lines, <<w, n>>)
  BY DEF IndexInv, StoreInv, LinesShown
<1> QED
  BY <1>1, <1>2 DEF LineShown, LineLogged

\* What is shown of a delegate and what the registry holds, decided by one event.
LEMMA AnswerMirrored ==
    ASSUME NEW rows, NEW kind, NEW id, NEW yes, NEW delegate, NEW approved,
           AnswerShown(log, Len(log), rows, kind, id, yes),
           Decided(log, <<kind, id>>, delegate \in approved, yes)
    PROVE  delegate \in approved <=> id \in DOMAIN rows /\ rows[id]
<1>1. CASE id \in DOMAIN rows
  <2>1. PICK i \in 1..Len(log) :
            /\ Newest(i, About(log, <<kind, id>>, Len(log)))
            /\ log[i].params.event = yes => rows[id] = TRUE
            /\ log[i].params.event # yes => rows[id] = FALSE
    BY <1>1 DEF AnswerShown
  <2>2. delegate \in approved <=> log[i].params.event = yes
    BY <2>1 DEF Decided
  <2>3. CASE log[i].params.event = yes
    BY <1>1, <2>1, <2>2, <2>3
  <2>4. CASE log[i].params.event # yes
    BY <1>1, <2>1, <2>2, <2>4
  <2> QED
    BY <2>3, <2>4
<1>2. CASE id \notin DOMAIN rows
  BY <1>2 DEF AnswerShown, Decided
<1> QED
  BY <1>1, <1>2

\* The delegates of one of the registries.
LEMMA DelegatesMirrored ==
    ASSUME AnswersShown(store, Len(log)), NEW registry \in Registries,
           NEW approved, NEW unscoped, NEW scopes, scopes \subseteq Names \cup Namespaces,
           DelegatesDecided(log, registry, approved, unscoped, scopes),
           NEW account \in Addresses, NEW delegate \in Accounts
    PROVE  /\ \A scope \in scopes :
                  LET id == <<registry, account, scope, delegate>> IN
                  delegate \in approved[account][scope]
                      <=> id \in DOMAIN store.delegates /\ store.delegates[id]
           /\ LET id == <<registry, account, delegate>> IN
              delegate \in unscoped[account]
                  <=> id \in DOMAIN store.unscopedDelegates /\ store.unscopedDelegates[id]
<1>1. ASSUME NEW scope \in scopes, NEW id, id = <<registry, account, scope, delegate>>
      PROVE  delegate \in approved[account][scope]
                 <=> id \in DOMAIN store.delegates /\ store.delegates[id]
  <2>1. AnswerShown(log, Len(log), store.delegates, "delegate", id, "Approved")
    BY <1>1 DEF AnswersShown
  <2>2. Decided(log, <<"delegate", id>>, delegate \in approved[account][scope], "Approved")
    BY <1>1 DEF DelegatesDecided
  <2> QED
    BY <2>1, <2>2, AnswerMirrored
<1>2. ASSUME NEW id, id = <<registry, account, delegate>>
      PROVE  delegate \in unscoped[account]
                 <=> id \in DOMAIN store.unscopedDelegates /\ store.unscopedDelegates[id]
  <2>1. AnswerShown(log, Len(log), store.unscopedDelegates, "unscoped", id, "ApprovedUnscoped")
    BY <1>2 DEF AnswersShown
  <2>2. Decided(log, <<"unscoped", id>>, delegate \in unscoped[account], "ApprovedUnscoped")
    BY <1>2 DEF DelegatesDecided
  <2> QED
    BY <2>1, <2>2, AnswerMirrored
<1> QED
  BY <1>1, <1>2

\* An indexer that has had every event answers as the two registries do: the
\* bindings and how often each was bound, the heads and the lengths of the
\* lines, the delegates of either registry, scoped and unscoped.
\* (Every handler of the subgraph, over what the two contracts emit.)
THEOREM IndexMirrorsRegistriesTheorem == Spec => []IndexMirrorsRegistries
<1>1. IndexInv => IndexMirrorsRegistries
  <2> SUFFICES ASSUME IndexInv, indexed = Len(log)
               PROVE  IndexMirrorsRegistries
    BY DEF IndexMirrorsRegistries
  <2>1. /\ DelegatesDecided(log, "config", cApproved, cApprovedUnscoped, Names)
        /\ DelegatesDecided(log, "migration", mApproved, mApprovedUnscoped, Namespaces)
        /\ AnswersShown(store, Len(log))
    BY DEF IndexInv, ChainInv, DelegatesLogged, StoreInv
  <2>2. ASSUME NEW key \in Addresses \X Names
        PROVE  LET binding == Config!getV5(key[1], key[2]) IN
               /\ key \in DOMAIN store.configBindings <=> Config!isRegistered(key[1], key[2])
               /\ key \in DOMAIN store.configBindings =>
                      /\ store.configBindings[key].value = binding.value
                      /\ store.configBindings[key].valueTypeHash = binding.valueTypeHash
                      /\ store.configBindings[key].registerCount
                             = Cardinality(Config!BindsOf(key[1], key[2]))
    <3>1. PICK a \in Addresses, n \in Names : key = <<a, n>>
      OBVIOUS
    <3>2. key[1] = a /\ key[2] = n
      BY <3>1
    <3> QED
      BY <3>1, <3>2, BindingMirrored DEF Config!getV5
  <2>3. ASSUME NEW line \in Addresses \X Namespaces
        PROVE  IF line \in DOMAIN store.lines
               THEN /\ store.lines[line].head = Migration!HeadOf(line)
                    /\ store.lines[line].recordCount = Cardinality(Migration!AppliedIn(line))
               ELSE Migration!HeadOf(line) = Genesis
    <3>1. PICK w \in Addresses, n \in Namespaces : line = <<w, n>>
      OBVIOUS
    <3> QED
      BY <3>1, LineMirrored
  <2>4. ASSUME NEW account \in Addresses, NEW delegate \in Accounts
        PROVE  /\ \A scope \in Names :
                      LET id == <<"config", account, scope, delegate>> IN
                      delegate \in cApproved[account][scope]
                          <=> id \in DOMAIN store.delegates /\ store.delegates[id]
               /\ LET id == <<"config", account, delegate>> IN
                  delegate \in cApprovedUnscoped[account]
                      <=> id \in DOMAIN store.unscopedDelegates /\ store.unscopedDelegates[id]
    BY <2>1, DelegatesMirrored DEF Registries
  <2>5. ASSUME NEW account \in Addresses, NEW delegate \in Accounts
        PROVE  /\ \A scope \in Namespaces :
                      LET id == <<"migration", account, scope, delegate>> IN
                      delegate \in mApproved[account][scope]
                          <=> id \in DOMAIN store.delegates /\ store.delegates[id]
               /\ LET id == <<"migration", account, delegate>> IN
                  delegate \in mApprovedUnscoped[account]
                      <=> id \in DOMAIN store.unscopedDelegates /\ store.unscopedDelegates[id]
    BY <2>1, DelegatesMirrored DEF Registries
  <2> QED
    BY <2>2, <2>3, <2>4, <2>5 DEF IndexMirrorsRegistries
<1> QED
  BY <1>1, IndexInvariant, PTL
=============================================================================
