----------------------------- MODULE ParseAbiType -----------------------------
(***************************************************************************)
(* parseAbiType of subgraph/src/lib/abitype.ts, over a type string that    *)
(* anybody may have emitted: one step reads one more token of it.          *)
(*                                                                         *)
(* A token is a bracket, a paren, a comma, another character, or a longest *)
(* run of characters that names and numbers are made of.  `mode' is the    *)
(* place in the loops; the rest are the code's own locals.                 *)
(***************************************************************************)
EXTENDS AbiType

CONSTANTS
    MAX_NESTING,    \* 8 in the code
    Words,          \* the runs a type string may begin with
    InnerWords,     \* the runs it may go on with
    MaxTokens       \* bound on the length of a type string

ASSUME ParseAssumption == MAX_NESTING \in Nat /\ InnerWords \subseteq Words

VARIABLES
    text,           \* what has been read
    mode,           \* "type", "suffix", "bracket", "length", "done"
    enclosing,      \* for each open tuple, how deep its components nest
    frames,         \* for each open tuple, its components
    levels,         \* how deep the current type nests
    current,
    length,         \* of the array being read
    answer          \* what is returned

parseVars == <<text, mode, enclosing, frames, levels, current, length, answer>>

Mark(character) == <<character, <<>>>>
OpenParen == Mark("(")
CloseParen == Mark(")")
Comma == Mark(",")
OpenBracket == Mark("[")
CloseBracket == Mark("]")
Marks == {OpenParen, CloseParen, Comma, OpenBracket, CloseBracket, Mark(" ")}

Deeper(a, b) == IF a > b THEN a ELSE b

ParseInit ==
    /\ text = <<>> /\ mode = "type"
    /\ enclosing = <<>> /\ frames = <<>>
    /\ levels = 0 /\ current = Null /\ length = 0
    /\ answer = Null

\* Two runs that touch would be one.
Tokens ==
    Marks \cup (IF text = <<>> THEN Words ELSE IF Last(text) \in Marks THEN InnerWords ELSE {})

Read(token) ==
    /\ mode # "done" /\ Len(text) < MaxTokens
    /\ token \in Tokens
    /\ text' = Append(text, token)

Opens(token) ==
    /\ mode = "type" /\ token = OpenParen /\ Len(enclosing) < MAX_NESTING
    /\ Read(token)
    /\ enclosing' = Append(enclosing, 0)
    /\ frames' = Append(frames, <<>>)
    /\ UNCHANGED <<mode, levels, current, length, answer>>

NamesType(token) ==
    /\ mode = "type" /\ elementaryAbiType(token) # Null
    /\ Read(token)
    /\ current' = elementaryAbiType(token)
    /\ levels' = 0
    /\ mode' = "suffix"
    /\ UNCHANGED <<enclosing, frames, length, answer>>

OpensArray(token) ==
    /\ mode = "suffix" /\ token = OpenBracket /\ levels < MAX_NESTING
    /\ Read(token)
    /\ levels' = levels + 1
    /\ mode' = "bracket"
    /\ UNCHANGED <<enclosing, frames, current, length, answer>>

\* `[' is followed by `]', or by a first digit that is not zero, any others, and `]'.
IsLength(token) ==
    /\ token[1] = "" /\ token[2] # <<>> /\ token[2][1] # 0
    /\ \A i \in DOMAIN token[2] : token[2][i] \in Digit

ReadsLength(token) ==
    /\ mode = "bracket" /\ IsLength(token)
    /\ Read(token)
    /\ length' = FoldLeft(LAMBDA n, c : saturatingAdd(saturatingMul(n, 10), c), 0, token[2])
    /\ mode' = "length"
    /\ UNCHANGED <<enclosing, frames, levels, current, answer>>

ClosesArray(token) ==
    /\ mode \in {"bracket", "length"} /\ token = CloseBracket
    /\ Read(token)
    /\ current' = arrayOf(current, IF mode = "bracket" THEN -1 ELSE length)
    /\ mode' = "suffix"
    /\ UNCHANGED <<enclosing, frames, levels, length, answer>>

\* Mutant: only the last component of a tuple counts.
levelsOfTupleLast == 1 + levels

levelsOfTuple == 1 + Deeper(Last(enclosing), levels)

ClosesTuple(token) ==
    /\ mode = "suffix" /\ token = CloseParen
    /\ enclosing # <<>> /\ levelsOfTuple <= MAX_NESTING
    /\ Read(token)
    /\ levels' = levelsOfTuple
    /\ current' = tupleOf(Append(Last(frames), current))
    /\ enclosing' = Front(enclosing)
    /\ frames' = Front(frames)
    /\ UNCHANGED <<mode, length, answer>>

EndsComponent(token) ==
    /\ mode = "suffix" /\ token = Comma /\ enclosing # <<>>
    /\ Read(token)
    /\ enclosing' = [enclosing EXCEPT ![Len(enclosing)] = Deeper(@, levels)]
    /\ frames' = [frames EXCEPT ![Len(frames)] = Append(@, current)]
    /\ mode' = "type"
    /\ UNCHANGED <<levels, current, length, answer>>

\* Every `return null' at a token.
Refused(token) ==
    \/ mode = "type" /\ elementaryAbiType(token) = Null
           /\ (token = OpenParen => Len(enclosing) >= MAX_NESTING)
    \/ mode = "suffix" /\ token \notin {OpenBracket, CloseParen, Comma}
    \/ mode = "suffix" /\ token = OpenBracket /\ levels >= MAX_NESTING
    \/ mode = "suffix" /\ token \in {CloseParen, Comma} /\ enclosing = <<>>
    \/ mode = "suffix" /\ token = CloseParen /\ enclosing # <<>> /\ levelsOfTuple > MAX_NESTING
    \/ mode = "bracket" /\ token # CloseBracket /\ ~IsLength(token)
    \/ mode = "length" /\ token # CloseBracket

Refuses(token) ==
    /\ Refused(token)
    /\ Read(token)
    /\ mode' = "done"
    /\ UNCHANGED <<enclosing, frames, levels, current, length, answer>>

\* The string ends here.
Ends ==
    /\ mode # "done"
    /\ answer' = IF mode = "suffix" /\ enclosing = <<>> THEN current ELSE Null
    /\ mode' = "done"
    /\ UNCHANGED <<text, enclosing, frames, levels, current, length>>

ParseNext ==
    \/ \E token \in Tokens :
           \/ Opens(token)
           \/ NamesType(token)
           \/ OpensArray(token)
           \/ ReadsLength(token)
           \/ ClosesArray(token)
           \/ ClosesTuple(token)
           \/ EndsComponent(token)
           \/ Refuses(token)
    \/ Ends

ParseSpec == ParseInit /\ [][ParseNext]_parseVars

-----------------------------------------------------------------------------
(* Properties.                                                             *)

\* A type that is accepted has no leaf deeper than the limit, siblings
\* included, so the recursive walk over a value of it is bounded.
\* (MAX_NESTING in parseAbiType: the loop itself is iterative.)
NestingIsBounded ==
    answer # Null => \A n \in answer.leaves : n <= MAX_NESTING
=============================================================================
