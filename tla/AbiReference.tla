----------------------------- MODULE AbiReference -----------------------------
(***************************************************************************)
(* What the ABI says, for the decoder to be checked against: the language  *)
(* of type strings, and the words abi.encode lays a value of a type out in.*)
(***************************************************************************)
EXTENDS Integers, Sequences, SequencesExt, FiniteSets

CONSTANTS WORD, SIZE_CAP, Words

(* Type strings.                                                           *)

Decimal(n) ==
    CASE n < 10 -> <<n>>
      [] n \in 10..99 -> <<n \div 10, n % 10>>
      [] n > 99 -> <<n \div 100, (n \div 10) % 10, n % 10>>

Mark(character) == <<character, <<>>>>

ElementaryNames ==
    Words \cap
    ({Mark("address"), Mark("bool"), Mark("string"), Mark("bytes")}
     \cup {<<"bytes", Decimal(m)>> : m \in 1..WORD}
     \cup {<<kind, Decimal(8 * m)>> : kind \in {"uint", "int"}, m \in 1..WORD})

Lengths == {name \in Words : name[1] = "" /\ name[2][1] # 0 /\ \A i \in DOMAIN name[2] : name[2][i] < 10}

\* The tokens are a type that nests no deeper than `nesting', or such types
\* with commas between.
RECURSIVE IsType(_, _), AreComponents(_, _)

IsType(s, nesting) ==
    LET Inner(from, to) == SubSeq(s, from, Len(s) - to) IN
    \/ Len(s) = 1 /\ s[1] \in ElementaryNames
    \/ /\ nesting > 0 /\ Len(s) > 2 /\ Last(s) = Mark("]")
       /\ \/ s[Len(s) - 1] = Mark("[") /\ IsType(Inner(1, 2), nesting - 1)
          \/ s[Len(s) - 1] \in Lengths /\ s[Len(s) - 2] = Mark("[") /\ IsType(Inner(1, 3), nesting - 1)
    \/ /\ nesting > 0 /\ Len(s) > 2 /\ s[1] = Mark("(") /\ Last(s) = Mark(")")
       /\ AreComponents(Inner(2, 1), nesting - 1)

AreComponents(s, nesting) ==
    \/ IsType(s, nesting)
    \/ \E k \in 2..Len(s) - 1 :
           /\ s[k] = Mark(",")
           /\ IsType(SubSeq(s, 1, k - 1), nesting)
           /\ AreComponents(SubSeq(s, k + 1, Len(s)), nesting)

\* The string a type was read from, lengths beyond the cap as the cap.
ElementaryName(t) ==
    CASE t.kind = "ADDRESS" -> Mark("address")
      [] t.kind = "BOOL" -> Mark("bool")
      [] t.kind = "STRING" -> Mark("string")
      [] t.kind = "BYTES" -> Mark("bytes")
      [] t.kind = "FIXED_BYTES" -> <<"bytes", Decimal(t.width)>>
      [] t.kind = "UINT" -> <<"uint", Decimal(8 * t.width)>>
      [] t.kind = "INT" -> <<"int", Decimal(8 * t.width)>>

RECURSIVE Rendered(_)
Rendered(t) ==
    CASE t.kind = "ARRAY" ->
             Rendered(t.components[1]) \o <<Mark("[")>>
             \o (IF t.length = -1 THEN <<>> ELSE <<<<"", Decimal(t.length)>>>>) \o <<Mark("]")>>
      [] t.kind = "TUPLE" ->
             <<Mark("(")>>
             \o FlattenSeq([i \in DOMAIN t.components |->
                    (IF i = 1 THEN <<>> ELSE <<Mark(",")>>) \o Rendered(t.components[i])])
             \o <<Mark(")")>>
      [] OTHER -> <<ElementaryName(t)>>

Number(digits, base) == FoldLeft(LAMBDA n, d : base * n + d, 0, digits)

Capped(s) ==
    [i \in DOMAIN s |->
        IF s[i] \in Lengths /\ Number(s[i][2], 10) > SIZE_CAP THEN <<"", Decimal(SIZE_CAP)>> ELSE s[i]]

-----------------------------------------------------------------------------
(* Values.  A cell is what a word may hold: the multiples of `step' from   *)
(* one number to another, the negative ones in two's complement.  A layout *)
(* is the cells of a value, one after the other.                           *)

Cell(from, to, step) == [from |-> from, to |-> to, step |-> step, length |-> FALSE]
Exactly(n) == Cell(n, n, 1)
LengthCell(n) == [Exactly(n) EXCEPT !.length = TRUE]
Padded(bytes) == Cell(0, 256 ^ WORD - 1, 256 ^ (WORD - bytes))

Holds(cell, n) ==
    \E m \in {n, n - 256 ^ WORD} : m \in cell.from..cell.to /\ m % cell.step = 0

RECURSIVE IsDynamic(_)
IsDynamic(t) ==
    \/ t.kind \in {"BYTES", "STRING"}
    \/ t.kind = "ARRAY" /\ t.length = -1
    \/ \E i \in DOMAIN t.components : IsDynamic(t.components[i])

\* The heads of items and then the tails of those that are dynamic, each
\* head of which is how far its tail is from the first head.
Joined(types, layouts) ==
    LET InHead(i) == IF IsDynamic(types[i]) THEN 1 ELSE Len(layouts[i])
        Tail1(i) == IF IsDynamic(types[i]) THEN layouts[i] ELSE <<>>
        heads == FoldLeft(LAMBDA n, i : n + InHead(i), 0, [i \in DOMAIN types |-> i])
        Before(i) == FoldLeft(LAMBDA n, j : n + Len(Tail1(j)), heads, [j \in 1..i - 1 |-> j])
    IN FlattenSeq([i \in DOMAIN types |->
                       IF IsDynamic(types[i]) THEN <<Exactly(WORD * Before(i))>> ELSE layouts[i]])
       \o FlattenSeq([i \in DOMAIN types |-> Tail1(i)])

\* The layouts of a type, and of a list of types, in no more than n words.
RECURSIVE Layouts(_, _), LayoutsOfEach(_, _)

LayoutsOfEach(types, n) ==
    IF types = <<>> THEN {<<>>}
    ELSE IF n < Len(types) THEN {}
    ELSE {<<layout>> \o rest :
              layout \in Layouts(Head(types), n - Len(types) + 1),
              rest \in LayoutsOfEach(Tail(types), n - 1)}

Repeated(t, count) == [i \in 1..count |-> t]

JoinedLayouts(types, n) ==
    {layout \in {Joined(types, layouts) : layouts \in LayoutsOfEach(types, n)} : Len(layout) <= n}

Layouts(t, n) ==
    CASE n < 1 -> {}
      [] n >= 1 /\ t.kind \in {"UINT", "ADDRESS"} -> {<<Cell(0, 256 ^ t.width - 1, 1)>>}
      [] n >= 1 /\ t.kind = "BOOL" -> {<<Cell(0, 1, 1)>>}
      [] n >= 1 /\ t.kind = "INT" -> {<<Cell(-(256 ^ t.width \div 2), 256 ^ t.width \div 2 - 1, 1)>>}
      [] n >= 1 /\ t.kind = "FIXED_BYTES" -> {<<Padded(t.width)>>}
      [] n >= 1 /\ t.kind \in {"BYTES", "STRING"} ->
             {<<LengthCell(length)>> \o
                  [i \in 1..(length + WORD - 1) \div WORD |->
                      Padded(IF i * WORD > length THEN length - (i - 1) * WORD ELSE WORD)] :
              length \in 0..WORD * (n - 1)}
      [] n >= 1 /\ t.kind = "TUPLE" -> JoinedLayouts(t.components, n)
      [] n >= 1 /\ t.kind = "ARRAY" /\ t.length # -1 ->
             IF t.length > n THEN {} ELSE JoinedLayouts(Repeated(t.components[1], t.length), n)
      [] n >= 1 /\ t.kind = "ARRAY" /\ t.length = -1 ->
             UNION {{<<LengthCell(count)>> \o layout :
                        layout \in JoinedLayouts(Repeated(t.components[1], count), n - 1)} :
                    count \in 0..n - 1}

WordAt(data, i) == Number(SubSeq(data, WORD * (i - 1) + 1, WORD * i), 256)

Encodes(data, layout) ==
    /\ Len(data) = WORD * Len(layout)
    /\ \A i \in DOMAIN layout : Holds(layout[i], WordAt(data, i))

\* The data is long enough for the layout its lengths ask for.
Reaches(data, layout) ==
    /\ Len(data) >= WORD * Len(layout)
    /\ \A i \in DOMAIN layout : layout[i].length => Holds(layout[i], WordAt(data, i))

\* abi.encode of a value is the layout of a tuple of it alone.
LayoutsOfRoot(t, data) == JoinedLayouts(<<t>>, Len(data) \div WORD)
=============================================================================
