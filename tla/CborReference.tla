---------------------------- MODULE CborReference ----------------------------
(***************************************************************************)
(* What a rain meta document is, as a grammar: for each of its parts, the  *)
(* readings of `meta' from its i'th byte, each with the byte after it.     *)
(***************************************************************************)
EXTENDS Integers, Sequences, FiniteSets, SequencesExt

CONSTANTS
    RAIN_META_DOCUMENT_V1, PREFIX_BYTES, OA_SCHEMA,
    CONTENT_TYPES, CONTENT_ENCODINGS, CONTENT_LANGUAGES, MAX_DEPTH

Reading(value, next) == [value |-> value, next |-> next]
NoReading == {}

At(meta, i, bytes) == i <= Len(meta) /\ meta[i] \in bytes

\* The argument of a head of a major type, in one byte, in two or in three.
Argument(meta, major, i) ==
    CASE At(meta, i, 32 * major..32 * major + 23) -> {Reading(meta[i] - 32 * major, i + 1)}
      [] At(meta, i, {32 * major + 24}) /\ i + 1 <= Len(meta) -> {Reading(meta[i + 1], i + 2)}
      [] At(meta, i, {32 * major + 25}) /\ i + 2 <= Len(meta) ->
             {Reading(256 * meta[i + 1] + meta[i + 2], i + 3)}
      [] OTHER -> NoReading

Opens(meta, major, i) == At(meta, i, {32 * major + 31})
Breaks(meta, i) == At(meta, i, {255})

\* How deep what any tags enclose is.
RECURSIVE Tagged(_, _, _)
Tagged(meta, depth, i) ==
    {Reading(depth, i)}
    \cup IF depth >= MAX_DEPTH THEN NoReading
         ELSE UNION {Tagged(meta, depth + 1, tag.next) : tag \in Argument(meta, 6, i)}

\* A sequence of bytes that is the UTF-8 of some characters.
Continues(b) == b \in 128..191
Scalar(b) ==
    CASE Len(b) = 1 -> b[1] < 128
      [] Len(b) = 2 -> b[1] \in 192..223 /\ Continues(b[2]) /\ 64 * (b[1] - 192) + b[2] - 128 >= 128
      [] Len(b) = 3 ->
             /\ b[1] \in 224..239 /\ Continues(b[2]) /\ Continues(b[3])
             /\ LET n == 4096 * (b[1] - 224) + 64 * (b[2] - 128) + b[3] - 128
                IN n >= 2048 /\ n \notin 55296..57343
      [] Len(b) = 4 ->
             /\ b[1] \in 240..247 /\ \A k \in 2..4 : Continues(b[k])
             /\ 262144 * (b[1] - 240) + 4096 * (b[2] - 128) + 64 * (b[3] - 128) + b[4] - 128
                    \in 65536..1114111

RECURSIVE IsUtf8(_)
IsUtf8(b) ==
    b = <<>> \/ \E n \in 1..4 : n <= Len(b) /\ Scalar(SubSeq(b, 1, n)) /\ IsUtf8(SubSeq(b, n + 1, Len(b)))

Definite(meta, major, i) ==
    {Reading(SubSeq(meta, n.next, n.next + n.value - 1), n.next + n.value) :
        n \in {n \in Argument(meta, major, i) : n.next + n.value - 1 <= Len(meta)}}

RECURSIVE Chunks(_, _, _)
Chunks(meta, major, i) ==
    IF Breaks(meta, i) THEN {Reading(<<>>, i + 1)}
    ELSE UNION {{Reading(chunk.value \o rest.value, rest.next) : rest \in Chunks(meta, major, chunk.next)} :
                chunk \in Definite(meta, major, i)}

\* A byte or text string, in one or in chunks.
Untagged(meta, i) ==
    Definite(meta, 2, i)
    \cup (IF Opens(meta, 2, i) THEN Chunks(meta, 2, i + 1) ELSE {})
    \cup {s \in Definite(meta, 3, i) \cup IF Opens(meta, 3, i) THEN Chunks(meta, 3, i + 1) ELSE {} :
             IsUtf8(s.value)}

String(meta, depth, i) == UNION {Untagged(meta, t.next) : t \in Tagged(meta, depth, i)}

\* Any item at all, and `count' of them, or as many as come before a break in
\* groups of `per'.
RECURSIVE Anything(_, _, _), Things(_, _, _, _), ThingsToBreak(_, _, _, _)

Things(meta, count, depth, i) ==
    IF count = 0 THEN {Reading("things", i)}
    ELSE UNION {Things(meta, count - 1, depth, thing.next) : thing \in Anything(meta, depth, i)}

ThingsToBreak(meta, per, depth, i) ==
    IF Breaks(meta, i) THEN {Reading("things", i + 1)}
    ELSE UNION {ThingsToBreak(meta, per, depth, group.next) : group \in Things(meta, per, depth, i)}

Collection(meta, major, per, depth, i) ==
    UNION {Things(meta, per * n.value, depth, n.next) : n \in Argument(meta, major, i)}
    \cup IF Opens(meta, major, i) THEN ThingsToBreak(meta, per, depth, i + 1) ELSE NoReading

Anything(meta, depth, i) ==
    Argument(meta, 0, i) \cup Argument(meta, 1, i) \cup Untagged(meta, i)
    \cup {s \in Argument(meta, 7, i) : At(meta, i, 244..247 \cup {249})}
    \cup IF depth >= MAX_DEPTH THEN NoReading
         ELSE Collection(meta, 4, 1, depth + 1, i)
              \cup Collection(meta, 5, 2, depth + 1, i)
              \cup UNION {Anything(meta, depth + 1, tag.next) : tag \in Argument(meta, 6, i)}

\* A payload: a string, or an array of numbers below 256.
RECURSIVE Numbers(_, _, _, _)
Numbers(meta, count, depth, i) ==
    IF count = 0 THEN {Reading(<<>>, i)}
    ELSE (IF count < 0 /\ Breaks(meta, i) THEN {Reading(<<>>, i + 1)} ELSE NoReading)
         \cup UNION {{Reading(<<n.value>> \o rest.value, rest.next) :
                         rest \in Numbers(meta, count - 1, depth, n.next)} :
                     n \in {n \in UNION {Argument(meta, 0, t.next) : t \in Tagged(meta, depth, i)} :
                               n.value < 256}}

Array(meta, depth, i) ==
    UNION {Numbers(meta, n.value, depth, n.next) : n \in Argument(meta, 4, i)}
    \cup IF Opens(meta, 4, i) THEN Numbers(meta, -1, depth, i + 1) ELSE NoReading

Payload(meta, depth, i) ==
    UNION {Untagged(meta, t.next)
           \cup IF t.value >= MAX_DEPTH THEN NoReading ELSE Array(meta, t.value + 1, t.next) :
           t \in Tagged(meta, depth, i)}

\* One of some names, by its index or in full; alone, or with a unit.
Name(meta, names, depth, i) ==
    UNION {{n \in Argument(meta, 0, t.next) : n.value < Len(names)} : t \in Tagged(meta, depth, i)}
    \cup UNION {{Reading(n - 1, s.next) : n \in {n \in DOMAIN names : names[n] = s.value}} :
                s \in String(meta, depth, i)}

Unit(meta, depth, i) ==
    UNION {{s \in Argument(meta, 7, t.next) : s.value \in {22, 23} /\ s.next = t.next + 1} :
           t \in Tagged(meta, depth, i)}

WithUnit(meta, names, depth, i) ==
    UNION {{Reading(n.value, u.next) : u \in Unit(meta, depth, n.next)} : n \in Name(meta, names, depth, i)}

Choice(meta, names, depth, i) ==
    Name(meta, names, depth, i)
    \cup IF depth >= MAX_DEPTH THEN NoReading
         ELSE UNION {WithUnit(meta, names, depth + 1, n.next) :
                        n \in {n \in Argument(meta, 4, i) : n.value = 2}}
              \cup (IF At(meta, i, {161}) THEN WithUnit(meta, names, depth + 1, i + 1) ELSE NoReading)
              \cup {Reading(c.value, c.next + 1) :
                       c \in {c \in IF Opens(meta, 4, i) THEN WithUnit(meta, names, depth + 1, i + 1)
                                    ELSE NoReading : Breaks(meta, c.next)}}

\* One entry of an item's map.
Entry(meta, depth, i) ==
    UNION {{[key |-> k.value, value |-> v.value, next |-> v.next] :
               v \in CASE k.value = 0 -> Payload(meta, depth, k.next)
                       [] k.value = 1 ->
                              UNION {Argument(meta, 0, t.next) : t \in Tagged(meta, depth, k.next)}
                       [] k.value = 2 -> Choice(meta, CONTENT_TYPES, depth, k.next)
                       [] k.value = 3 -> Choice(meta, CONTENT_ENCODINGS, depth, k.next)
                       [] k.value = 4 -> Choice(meta, CONTENT_LANGUAGES, depth, k.next)
                       [] k.value = OA_SCHEMA ->
                              {s \in String(meta, depth, k.next) : IsUtf8(s.value)}
                       [] OTHER -> Anything(meta, depth, k.next)} :
           k \in UNION {Argument(meta, 0, t.next) : t \in Tagged(meta, depth, i)}}

\* The entries, as what each key is followed by; no key comes twice.
RECURSIVE Entries(_, _, _, _)
Entries(meta, count, depth, i) ==
    IF count = 0 THEN {Reading(<<>>, i)}
    ELSE (IF count < 0 /\ Breaks(meta, i) THEN {Reading(<<>>, i + 1)} ELSE NoReading)
         \cup UNION {{Reading(rest.value @@ (e.key :> e.value), rest.next) :
                         rest \in {rest \in Entries(meta, count - 1, depth, e.next) :
                                      e.key \notin DOMAIN rest.value}} :
                     e \in Entry(meta, depth, i)}

Map(meta, depth, i) ==
    UNION {Entries(meta, n.value, depth, n.next) : n \in Argument(meta, 5, i)}
    \cup IF Opens(meta, 5, i) THEN Entries(meta, -1, depth, i + 1) ELSE NoReading

\* A rain meta item has a payload and a magic, which is not the document's.
Item(meta, i) ==
    {Reading([payload |-> m.value[0], magic |-> m.value[1],
              plain |-> 3 \in DOMAIN m.value => m.value[3] < 2], m.next) :
        m \in {m \in UNION {Map(meta, t.value + 1, t.next) :
                                t \in {t \in Tagged(meta, 0, i) : t.value < MAX_DEPTH}} :
                  {0, 1} \subseteq DOMAIN m.value /\ m.value[1] # RAIN_META_DOCUMENT_V1}}

RECURSIVE Items(_, _)
Items(meta, i) ==
    IF i > Len(meta) THEN {<<>>}
    ELSE UNION {{<<it.value>> \o rest : rest \in Items(meta, it.next)} : it \in Item(meta, i)}

\* What a document may be read as.
Readings(meta) ==
    IF /\ Len(meta) >= PREFIX_BYTES
       /\ FoldLeft(LAMBDA n, b : 256 * n + b, 0, SubSeq(meta, 1, PREFIX_BYTES)) = RAIN_META_DOCUMENT_V1
    THEN Items(meta, PREFIX_BYTES + 1) ELSE {}
=============================================================================
