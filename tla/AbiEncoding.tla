------------------------------ MODULE AbiEncoding ------------------------------
(***************************************************************************)
(* abiEncodingStatus of subgraph/src/lib/abiencoding.ts: the walk over the *)
(* bytes of a value as abi.encode would have laid them out, whatever the   *)
(* bytes are.  A walk is the position it ends at, -1 when the data does    *)
(* not reach that far, whether all it passed was canonical, and `reads',   *)
(* the positions of the words it looked into, which the code does not keep.*)
(***************************************************************************)
EXTENDS AbiType

CONSTANT SIZE_BYTES     \* the bytes of a word an offset or a length is read from, 6 in the code

Walk(end, canonical, reads) == [end |-> end, canonical |-> canonical, reads |-> reads]
Unread(reads) == Walk(-1, TRUE, reads)

fits(data, pos, bytes) ==
    /\ pos >= 0 /\ bytes >= 0
    /\ saturatingAdd(pos, bytes) <= Len(data)

zeroes(data, pos, from, to) == \A i \in from..to - 1 : data[pos + i + 1] = 0

size(data, pos) ==
    IF ~zeroes(data, pos, 0, WORD - SIZE_BYTES) THEN SIZE_CAP
    ELSE LET n == FoldLeft(LAMBDA m, b : 256 * m + b, 0,
                           SubSeq(data, pos + WORD - SIZE_BYTES + 1, pos + WORD))
         IN IF n > SIZE_CAP THEN SIZE_CAP ELSE n

\* Mutant: the sign of an int is not looked at.
isPaddedUnsigned(data, t, pos) ==
    /\ t.kind \in {"ADDRESS", "UINT", "BOOL", "INT"} => zeroes(data, pos, 0, WORD - t.width)
    /\ t.kind = "BOOL" => data[pos + WORD] <= 1
    /\ t.kind = "FIXED_BYTES" => zeroes(data, pos, t.width, WORD)

isPadded(data, t, pos) ==
    /\ t.kind \in {"ADDRESS", "UINT"} => zeroes(data, pos, 0, WORD - t.width)
    /\ t.kind = "BOOL" => zeroes(data, pos, 0, WORD - 1) /\ data[pos + WORD] <= 1
    /\ t.kind = "FIXED_BYTES" => zeroes(data, pos, t.width, WORD)
    /\ t.kind = "INT" =>
           LET fill == IF data[pos + WORD - t.width + 1] >= 128 THEN 255 ELSE 0 IN
           \A i \in 0..WORD - t.width - 1 : data[pos + i + 1] = fill

word(data, t, pos) ==
    IF fits(data, pos, WORD) THEN Walk(pos + WORD, isPadded(data, t, pos), <<pos>>) ELSE Unread(<<>>)

\* bytes and string: a length, and as many bytes padded to a word.
paddedBytes(data, start, length, padded) ==
    IF fits(data, start, padded)
    THEN Walk(start + padded, zeroes(data, start, length, padded),
              <<start - WORD>> \o IF padded > length THEN <<start + padded - WORD>> ELSE <<>>)
    ELSE Unread(<<start - WORD>>)

paddedTo(length) == saturatingAdd(length, (WORD - (length % WORD)) % WORD)

byteString(data, pos) ==
    IF ~fits(data, pos, WORD) THEN Unread(<<>>)
    ELSE paddedBytes(data, pos + WORD, size(data, pos), paddedTo(size(data, pos)))

readFrom(pos, walk) == [walk EXCEPT !.reads = <<pos>> \o @]

RECURSIVE value(_, _, _), sequence(_, _, _, _)

value(data, t, pos) ==
    CASE t.kind \in {"BYTES", "STRING"} -> byteString(data, pos)
      [] t.kind = "TUPLE" -> sequence(data, t, Len(t.components), pos)
      [] t.kind = "ARRAY" /\ t.length >= 0 -> sequence(data, t, t.length, pos)
      [] t.kind = "ARRAY" /\ t.length < 0 ->
             IF fits(data, pos, WORD)
             THEN readFrom(pos, sequence(data, t, size(data, pos), pos + WORD))
             ELSE Unread(<<>>)
      [] OTHER -> word(data, t, pos)

\* Mutant: an item is read wherever its offset points.
tailOfOffset(data, walk, base) == base + size(data, walk.head)

\* A dynamic item is read where it belongs, never where its offset points.
tailOf(data, walk, base) == walk.end

headsEnd(t, count, base) ==
    CASE t.kind = "TUPLE" -> FoldLeft(LAMBDA n, c : saturatingAdd(n, c.headSize), base, t.components)
      [] t.kind = "ARRAY" ->
             IF count > SIZE_CAP \div t.components[1].headSize THEN SIZE_CAP
             ELSE saturatingAdd(base, count * t.components[1].headSize)

\* The walk after an item, whose own walk is `inner'.
afterItem(data, walk, item, inner, base) ==
    [head |-> walk.head + item.headSize,
     end |-> IF item.dynamic \/ inner.end < 0 THEN inner.end ELSE walk.end,
     canonical |->
         /\ walk.canonical /\ inner.canonical
         /\ item.dynamic => size(data, walk.head) = walk.end - base,
     reads |-> walk.reads \o (IF item.dynamic THEN <<walk.head>> ELSE <<>>) \o inner.reads]

withoutHead(walk) == Walk(walk.end, walk.canonical, walk.reads)

\* The heads of the items start at `base'; the end of the walk is the next tail.
sequence(data, t, count, base) ==
    LET itemOf(i) == t.components[IF t.kind = "TUPLE" THEN i ELSE 1]
        step(walk, i) ==
            IF walk.end < 0 THEN walk
            ELSE afterItem(data, walk, itemOf(i),
                     value(data, itemOf(i), IF itemOf(i).dynamic THEN tailOf(data, walk, base) ELSE walk.head),
                     base)
        heads == [head |-> base, end |-> headsEnd(t, count, base), canonical |-> TRUE, reads |-> <<>>]
    IN IF fits(data, base, heads.end - base)
       THEN withoutHead(FoldLeft(step, heads, [i \in 1..count |-> i]))
       ELSE Unread(<<>>)

rootWalk(t, data) == value(data, tupleOf(<<t>>), 0)

statusOf(walk, data) ==
    IF walk.end < 0 THEN "NOT_DECODABLE"
    ELSE IF ~walk.canonical \/ walk.end # Len(data) THEN "NOT_CANONICAL"
    ELSE "CANONICAL"

abiEncodingStatus(t, data) == statusOf(rootWalk(t, data), data)
=============================================================================
