------------------------------- MODULE RainMeta -------------------------------
(***************************************************************************)
(* documentItems of subgraph/src/lib/rainmeta.ts: a rain meta document,    *)
(* which is a prefix and CBOR maps one after the other, read byte by byte. *)
(*                                                                         *)
(* A reader is the record the class is; every method takes the reader and  *)
(* gives back the one it leaves, with what it returns as `result'.  A      *)
(* payload stands for its own keccak256.                                   *)
(***************************************************************************)
EXTENDS Integers, Sequences, FiniteSets, SequencesExt

CONSTANTS
    RAIN_META_DOCUMENT_V1,      \* a magic is a number
    PREFIX_BYTES,               \* the bytes of the document's own, 8 in the code
    OA_SCHEMA,                  \* the key of a string that must be UTF-8
    CONTENT_TYPES, CONTENT_ENCODINGS, CONTENT_LANGUAGES,    \* the names, as bytes
    MAX_DEPTH,                  \* 127 in the code
    KEY_BYTES,                  \* the bytes of a map's key, 8 in the code
    Null

BigEndian(bytes) == FoldLeft(LAMBDA n, b : 256 * n + b, 0, bytes)

CborReader(data) ==
    [data |-> data, pos |-> 0, ok |-> TRUE, major |-> 0, info |-> 0, result |-> Null]

remaining(r) == Len(r.data) - r.pos
done(r) == r.pos >= Len(r.data)
byte(r) == r.data[r.pos + 1]
fail(r) == [r EXCEPT !.ok = FALSE, !.result = Null]
returns(r, result) == [r EXCEPT !.result = result]
advance(r, count) == [r EXCEPT !.pos = @ + count]

\* The result is the argument; none for additional info 31.
head(r) ==
    IF ~r.ok \/ done(r) THEN fail(r) ELSE
    LET info == byte(r) % 32
        s == [advance(r, 1) EXCEPT !.major = byte(r) \div 32, !.info = info]
        width == 2 ^ (info - 24)
    IN CASE info < 24 -> returns(s, info)
         [] info = 31 -> returns(s, 0)
         [] info \in 28..30 -> fail(s)
         [] info \in 24..27 ->
                IF s.pos + width > Len(s.data) THEN fail(s)
                ELSE returns(advance(s, width), BigEndian(SubSeq(s.data, s.pos + 1, s.pos + width)))

take(r, count) ==
    IF ~r.ok \/ count > remaining(r) THEN returns(fail(r), <<>>)
    ELSE returns(advance(r, count), SubSeq(r.data, r.pos + 1, r.pos + count))

indefinite(r) == r.info = 31

\* The result is the depth below the tags.
RECURSIVE tags(_, _)
tags(r, depth) ==
    IF r.ok /\ ~done(r) /\ byte(r) \div 32 = 6
    THEN LET s == head(r) IN
         IF depth >= MAX_DEPTH \/ indefinite(s) THEN returns(fail(s), depth) ELSE tags(s, depth + 1)
    ELSE returns(r, depth)

isBreak(r) == r.ok /\ ~done(r) /\ byte(r) = 255

RECURSIVE utf8(_)
utf8(bytes) ==
    bytes = <<>> \/
    LET b == bytes[1]
        n == CASE b < 128 -> 0
               [] b \in 194..223 -> 1
               [] b \in 224..239 -> 2
               [] b \in 240..244 -> 3
               [] OTHER -> -1
        lo == CASE b = 224 -> 160 [] b = 240 -> 144 [] OTHER -> 128
        hi == CASE b = 237 -> 159 [] b = 244 -> 143 [] OTHER -> 191
    IN /\ n >= 0 /\ n < Len(bytes)
       /\ \A k \in 1..n : bytes[k + 1] \in IF k = 1 THEN lo..hi ELSE 128..191
       /\ utf8(SubSeq(bytes, n + 2, Len(bytes)))

\* The chunks of an indefinite string, and its break.
RECURSIVE chunks(_, _, _)
chunks(r, major, parts) ==
    IF isBreak(r) THEN returns(advance(r, 1), parts) ELSE
    LET s == head(r) IN
    IF ~s.ok \/ s.major # major \/ indefinite(s) THEN fail(s)
    ELSE LET part == take(s, s.result) IN
         IF part.ok THEN chunks(part, major, parts \o part.result) ELSE fail(part)

wellFormed(major, value) ==
    IF value.ok /\ (major = 3 => utf8(value.result)) THEN value ELSE fail(value)

stringOf(s) ==
    IF ~s.ok \/ s.major \notin {2, 3} THEN fail(s)
    ELSE wellFormed(s.major, IF indefinite(s) THEN chunks(s, s.major, <<>>) ELSE take(s, s.result))

string(r, depth) == stringOf(head(tags(r, depth)))

RECURSIVE skip(_, _), skipItems(_, _, _), skipUntilBreak(_, _, _, _)

skipItems(r, count, depth) ==
    IF count = 0 \/ ~r.ok THEN r ELSE skipItems(skip(r, depth), count - 1, depth)

\* An indefinite array or map breaks between its items or entries only; `left'
\* items are missing of the entry that is being skipped.
skipUntilBreak(r, per, left, depth) ==
    IF ~r.ok \/ (left = 0 /\ isBreak(r)) THEN advance(r, 1)
    ELSE skipUntilBreak(skip(r, depth), per, IF left = 0 THEN per - 1 ELSE left - 1, depth)

skip(r, depth) ==
    LET s == head(r)
        per == IF s.major = 4 THEN 1 ELSE 2
    IN CASE ~s.ok -> s
         [] s.ok /\ s.major \in 4..6 /\ depth >= MAX_DEPTH -> fail(s)
         [] s.ok /\ s.major \in {0, 1} -> IF indefinite(s) THEN fail(s) ELSE s
         [] s.ok /\ s.major \in {2, 3} -> string(r, depth)
         [] s.ok /\ s.major \in {4, 5} /\ depth < MAX_DEPTH ->
                IF indefinite(s) THEN skipUntilBreak(s, per, 0, depth + 1)
                ELSE IF s.result > remaining(s) THEN fail(s)
                ELSE skipItems(s, s.result * per, depth + 1)
         [] s.ok /\ s.major = 6 /\ depth < MAX_DEPTH ->
                IF indefinite(s) THEN fail(s) ELSE skip(s, depth + 1)
         [] s.ok /\ s.major = 7 ->
                IF indefinite(s) \/ s.info < 20 \/ s.info = 24 THEN fail(s) ELSE s

\* The bytes of a payload that is an array of them; `left' is -1 until a break.
RECURSIVE payloadBytes(_, _, _, _)
payloadBytes(r, left, depth, parts) ==
    IF left = 0 THEN returns(r, parts)
    ELSE IF left < 0 /\ isBreak(r) THEN returns(advance(r, 1), parts)
    ELSE LET s == head(tags(r, depth + 1)) IN
         IF ~s.ok \/ s.major # 0 \/ indefinite(s) \/ s.result > 255 THEN fail(s)
         ELSE payloadBytes(s, IF left < 0 THEN left ELSE left - 1, depth, Append(parts, s.result))

payloadArray(s, depth) ==
    IF ~s.ok \/ depth >= MAX_DEPTH \/ (~indefinite(s) /\ s.result > remaining(s)) THEN fail(s)
    ELSE payloadBytes(s, IF indefinite(s) THEN -1 ELSE s.result, depth, <<>>)

payloadAt(t) ==
    CASE ~t.ok \/ done(t) -> fail(t)
      [] t.ok /\ ~done(t) /\ byte(t) \div 32 # 4 -> string(t, t.result)
      [] t.ok /\ ~done(t) /\ byte(t) \div 32 = 4 -> payloadArray(head(t), t.result)

payload(r, depth) == payloadAt(tags(r, depth))

unit(r, depth) ==
    LET s == head(tags(r, depth)) IN
    IF s.ok /\ s.major = 7 /\ s.info \in {22, 23} THEN s ELSE fail(s)

\* The result is the index of a name, from 0, or -1.
byIndex(names, s) ==
    IF ~s.ok \/ indefinite(s) \/ s.result >= Len(names) THEN returns(fail(s), -1) ELSE s

byName(names, name) ==
    LET indexes == {i \in DOMAIN names : names[i] = name.result} IN
    IF ~name.ok \/ indexes = {} THEN returns(fail(name), -1)
    ELSE returns(name, (CHOOSE i \in indexes : \A j \in indexes : i <= j) - 1)

identifierAt(names, t) ==
    CASE ~t.ok \/ done(t) -> returns(fail(t), -1)
      [] t.ok /\ ~done(t) /\ byte(t) \div 32 = 0 -> byIndex(names, head(t))
      [] t.ok /\ ~done(t) /\ byte(t) \div 32 # 0 -> byName(names, string(t, t.result))

identifier(names, r, depth) == identifierAt(names, tags(r, depth))

\* An enum variant: its identifier, or one in a map of one entry or an array
\* of two, with a unit, and its break if `open'.
closes(open, last, index) ==
    IF ~last.ok \/ (open /\ ~isBreak(last)) THEN returns(fail(last), -1)
    ELSE returns(IF open THEN advance(last, 1) ELSE last, index)

withUnit(open, r, depth) == closes(open, unit(r, depth), r.result)

enclosed(names, array, s, depth) ==
    IF ~s.ok \/ (array /\ ~indefinite(s) /\ s.result # 2) THEN returns(fail(s), -1)
    ELSE withUnit(array /\ indefinite(s), identifier(names, s, depth), depth)

variant(names, r, depth) ==
    CASE ~r.ok \/ done(r) -> returns(fail(r), -1)
      [] r.ok /\ ~done(r) /\ byte(r) # 161 /\ byte(r) \div 32 # 4 -> identifier(names, r, depth)
      [] r.ok /\ ~done(r) /\ (byte(r) = 161 \/ byte(r) \div 32 = 4) ->
             IF depth >= MAX_DEPTH THEN returns(fail(r), -1)
             ELSE enclosed(names, byte(r) # 161, head(r), depth + 1)

\* One pass of the radix sort: keys by their `k'th byte, in order where it ties.
sortedByByte(keys, k) ==
    LET digit(i) == (keys[i] \div 256 ^ k) % 256
        place(i) == Cardinality({j \in DOMAIN keys : digit(j) < digit(i) \/ (digit(j) = digit(i) /\ j <= i)})
    IN [p \in DOMAIN keys |-> keys[CHOOSE i \in DOMAIN keys : place(i) = p]]

\* Mutant: neighbours are compared as they came.
distinctUnsorted(keys) == \A i \in 2..Len(keys) : keys[i] # keys[i - 1]

distinct(keys) ==
    LET sorted == FoldLeft(sortedByByte, keys, [k \in 1..KEY_BYTES |-> k - 1]) IN
    \A i \in 2..Len(sorted) : sorted[i] # sorted[i - 1]

\* What one key of a rain meta item is followed by.
withPayload(it, p) == <<p, [it EXCEPT !.payload = p.result]>>
withMagic(it, s) ==
    IF s.ok /\ s.major = 0 /\ ~indefinite(s) THEN <<s, [it EXCEPT !.magic = s.result]>> ELSE <<fail(s), it>>
withEncoding(it, v) == <<v, [it EXCEPT !.plain = v.result < 2]>>
schemaOf(s) == IF s.ok /\ ~utf8(s.result) THEN fail(s) ELSE s

entry(r, it, key, depth) ==
    CASE key = 0 -> withPayload(it, payload(r, depth))
      [] key = 1 -> withMagic(it, head(tags(r, depth)))
      [] key = 2 -> <<variant(CONTENT_TYPES, r, depth), it>>
      [] key = 3 -> withEncoding(it, variant(CONTENT_ENCODINGS, r, depth))
      [] key = 4 -> <<variant(CONTENT_LANGUAGES, r, depth), it>>
      [] key = OA_SCHEMA -> <<schemaOf(string(r, depth)), it>>
      [] OTHER -> <<skip(r, depth), it>>

\* The entries of an item's map, after what is read of it as a reader and an
\* item; `left' is -1 until a break.
RECURSIVE entries(_, _, _), entriesAfterKey(_, _, _, _)

entriesAfterKey(k, it, left, depth) ==
    IF ~k.ok \/ k.major # 0 \/ indefinite(k) THEN <<fail(k), it>>
    ELSE entries(entry(k, [it EXCEPT !.seen = Append(@, k.result)], k.result, depth),
                 IF left < 0 THEN left ELSE left - 1, depth)

entries(read, left, depth) ==
    IF ~read[1].ok \/ left = 0 THEN read
    ELSE IF left < 0 /\ isBreak(read[1]) THEN <<advance(read[1], 1), read[2]>>
    ELSE entriesAfterKey(head(tags(read[1], depth)), read[2], left, depth)

\* The result is an item, of payload, magic and whether it is plain, or Null.
complete(r, it) ==
    IF \/ ~r.ok \/ ~distinct(it.seen)
       \/ it.payload = Null \/ it.magic = Null \/ it.magic = RAIN_META_DOCUMENT_V1
    THEN fail(r)
    ELSE returns(r, [payload |-> it.payload, magic |-> it.magic, plain |-> it.plain])

itemOf(read) == complete(read[1], read[2])

itemAt(s, depth) ==
    LET blank == [payload |-> Null, magic |-> Null, plain |-> TRUE, seen |-> <<>>] IN
    IF ~s.ok \/ s.major # 5 \/ depth >= MAX_DEPTH THEN fail(s)
    ELSE itemOf(entries(<<s, blank>>, IF indefinite(s) THEN -1 ELSE s.result, depth + 1))

item(r, depth) == itemAt(head(tags(r, depth)), tags(r, depth).result)

RECURSIVE itemsFrom(_, _), itemsAfter(_, _)
itemsAfter(s, items) == IF s.ok THEN itemsFrom(s, Append(items, s.result)) ELSE Null
itemsFrom(r, items) == IF done(r) THEN items ELSE itemsAfter(item(r, 0), items)

\* Every item of a document, or Null when it is not one.
documentItems(meta) ==
    IF Len(meta) < PREFIX_BYTES THEN Null
    ELSE IF BigEndian(SubSeq(meta, 1, PREFIX_BYTES)) # RAIN_META_DOCUMENT_V1 THEN Null
    ELSE itemsFrom(CborReader(SubSeq(meta, PREFIX_BYTES + 1, Len(meta))), <<>>)
=============================================================================
