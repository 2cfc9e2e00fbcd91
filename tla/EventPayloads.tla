---------------------------- MODULE EventPayloads ----------------------------
(***************************************************************************)
(* The two bytes fields of an event that the subgraph reads into:          *)
(* configValueStatus of subgraph/src/configregistry.ts over the type and   *)
(* the value of a Register, and verifyPreimages over the document of a     *)
(* MetaV1_2.  Anybody emits either, with any bytes.                        *)
(***************************************************************************)
EXTENDS ParseAbiType, VerifyPreimages

CONSTANTS
    SIZE_BYTES,
    RAIN_META_DOCUMENT_V1, PREFIX_BYTES, OA_SCHEMA,
    CONTENT_TYPES, CONTENT_ENCODINGS, CONTENT_LANGUAGES, MAX_DEPTH, KEY_BYTES,
    Payloads(_),    \* the values that are emitted with a type, or with none
    Documents,      \* the documents that are emitted, as they are or edited
    EditBytes       \* the bytes that an edit writes

ASSUME SizeAssumption == SIZE_BYTES \in 1..WORD

VARIABLES
    event,          \* "Register" or "MetaV1_2"
    value,
    status,         \* what the handler of a Register says of the value
    edited

vars == <<parseVars, event, value, status, document, edited>>

Encoding == INSTANCE AbiEncoding
Rain == INSTANCE RainMeta
Abi == INSTANCE AbiReference
Cbor == INSTANCE CborReference

\* What a document verifies is read by RainMeta.
ASSUME ItemsAssumption ==
    None = Null /\ \A meta \in Documents : ItemsOf(meta) = Rain!documentItems(meta)

\* `hashed' is whether the emitted type is the one whose hash was bound, and
\* `type' what it was parsed to.
configValueStatus(hashed, type, bytes) ==
    IF ~hashed THEN "TYPE_HASH_MISMATCH"
    ELSE IF type = Null THEN "VALUE_NOT_DECODABLE"
    ELSE [NOT_DECODABLE |-> "VALUE_NOT_DECODABLE", NOT_CANONICAL |-> "VALUE_NOT_CANONICAL",
          CANONICAL |-> "VALID"][Encoding!abiEncodingStatus(type, bytes)]

Init ==
    /\ ParseInit
    /\ value = <<>> /\ status = Null /\ edited = FALSE
    /\ \/ event = "Register" /\ document = <<>>
       \/ event = "MetaV1_2" /\ document \in Documents

Parses ==
    /\ event = "Register"
    /\ ParseNext
    /\ UNCHANGED <<event, value, status, document, edited>>

Handles(hashed, bytes) ==
    /\ event = "Register" /\ mode = "done" /\ status = Null
    /\ value' = bytes
    /\ status' = configValueStatus(hashed, answer, bytes)
    /\ UNCHANGED <<parseVars, event, document, edited>>

\* A document with a byte replaced, inserted or dropped, or cut short.
Edits ==
    /\ event = "MetaV1_2" /\ ~edited
    /\ \E i \in 1..Len(document), b \in EditBytes :
           document' \in {ReplaceAt(document, i, b), InsertAt(document, i, b), RemoveAt(document, i),
                          SubSeq(document, 1, i - 1)}
    /\ edited' = TRUE
    /\ UNCHANGED <<parseVars, event, value, status>>

Next ==
    \/ Parses
    \/ \E bytes \in IF mode = "done" THEN Payloads(answer) ELSE {} : Handles(TRUE, bytes)
    \/ Handles(FALSE, <<>>)
    \/ Edits

Spec == Init /\ [][Next]_vars

-----------------------------------------------------------------------------
(* Properties.                                                             *)

\* A type is accepted exactly when it is in the grammar and nests no deeper
\* than the limit, it is the type that was written, lengths beyond the cap
\* as the cap, and it is known to be dynamic exactly when it is.
\* (parseAbiType, the two counts of levels that its loops keep.)
ParsesTheGrammar ==
    mode = "done" =>
        IF answer # Null
        THEN /\ NestingIsBounded
             /\ Abi!Rendered(answer) = Abi!Capped(text)
             /\ answer.dynamic = Abi!IsDynamic(answer)
             /\ Abi!IsType(text, MAX_NESTING)
        ELSE ~Abi!IsType(text, MAX_NESTING)

\* A value is VALID exactly when it is what abi.encode makes of some value of
\* the type, and NOT_DECODABLE exactly when it ends before the lengths in it
\* say it does.
\* (the comment of abiEncodingStatus and the statuses of configValueStatus.)
StatusIsExact ==
    status \notin {Null, "TYPE_HASH_MISMATCH"} =>
        LET layouts == IF answer = Null THEN {} ELSE Abi!LayoutsOfRoot(answer, value) IN
        status = IF \E layout \in layouts : Abi!Encodes(value, layout) THEN "VALID"
                 ELSE IF \E layout \in layouts : Abi!Reaches(value, layout) THEN "VALUE_NOT_CANONICAL"
                 ELSE "VALUE_NOT_DECODABLE"

\* No word of a value is read twice, and none that is not there, so that the
\* walk is no longer than the value.
\* (the comment in sequence of abiencoding.ts.)
WordsReadOnce ==
    status \notin {Null, "TYPE_HASH_MISMATCH"} /\ answer # Null =>
        LET reads == Encoding!rootWalk(answer, value).reads IN
        /\ \A i \in DOMAIN reads : reads[i] \in 0..Len(value) - WORD
        /\ \A i, j \in DOMAIN reads : i # j => reads[i] # reads[j]

\* A document is read as the items the grammar reads it as, and refused
\* exactly when the grammar has no reading of it.
\* (documentItems and every method of CborReader.)
DocumentsAreRead ==
    event = "MetaV1_2" =>
        Cbor!Readings(document) = {Rain!documentItems(document)} \ {Null}
=============================================================================
