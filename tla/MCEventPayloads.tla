---------------------------- MODULE MCEventPayloads ----------------------------
(***************************************************************************)
(* Words of two bytes.  Type strings up to a few tokens; with an accepted  *)
(* type, its smallest and largest values of a few words, canonical, with   *)
(* one byte changed, and cut short or drawn out; with documents of all that*)
(* the reader distinguishes, one byte edited.                              *)
(***************************************************************************)
EXTENDS EventPayloads

Name(letters, digits) == <<letters, digits>>

MCInnerWords ==
    {Name("uint", <<8>>), Name("string", <<>>), Name("", <<2>>), Name("", <<9, 9>>)}

MCWords ==
    MCInnerWords \cup
    {Name("address", <<>>), Name("bool", <<>>), Name("bytes", <<>>),
     Name("bytes", <<1>>), Name("bytes", <<2>>), Name("bytes", <<3>>), Name("bytes", <<0>>),
     Name("uint", <<1, 6>>), Name("uint", <<2, 4>>), Name("uint", <<1, 2>>), Name("uint", <<0, 8>>),
     Name("int", <<8>>), Name("int", <<1, 6>>), Name("uint", <<>>), Name("uint", <<8, Letter>>)}

-----------------------------------------------------------------------------
(* Values.                                                                 *)

ValueBytes == {0, 1, 255}

WordOf(n) == <<((n + 65536) % 65536) \div 256, n % 256>>
BytesOf(numbers) == FlattenSeq([i \in DOMAIN numbers |-> WordOf(numbers[i])])

Canonical(type) ==
    UNION {{BytesOf([i \in DOMAIN layout |-> layout[i].from]),
            BytesOf([i \in DOMAIN layout |-> layout[i].to - (layout[i].to % layout[i].step)])} :
           layout \in Abi!JoinedLayouts(<<type>>, 6)}

MCPayloads(type) ==
    IF type = Null THEN {<<>>} ELSE
    {<<>>, WordOf(0), BytesOf(<<2, 255, 1>>)} \cup
    UNION {{bytes, Append(bytes, 0), bytes \o <<0, 0>>}
           \cup {SubSeq(bytes, 1, i - 1) : i \in DOMAIN bytes}
           \cup {ReplaceAt(bytes, i, b) : i \in DOMAIN bytes, b \in ValueBytes} :
           bytes \in Canonical(type)}

-----------------------------------------------------------------------------
(* Documents.  The document's magic is 200, and an item's 7 or 8.          *)

MCTypes == <<<<78>>, <<97>>, <<98>>, <<99>>>>
MCEncodings == <<<<110>>, <<105>>, <<100>>>>
MCLanguages == <<<<110>>, <<101>>>>

Bytes1(b) == <<0, 65, b>>
MagicOf(m) == <<1, m>>

MCDocuments ==
    LET doc(s) == <<200>> \o FlattenSeq(s) IN
    { doc(<<>>),
      \* Two items, of the same magic and payload.
      doc(<<<<162>>, Bytes1(5), MagicOf(7), <<162>>, MagicOf(7), Bytes1(5)>>),
      \* Two items of different magics, with more keys, one of them long.
      doc(<<<<163>>, Bytes1(5), MagicOf(7), <<3, 0>>, <<163>>, Bytes1(5), MagicOf(8), <<25, 1, 0, 0>>>>),
      \* Breaks, a payload in chunks, an array in a map under a key of no meaning.
      doc(<<<<191>>, <<0, 95, 65, 5, 64, 255>>, MagicOf(7), <<9, 191, 0, 159, 1, 255, 255>>, <<255>>>>),
      \* A payload that is an array, tags, choices of all kinds.
      doc(<<<<193, 165>>, <<0, 129, 5>>, MagicOf(7), <<2, 161, 1, 246>>, <<3, 130, 97, 105, 247>>,
            <<4, 159, 0, 246, 255>>>>),
      doc(<<<<163>>, <<0, 159, 24, 5, 193, 6, 255>>, MagicOf(8), <<3, 193, 97, 100>>>>),
      \* Text of every length of character.
      doc(<<<<164>>, <<0, 98, 194, 128>>, MagicOf(7), <<49, 67, 224, 160, 128>>, <<9, 99, 237, 159, 191>>>>),
      doc(<<<<163>>, <<0, 100, 240, 144, 128, 128>>, MagicOf(7), <<49, 127, 100, 244, 143, 191, 191, 255>>>>),
      \* Values of no meaning, as deep as the limit.
      doc(<<<<164>>, Bytes1(5), MagicOf(7), <<9, 130, 129, 32, 244>>, <<10, 194, 193, 161, 0, 248, 32>>>>),
      doc(<<<<163>>, Bytes1(5), MagicOf(7), <<9, 129, 129, 193, 95, 64, 255>>>>) }

MCEditBytes ==
    {0, 1, 2, 3, 4, 5, 7, 8, 9, 24, 25, 31, 32, 63, 64, 65, 66, 95, 96, 97, 98, 105, 110, 127,
     128, 129, 130, 131, 143, 144, 159, 160, 161, 162, 163, 164, 165, 191, 192, 193, 194, 200, 223,
     224, 240, 244, 245, 246, 247, 248, 255}

\* The reader of the documents is RainMeta's.
MCItemsOf(meta) == Rain!documentItems(meta)

MCKeys == {<<>>, <<5>>, <<5, 6>>, <<7>>}
=============================================================================
