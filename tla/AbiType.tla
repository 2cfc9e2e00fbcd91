-------------------------------- MODULE AbiType --------------------------------
(***************************************************************************)
(* The ABI types of subgraph/src/lib/abitype.ts: what an elementary name   *)
(* means, and what the constructor derives of a type.                      *)
(*                                                                         *)
(* A name is its letters and what follows them, character by character.    *)
(* The element of an array is its one component, and `leaves' is the set   *)
(* of depths a type has an elementary type at, which the code never needs. *)
(***************************************************************************)
EXTENDS Integers, Sequences, SequencesExt

CONSTANTS
    WORD,           \* bytes of a word, 32 in the code
    ADDRESS_WIDTH,  \* bytes of an address, 20 in the code
    SIZE_CAP,       \* where sizes and lengths saturate, 2^40 in the code
    Null

ASSUME WordAssumption ==
    /\ WORD \in Nat \ {0}
    /\ ADDRESS_WIDTH \in 1..WORD
    /\ SIZE_CAP \in Nat

Digit == 0..9
Letter == 10    \* any character of a name that is no digit

saturatingAdd(a, b) == IF a + b > SIZE_CAP THEN SIZE_CAP ELSE a + b
saturatingMul(a, b) == IF a # 0 /\ b > SIZE_CAP \div a THEN SIZE_CAP ELSE a * b

\* The constructor.
AbiType(kind, width, length, components) ==
    LET dynamic ==
            \/ kind \in {"BYTES", "STRING"}
            \/ kind = "ARRAY" /\ length < 0
            \/ \E i \in DOMAIN components : components[i].dynamic
        size == CASE dynamic \/ kind \notin {"ARRAY", "TUPLE"} -> WORD
                  [] kind = "ARRAY" -> saturatingMul(length, components[1].headSize)
                  [] kind = "TUPLE" -> FoldLeft(LAMBDA n, c : saturatingAdd(n, c.headSize),
                                                0, components)
    IN
    [kind |-> kind, width |-> width, length |-> length, components |-> components,
     dynamic |-> dynamic, headSize |-> size,
     leaves |-> IF components = <<>> THEN {0}
                ELSE UNION {{n + 1 : n \in components[i].leaves} : i \in DOMAIN components}]

elementary(kind, width) == AbiType(kind, width, 0, <<>>)
arrayOf(element, length) == AbiType("ARRAY", 0, length, <<element>>)
tupleOf(components) == AbiType("TUPLE", 0, 0, components)

\* A number of one to three digits without a leading zero, or -1.
smallDecimal(digits) ==
    IF Len(digits) \in 1..3 /\ digits[1] # 0 /\ \A i \in DOMAIN digits : digits[i] \in Digit
    THEN FoldLeft(LAMBDA n, c : n * 10 + c, 0, digits)
    ELSE -1

elementaryAbiType(name) ==
    LET n == smallDecimal(name[2]) IN
    CASE name = <<"address", <<>>>> -> elementary("ADDRESS", ADDRESS_WIDTH)
      [] name = <<"bool", <<>>>> -> elementary("BOOL", 1)
      [] name = <<"string", <<>>>> -> elementary("STRING", 0)
      [] name = <<"bytes", <<>>>> -> elementary("BYTES", 0)
      [] name[1] = "bytes" /\ n \in 1..WORD -> elementary("FIXED_BYTES", n)
      [] name[1] = "uint" /\ n \in 8..8 * WORD /\ n % 8 = 0 -> elementary("UINT", n \div 8)
      [] name[1] = "int" /\ n \in 8..8 * WORD /\ n % 8 = 0 -> elementary("INT", n \div 8)
      [] OTHER -> Null
=============================================================================
