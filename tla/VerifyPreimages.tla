---------------------------- MODULE VerifyPreimages ----------------------------
(***************************************************************************)
(* verifyPreimages of subgraph/src/lib/rainmeta.ts, over the items that a  *)
(* document is read as, whatever reads it.  A payload stands for its own   *)
(* keccak256.                                                              *)
(***************************************************************************)
EXTENDS Integers, FiniteSets

CONSTANTS
    ItemsOf(_),         \* what documentItems reads of a meta, or None
    None,
    Magics, Keys        \* what a document is asked for

VARIABLE document       \* the meta of a MetaV1_2

\* The items of the magic of a check.  A check is a magic and a key.
claims(items, check) == {i \in DOMAIN items : items[i].magic = check.magic}

\* Mutant: one item of the magic that holds the preimage is enough.
claimsSome(items, check) ==
    \E i \in claims(items, check) : items[i].plain /\ items[i].payload = check.key

\* Every item of the magic is plain and is the preimage of the key.
claimsOnly(items, check) ==
    /\ claims(items, check) # {}
    /\ \A i \in claims(items, check) : items[i].plain /\ items[i].payload = check.key

\* What the last of them holds.
found(items, check) ==
    items[CHOOSE i \in claims(items, check) : \A j \in claims(items, check) : j <= i].payload

\* The preimage of each check, in order, or None.
preimages(items, checks) ==
    IF items = None THEN None
    ELSE IF \E c \in DOMAIN checks : ~claimsOnly(items, checks[c]) THEN None
    ELSE [c \in DOMAIN checks |-> found(items, checks[c])]

verifyPreimages(meta, checks) == preimages(ItemsOf(meta), checks)

-----------------------------------------------------------------------------
(* Properties.                                                             *)

\* A document verifies against the keys of one write only, whatever items it
\* has, so that no two writes are shown the preimages of the same document
\* under different keys.
\* (verifyPreimages, which goes on after the item that matches.)
VerifiesOneWriteOnly ==
    \A m \in Magics :
        Cardinality({key \in Keys :
            verifyPreimages(document, <<[magic |-> m, key |-> key]>>) # None}) <= 1
=============================================================================
