-------------------------- MODULE MCRegisterConfig --------------------------
(***************************************************************************)
(* Two chains with the registry and one without; three good aliases, one   *)
(* of them for the chain without, and one whose endpoint serves the wrong  *)
(* chain.                                                                  *)
(***************************************************************************)
EXTENDS RegisterConfig

CONSTANTS chainA, chainB, chainC, a, b, absent, wrong, undeclared, v, w, t, u

MCDeclared == {a, b, absent, wrong}

MCCatalogue ==
    [alias \in MCDeclared |-> CASE alias = a -> chainA
                                [] alias = b -> chainB
                                [] OTHER     -> chainC]

MCRpc ==
    [alias \in MCDeclared |-> CASE alias = a      -> chainA
                                [] alias = absent -> chainC
                                [] OTHER          -> chainB]

MCSelections ==
    {<<a, b>>, <<a, absent>>, <<a, wrong>>, <<a, a>>, <<>>, <<b, undeclared>>}

Binding(value, valueType) == [value |-> value, valueType |-> valueType]

MCTarget == Binding(v, t)

\* Another value, and the target's value as another type.
MCOthers == {Binding(w, t), Binding(v, u)}
=============================================================================
