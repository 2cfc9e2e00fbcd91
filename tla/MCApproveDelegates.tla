------------------------- MODULE MCApproveDelegates -------------------------
(***************************************************************************)
(* Two chains with the registry and one without, two scopes, a goal that   *)
(* revokes all there is on both, runs that approve some of it on one or    *)
(* both, and one run for each refusal.                                     *)
(***************************************************************************)
EXTENDS ApproveDelegates

CONSTANTS chainA, chainB, chainC, a, b, absent, wrong, undeclared, x, y, bad, nobody, stranger

MCDeclared == {a, b, absent, wrong}

MCCatalogue ==
    [alias \in MCDeclared |-> CASE alias = a -> chainA
                                [] alias = b -> chainB
                                [] OTHER     -> chainC]

MCRpc ==
    [alias \in MCDeclared |-> CASE alias = a      -> chainA
                                [] alias = absent -> chainC
                                [] OTHER          -> chainB]

Asked(scopes, unscoped, approve, selected) ==
    [sender |-> Authority, delegate |-> Delegate, scopes |-> scopes, unscoped |-> unscoped,
     approve |-> approve, selected |-> selected]

MCGoal == Asked(<<x, y>>, TRUE, FALSE, <<a, b>>)

MCOthers ==
    {Asked(<<x>>, FALSE, TRUE, <<a, b>>), Asked(<<y>>, TRUE, TRUE, <<a>>),
     Asked(<<x>>, FALSE, FALSE, <<a>>), Asked(<<>>, TRUE, TRUE, <<b, a>>),
     Asked(<<x, x>>, FALSE, TRUE, <<a>>), Asked(<<>>, FALSE, TRUE, <<a>>),
     Asked(<<bad>>, FALSE, TRUE, <<a>>), Asked(<<x>>, FALSE, TRUE, <<a, absent>>),
     Asked(<<x>>, FALSE, TRUE, <<a, wrong>>), Asked(<<x>>, FALSE, TRUE, <<a, a>>),
     Asked(<<x>>, FALSE, TRUE, <<>>), Asked(<<x>>, FALSE, TRUE, <<undeclared>>),
     [Asked(<<x>>, FALSE, TRUE, <<a>>) EXCEPT !.sender = stranger],
     [Asked(<<x>>, FALSE, TRUE, <<a>>) EXCEPT !.delegate = nobody]}
=============================================================================
