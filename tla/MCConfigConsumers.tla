-------------------------- MODULE MCConfigConsumers --------------------------
(***************************************************************************)
(* One authority with two names and one delegate, and three consumers: one *)
(* that resolves, one that resolves safely, and one whose threshold is     *)
(* zero and is never constructed.                                          *)
(***************************************************************************)
EXTENDS ConfigConsumers

CONSTANTS a, d, x, y, v1, v2, t1, t2, plain, safely, unchecked

Bind(authority, name, valueType, value) ==
    [authority |-> authority, name |-> name, valueType |-> valueType, value |-> value]

\* A bind and two rebinds of x, one of another type; a bind of y; and one
\* call for each mistake a caller can make.
MCCalls ==
    {Bind(a, x, t1, v1), Bind(a, x, t1, v2), Bind(a, x, t2, v1), Bind(a, y, t1, v1),
     Bind(ZeroAddress, x, t1, v1), Bind(a, x, t1, EmptyValue), Bind(a, x, EmptyType, v1)}

MCDelegations == {<<a, d>>, <<a, ZeroAddress>>}

Read(safe, minAge) ==
    [authority |-> a, name |-> x, valueTypeHash |-> t1, safe |-> safe, minAge |-> minAge]

MCConsumers == {plain, safely, unchecked}

MCReads ==
    [c \in MCConsumers |-> CASE c = plain  -> Read(FALSE, 0)
                             [] c = safely -> Read(TRUE, 1)
                             [] OTHER      -> Read(TRUE, 0)]
=============================================================================
