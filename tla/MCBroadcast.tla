---- MODULE MCBroadcast ----
(***************************************************************************)
(* Two networks, the factory and the metaboard still to arrive at one of   *)
(* them, and a dispatch able to leave that one out; `vault' is built over  *)
(* `registry', which carries a meta, and one dispatch may die midway or    *)
(* one emission block be misdeclared.                                      *)
(***************************************************************************)
EXTENDS Broadcast

CONSTANTS here, there, registry, vault

MCDependsOn == [s \in Suites |-> IF s = vault THEN {registry} ELSE {}]
MCRequiredOn == [s \in Suites |-> Chains]
MCSeats == [s \in Suites |-> {}]
MCPresent == [n \in Chains |-> IF n = here THEN {"factory", "metaboard"} ELSE {}]
MCDeployNetworks == {{here}, {here, there}}
====
