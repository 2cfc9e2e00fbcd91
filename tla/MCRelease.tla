---- MODULE MCRelease ----
(* The registries of this repo, one retired contract and one timelock, through two releases. *)
EXTENDS Release

CONSTANTS c1, c2, timelock, old, new, none

MCContracts == {c1, c2}
MCParameterised == <<timelock>>
MCCodes == {old, new}
V9 == <<0, 1, 9>>
V10 == <<0, 1, 10>>
V0 == <<0, 0, 9>>
MCVersions == {V0, V9, V10, <<0, 1>>}

Both == [candidates |-> {c1, c2}, generated |-> <<c1, c2>>, retired |-> <<>>]
Retires == [candidates |-> {c2}, generated |-> <<c2>>, retired |-> <<c1>>]
Drops == [candidates |-> {c2}, generated |-> <<c2>>, retired |-> <<>>]
Forgets == [candidates |-> {c1, c2}, generated |-> <<c2>>, retired |-> <<c1>>]
MCBuilds == {Both, Retires, Drops, Forgets}

NoFiles == [n \in {c1, c2, timelock} |-> none]
AllOld == [n \in {c1, c2, timelock} |-> old]
MCFirstTree ==
  [source |-> AllOld, build |-> Both, version |-> V0, candidate |-> AllOld,
   named |-> [t \in {V0, V9, V10} |-> IF t = V0 THEN {c1} ELSE {}],
   frozen |-> [t \in {V0, V9, V10} |-> IF t = V0 THEN [NoFiles EXCEPT ![c1] = old] ELSE NoFiles],
   lib |-> [c \in {c1, c2} |-> IF c = c1 THEN <<V0>> ELSE <<>>],
   aggregate |-> <<c1, c2>>]
MCFirstReleased == <<V0>>
MCFirstLive == {<<c1, old>>}
====
