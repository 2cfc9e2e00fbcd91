-------------------------- MODULE MigrationHistory --------------------------
(***************************************************************************)
(* What dispatching migration scripts through a registry comes to, with    *)
(* the registry, the batches and the chain left out: the effects of        *)
(* scripts take place one after another, and a script is allowed to be the *)
(* next when what it brings about is not there yet, its own line is where  *)
(* the script was written for, and everything it waits on is there.        *)
(*                                                                         *)
(* MigrationDispatch is shown to implement it.                             *)
(***************************************************************************)
EXTENDS Naturals, Sequences

CONSTANTS
    Scripts,    \* the scripts
    Line,       \* script -> the line it continues
    Target,     \* script -> what it brings about
    After,      \* script -> what it is applied after, its own line's first
    Starts      \* what stands for a line that nothing was applied to

VARIABLE history    \* the scripts whose effects took place, in order

Done == {Target[history[i]] : i \in DOMAIN history}

\* Where the history has left a line.
IsHead(line, target) ==
    \/ /\ target \in Starts
       /\ \A i \in DOMAIN history : Line[history[i]] # line
    \/ \E i \in DOMAIN history :
           /\ Line[history[i]] = line
           /\ Target[history[i]] = target
           /\ \A j \in DOMAIN history : j > i => Line[history[j]] # line

\* The effects of a script take place.
Run(s) ==
    /\ Target[s] \notin Done
    /\ After[s] # <<>>
    /\ IsHead(Line[s], After[s][1])
    /\ \A i \in 2..Len(After[s]) : After[s][i] \in Done
    /\ history' = Append(history, s)

Init == history = <<>>

Next == \E s \in Scripts : Run(s)

Spec == Init /\ [][Next]_history
=============================================================================
