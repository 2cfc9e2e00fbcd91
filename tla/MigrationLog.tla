---------------------------- MODULE MigrationLog ----------------------------
(***************************************************************************)
(* What a registry of migrations promises its readers, with storage, heads *)
(* and approvals left out: every line is a log that grows at its end and   *)
(* is otherwise never touched.  An entry is the first of its migration in  *)
(* its line, its moment is between the entry before it and now, and what   *)
(* it waits on are entries of other lines that are there already.          *)
(*                                                                         *)
(* MigrationRegistry is shown to implement it.                             *)
(***************************************************************************)
EXTENDS Naturals, Sequences

CONSTANTS
    Lines,
    Migrations,
    Authors

VARIABLES
    logs,       \* line -> its entries, the first applied first
    now

EntriesOf(log) == {log[i] : i \in DOMAIN log}

Holds(line, migration) ==
    \E entry \in EntriesOf(logs[line]) : entry.migration = migration

Entries == [migration : Migrations, at : 1..now, waits : SUBSET (Lines \X Migrations), by : Authors]

\* A line gets its next entry.
Extend(line, entry) ==
    /\ entry \in Entries
    /\ ~Holds(line, entry.migration)
    /\ logs[line] # <<>> => logs[line][Len(logs[line])].at <= entry.at
    /\ \A wait \in entry.waits : wait[1] # line /\ Holds(wait[1], wait[2])
    /\ logs' = [logs EXCEPT ![line] = Append(@, entry)]
    /\ UNCHANGED now

Tick == now' > now /\ UNCHANGED logs

Init ==
    /\ logs = [line \in Lines |-> <<>>]
    /\ now = 0

\* An entry is looked for where it then is.
Next ==
    \/ \E line \in Lines : \E entry \in EntriesOf(logs'[line]) : Extend(line, entry)
    \/ Tick

Spec == Init /\ [][Next]_<<logs, now>>
=============================================================================
