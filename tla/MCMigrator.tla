----------------------------- MODULE MCMigrator -----------------------------
(* TLC instance of Migrator: the table of users, columns that are added to  *)
(* it, and two tables whose files share their id, one with a foreign key.   *)
EXTENDS Migrator, SqlStatements, TLC

CONSTANTS users, authFields, sessions, roles

MCFiles == {users, authFields, sessions, roles}
MCId == users :> 1 @@ authFields :> 2 @@ sessions :> 3 @@ roles :> 3
MCRefs == [f \in MCFiles |-> IF f = sessions THEN {users} ELSE {}]
MCAlters == [f \in MCFiles |-> IF f = authFields THEN {users} ELSE {}]

\* Two migrations that may come in halves, or never become whole.
InHalves == {authFields, roles}

\* The body of the first file is read line by line before any run begins.
MCInit == Init /\ SplitInit
MCNext ==
  \/ /\ Next
     /\ \A f \in MCFiles \ InHalves : f \in ups' <=> f \in downs'
     /\ IF dir' # dir THEN file' = <<>> /\ cut' = NothingYet ELSE UNCHANGED splitVars
  \/ /\ dir = {} /\ \A r \in Runners : pc[r] = "idle"
     /\ SplitNext /\ UNCHANGED vars
MCSpec == MCInit /\ [][MCNext]_<<vars, splitVars>>

Symmetry == Permutations(Runners)
=============================================================================
