------------------------------ MODULE Migrator ------------------------------
(***************************************************************************)
(* The database migrations: runs of cmd/migrate on one database, which may *)
(* overlap (each instance of the service can be deployed with one), over a *)
(* directory in which files appear between and during the runs.  A run     *)
(* reads the migrations table, then the directory, and then commits one    *)
(* transaction per migration; it takes no lock.  A file creates the table  *)
(* that it is named for, or adds columns to the tables of other files.     *)
(***************************************************************************)
EXTENDS Integers, FiniteSets

CONSTANTS
  Runners,  \* processes that run the command
  Files,    \* migrations: names of an up and a down file
  Id,       \* [Files -> the prefix of the name]: two files can share one
  Refs,     \* [Files -> SUBSET Files]: the tables its foreign keys refer to
  Alters,   \* [Files -> SUBSET Files]: the tables it adds columns to
  None

\* The prefix is the time at which the file was created, so a migration uses
\* only tables of migrations with smaller ones.
ASSUME MigratorAssumption ==
  /\ Id \in [Files -> Nat]
  /\ Refs \in [Files -> SUBSET Files] /\ Alters \in [Files -> SUBSET Files]
  /\ \A f \in Files : \A g \in Refs[f] \cup Alters[f] : Id[g] < Id[f]
  /\ None \notin Files

VARIABLES
  ups,        \* the migrations whose up file is in the directory, not empty
  downs,      \* those whose down file is
  recorded,   \* the table migrations: the files whose id and name it holds
  schema,     \* the files whose tables or columns the database has
  pc,         \* [Runners -> the next step of the run]
  executed,   \* [Runners -> the ids that the run has read]
  seen,       \* [Runners -> the files that it has loaded]
  todo,       \* [Runners -> those that the loop of an Up has still to apply]
  target,     \* [Runners -> the file that a Down rolls back]
  since,      \* history: [Runners -> files that others applied in the meantime]
  undone,     \* history: [Runners -> ids that others rolled back in the meantime]
  skipped,    \* history: [Runners -> those of seen that had no up file then]
  overtaken   \* history: columns that a Down dropped with their table, though
              \* they were added after it had read the migrations table

db == <<recorded, schema>>
run == <<pc, executed, seen, todo, target>>
history == <<since, undone, skipped, overtaken>>
vars == <<ups, downs, db, run, history>>

\* The migrations of the directory: one half is enough, and an empty file is as
\* good as none.
dir == ups \cup downs

Ids(S) == {Id[f] : f \in S}
\* A mistake to be noticed: the list is read from its other end.
IsFirst(n, N) == n \in N /\ \A m \in N : n <= m
\* The last of "SELECT id FROM migrations ORDER BY id".
IsLast(n, N) == n \in N /\ \A m \in N : m <= n

Twins(f) == {g \in dir \ {f} : Id[g] = Id[f]}

\* What Status prints next to a file of the directory.
Status(f) == IF Id[f] \in Ids(recorded) THEN "Applied" ELSE "Pending"

Init ==
  /\ ups = {} /\ downs = {} /\ recorded = {} /\ schema = {}
  /\ pc = [r \in Runners |-> "idle"]
  /\ executed = [r \in Runners |-> {}]
  /\ seen = [r \in Runners |-> {}]
  /\ todo = [r \in Runners |-> {}]
  /\ target = [r \in Runners |-> None]
  /\ since = [r \in Runners |-> {}]
  /\ undone = [r \in Runners |-> {}]
  /\ skipped = [r \in Runners |-> {}]
  /\ overtaken = {}

-----------------------------------------------------------------------------
\* A release brings a migration, finished: both of its files, one of them, or
\* the one that was missing.
AddFile(f, halves) ==
  /\ halves # {}
  /\ "up" \in halves => f \notin ups
  /\ "down" \in halves => f \notin downs
  /\ ups' = IF "up" \in halves THEN ups \cup {f} ELSE ups
  /\ downs' = IF "down" \in halves THEN downs \cup {f} ELSE downs
  /\ UNCHANGED <<db, run, history>>

-----------------------------------------------------------------------------
\* GetExecutedMigrations, the first statement of a run that matters.
Begin(r, step) ==
  /\ pc[r] = "idle"
  /\ pc' = [pc EXCEPT ![r] = step]
  /\ executed' = [executed EXCEPT ![r] = Ids(recorded)]
  /\ since' = [since EXCEPT ![r] = {}]
  /\ undone' = [undone EXCEPT ![r] = {}]
  /\ UNCHANGED <<ups, downs, db, seen, todo, target, skipped, overtaken>>

\* A run ends: it has nothing left to do, or found no file to roll back, or a
\* statement failed and its transaction was rolled back, or the process died.
Stop(r) ==
  /\ pc[r] # "idle"
  /\ pc' = [pc EXCEPT ![r] = "idle"]
  /\ executed' = [executed EXCEPT ![r] = {}]
  /\ seen' = [seen EXCEPT ![r] = {}]
  /\ todo' = [todo EXCEPT ![r] = {}]
  /\ target' = [target EXCEPT ![r] = None]
  /\ since' = [since EXCEPT ![r] = {}]
  /\ undone' = [undone EXCEPT ![r] = {}]
  /\ skipped' = [skipped EXCEPT ![r] = {}]
  /\ UNCHANGED <<ups, downs, db, overtaken>>

-----------------------------------------------------------------------------
(***************************************************************************)
(* Up.                                                                     *)
(***************************************************************************)
\* The pairs of files in the directory; a file without the other counts as well.
LoadMigrations == dir

\* LoadMigrations, and the migrations that the loop will not skip: neither those
\* executed already nor those without an up file.
LoadUp(r) ==
  /\ pc[r] = "loadUp"
  /\ pc' = [pc EXCEPT ![r] = "up"]
  /\ seen' = [seen EXCEPT ![r] = LoadMigrations]
  /\ todo' = [todo EXCEPT ![r] = {f \in LoadMigrations \cap ups : Id[f] \notin executed[r]}]
  /\ skipped' = [skipped EXCEPT ![r] = LoadMigrations \ ups]
  /\ UNCHANGED <<ups, downs, db, executed, target, since, undone, overtaken>>

\* A mistake to be noticed: the files are not sorted.
NextAny(r) == todo[r]
\* The files are sorted by id; the order of two with one id is not fixed.
NextFiles(r) == {f \in todo[r] : \A g \in todo[r] : Id[f] <= Id[g]}

\* CREATE TABLE, or ALTER TABLE ADD COLUMN: neither says IF NOT EXISTS.
BodyRuns(f) == f \notin schema /\ Refs[f] \cup Alters[f] \subseteq schema

\* A mistake to be noticed: the record is written outside the transaction,
\* and its failure is not returned.
ApplyUnrecorded(r, f) ==
  /\ pc[r] = "up" /\ f \in NextFiles(r)
  /\ BodyRuns(f)
  /\ schema' = schema \cup {f}
  /\ todo' = [todo EXCEPT ![r] = @ \ {f}]
  /\ since' = [q \in Runners |-> IF q = r \/ pc[q] = "idle" THEN since[q]
                                 ELSE since[q] \cup {f}]
  /\ overtaken' = overtaken \ {f}
  /\ UNCHANGED <<ups, downs, recorded, pc, executed, seen, target, undone, skipped>>

\* One transaction: the body, and the row of the migration, whose id is the
\* primary key.
Apply(r, f) ==
  /\ pc[r] = "up" /\ f \in NextFiles(r)
  /\ BodyRuns(f)
  /\ Id[f] \notin Ids(recorded)
  /\ schema' = schema \cup {f}
  /\ recorded' = recorded \cup {f}
  /\ todo' = [todo EXCEPT ![r] = @ \ {f}]
  /\ since' = [q \in Runners |-> IF q = r \/ pc[q] = "idle" THEN since[q]
                                 ELSE since[q] \cup {f}]
  /\ overtaken' = overtaken \ {f}
  /\ UNCHANGED <<ups, downs, pc, executed, seen, target, undone, skipped>>

-----------------------------------------------------------------------------
(***************************************************************************)
(* Down.                                                                   *)
(***************************************************************************)
\* LoadMigrations, and the first migration with the last id; without a down file
\* the run ends.
LoadDown(r, f) ==
  /\ pc[r] = "loadDown"
  /\ f \in LoadMigrations \cap downs /\ IsLast(Id[f], executed[r])
  /\ pc' = [pc EXCEPT ![r] = "down"]
  /\ target' = [target EXCEPT ![r] = f]
  /\ UNCHANGED <<ups, downs, db, executed, seen, todo, history>>

\* DROP TABLE IF EXISTS is refused while a foreign key refers to the table;
\* ALTER TABLE DROP COLUMN IF EXISTS needs the table.
RollbackRuns(f) ==
  /\ f \in schema => \A g \in schema : f \notin Refs[g]
  /\ Alters[f] \subseteq schema

\* A table goes with the columns that others have added to it.
Dropped(f) == {f} \cup {g \in Files : f \in schema /\ f \in Alters[g]}

\* One transaction: the body, and the deletion of the row, which is not an
\* error when another run has deleted it.
Rollback(r) ==
  LET f == target[r]
  IN /\ pc[r] = "down"
     /\ RollbackRuns(f)
     /\ schema' = schema \ Dropped(f)
     /\ recorded' = {g \in recorded : Id[g] # Id[f]}
     /\ undone' = [q \in Runners |-> IF q = r \/ pc[q] = "idle" THEN undone[q]
                                     ELSE undone[q] \cup {Id[f]}]
     /\ overtaken' = (overtaken \ {f}) \cup (Dropped(f) \cap since[r])
     /\ pc' = [pc EXCEPT ![r] = "done"]
     /\ UNCHANGED <<ups, downs, executed, seen, todo, target, since, skipped>>

Next ==
  \/ \E f \in Files, halves \in SUBSET {"up", "down"} : AddFile(f, halves)
  \/ \E r \in Runners :
       \/ \E step \in {"loadUp", "loadDown"} : Begin(r, step)
       \/ LoadUp(r) \/ Rollback(r) \/ Stop(r)
       \/ \E f \in Files : Apply(r, f) \/ LoadDown(r, f)

Spec == Init /\ [][Next]_vars

-----------------------------------------------------------------------------
(***************************************************************************)
(* Properties.                                                             *)
(***************************************************************************)
\* The types of the variables; a run that has nothing to do has read nothing.
TypeOK ==
  /\ ups \subseteq Files /\ downs \subseteq Files
  /\ recorded \subseteq ups /\ schema \subseteq ups
  /\ pc \in [Runners -> {"idle", "loadUp", "up", "loadDown", "down", "done"}]
  /\ executed \in [Runners -> SUBSET Ids(Files)]
  /\ seen \in [Runners -> SUBSET Files] /\ todo \in [Runners -> SUBSET Files]
  /\ target \in [Runners -> Files \cup {None}]
  /\ since \in [Runners -> SUBSET Files]
  /\ undone \in [Runners -> SUBSET Ids(Files)]
  /\ skipped \in [Runners -> SUBSET Files]
  /\ overtaken \subseteq Files
  /\ \A r \in Runners : /\ pc[r] = "down" => target[r] \in Files
                        /\ todo[r] \subseteq seen[r] \cap ups /\ seen[r] \subseteq dir

\* What "status" prints is true of the database, however runs overlap, die and
\* fail, with two exceptions: a file that shares its id with another one, and
\* columns dropped by a Down that had read the migrations table before the Up
\* that added them.
StatusIsTrue ==
  \A f \in Files :
    \/ Status(f) = IF f \in schema THEN "Applied" ELSE "Pending"
    \/ Twins(f) # {}
    \/ Status(f) = "Applied" /\ f \in overtaken

\* Up applies a migration only when all the earlier ones that it has loaded are
\* recorded, except those that a Down has rolled back during the run, and those
\* that had no up file when the run loaded them: these are skipped, and what
\* comes after them is applied all the same.
AppliesInOrder ==
  [][\A r \in Runners, f \in Files :
       pc[r] = "up" /\ f \in todo[r] \ todo'[r] /\ pc'[r] = "up" =>
         \A g \in seen[r] : Id[g] < Id[f] =>
           Id[g] \in Ids(recorded) \cup undone[r] \/ g \in skipped[r]]_vars

\* A Down leaves no later migration than the one it rolls back, except those
\* that an Up applied during the run: so the tables that a migration uses are
\* there as long as its row is.
RollsBackTheLast ==
  [][\A r \in Runners : pc[r] = "down" /\ pc'[r] = "done" =>
       \A g \in recorded' : Id[g] < Id[target[r]] \/ g \in since[r]]_vars
=============================================================================
