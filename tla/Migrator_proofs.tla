--------------------------- MODULE Migrator_proofs --------------------------
(***************************************************************************)
(* Proofs about Migrator, for any number of runs and files, any ids (equal *)
(* ones included) and any foreign keys and added columns.  Safe is         *)
(* inductive.  What it adds to the properties is what a run knows: an id   *)
(* that it has read, or a file that it has left behind, is recorded unless *)
(* it was rolled back since; and a row that it has not read was written    *)
(* since.                                                                  *)
(*                                                                         *)
(* The second half is about SqlStatements, for bodies of any length:       *)
(* CutSafe is the invariant of the loop over the lines.                    *)
(***************************************************************************)
EXTENDS Migrator, SqlStatements, FiniteSetTheorems, TLAPS

\* The primary key of the table migrations.
KeysAreUnique == \A f, g \in recorded : Id[f] = Id[g] => f = g

\* An applied file without a row has a twin; a row without its columns is of a
\* file that was overtaken.
AppliedHasRow == \A f \in schema : Id[f] \in Ids(recorded) \/ Twins(f) # {}
RowHasApplied == \A f \in recorded : f \in schema \/ f \in overtaken

\* What a run has read of the migrations table, and what became of it.
ReadsAreOld ==
  \A r \in Runners :
    /\ pc[r] = "loadUp" => executed[r] \subseteq Ids(recorded) \cup undone[r]
    /\ pc[r] = "up" => \A g \in seen[r] \ todo[r] :
                       Id[g] \in Ids(recorded) \cup undone[r] \/ g \in skipped[r]
    /\ pc[r] = "loadDown" => \A g \in recorded : Id[g] \in executed[r] \/ g \in since[r]
    /\ pc[r] = "down" =>
         /\ target[r] \in dir
         /\ \A g \in recorded : Id[g] <= Id[target[r]] \/ g \in since[r]

Safe == TypeOK /\ KeysAreUnique /\ AppliedHasRow /\ RowHasApplied /\ ReadsAreOld

LEMMA InitSafe == Init => Safe
BY MigratorAssumption DEF Init, Safe, TypeOK, KeysAreUnique, AppliedHasRow, RowHasApplied,
   ReadsAreOld

\* A new file of the directory can only make twins.
LEMMA AddFileSafe ==
  ASSUME Safe, NEW f \in Files, NEW halves \in SUBSET {"up", "down"}, AddFile(f, halves)
  PROVE  Safe'
<1>1. TypeOK'
  BY DEF Safe, TypeOK, AddFile, db, run, history, dir
<1>2. KeysAreUnique' /\ RowHasApplied' /\ ReadsAreOld'
  BY DEF Safe, KeysAreUnique, RowHasApplied, ReadsAreOld, AddFile, db, run, history, Ids, dir
<1>3. AppliedHasRow'
  BY DEF Safe, AppliedHasRow, AddFile, db, run, history, Ids, Twins, dir
<1> QED BY <1>1, <1>2, <1>3 DEF Safe

LEMMA BeginSafe ==
  ASSUME Safe, NEW r \in Runners, NEW step \in {"loadUp", "loadDown"}, Begin(r, step)
  PROVE  Safe'
<1>1. TypeOK'
  BY DEF Safe, TypeOK, Begin, db, Ids, dir
<1>2. KeysAreUnique' /\ RowHasApplied' /\ AppliedHasRow'
  BY DEF Safe, KeysAreUnique, RowHasApplied, AppliedHasRow, Begin, db, Ids, Twins, dir
<1>3. ReadsAreOld'
  BY DEF Safe, TypeOK, ReadsAreOld, Begin, db, Ids, dir
<1> QED BY <1>1, <1>2, <1>3 DEF Safe

LEMMA StopSafe == ASSUME Safe, NEW r \in Runners, Stop(r) PROVE Safe'
<1>1. TypeOK'
  BY DEF Safe, TypeOK, Stop, db, dir
<1>2. KeysAreUnique' /\ RowHasApplied' /\ AppliedHasRow'
  BY DEF Safe, KeysAreUnique, RowHasApplied, AppliedHasRow, Stop, db, Ids, Twins, dir
<1>3. ReadsAreOld'
  BY DEF Safe, TypeOK, ReadsAreOld, Stop, db, Ids, dir
<1> QED BY <1>1, <1>2, <1>3 DEF Safe

LEMMA LoadUpSafe == ASSUME Safe, NEW r \in Runners, LoadUp(r) PROVE Safe'
<1>1. TypeOK'
  BY DEF Safe, TypeOK, LoadUp, LoadMigrations, db, history, dir
<1>2. KeysAreUnique' /\ RowHasApplied' /\ AppliedHasRow'
  BY DEF Safe, KeysAreUnique, RowHasApplied, AppliedHasRow, LoadUp, LoadMigrations, db, history, dir, Ids, Twins
<1>3. ReadsAreOld'
  <2> SUFFICES ASSUME NEW q \in Runners PROVE ReadsAreOld!(q)'
    BY DEF ReadsAreOld
  <2>1. CASE q = r
    BY <2>1 DEF Safe, TypeOK, ReadsAreOld, LoadUp, LoadMigrations, db, history, dir, Ids
  <2>2. CASE q # r
    BY <2>2 DEF Safe, TypeOK, ReadsAreOld, LoadUp, LoadMigrations, db, history, dir, Ids
  <2> QED BY <2>1, <2>2
<1> QED BY <1>1, <1>2, <1>3 DEF Safe

LEMMA LoadDownSafe ==
  ASSUME Safe, NEW r \in Runners, NEW f \in Files, LoadDown(r, f) PROVE Safe'
<1>1. TypeOK'
  BY DEF Safe, TypeOK, LoadDown, LoadMigrations, db, history, dir
<1>2. KeysAreUnique' /\ RowHasApplied' /\ AppliedHasRow'
  BY DEF Safe, KeysAreUnique, RowHasApplied, AppliedHasRow, LoadDown, LoadMigrations, db, history, dir, Ids, Twins
<1>3. ReadsAreOld'
  BY DEF Safe, TypeOK, ReadsAreOld, LoadDown, LoadMigrations, IsLast, db, history, dir, Ids
<1> QED BY <1>1, <1>2, <1>3 DEF Safe

\* A migration is applied and its row is written in one transaction; to every
\* other run that is in progress it is news.
LEMMA ApplySafe ==
  ASSUME Safe, NEW r \in Runners, NEW f \in Files, Apply(r, f) PROVE Safe'
<1>0. f \in todo[r] /\ pc[r] = "up"
  BY DEF Apply, NextFiles
<1>1. f \in ups
  BY <1>0 DEF Safe, TypeOK
<1>2. TypeOK'
  BY <1>1 DEF Safe, TypeOK, Apply, dir
<1>3. Ids(recorded') = Ids(recorded) \cup {Id[f]}
  BY DEF Apply, Ids
<1>4. KeysAreUnique' /\ RowHasApplied'
  BY DEF Safe, TypeOK, KeysAreUnique, RowHasApplied, Apply, Ids
<1>5. AppliedHasRow'
  <2>1. \A g \in Files : Twins(g)' = Twins(g)
    BY DEF Apply, Twins, dir
  <2> QED BY <1>3, <2>1 DEF Safe, TypeOK, AppliedHasRow, Apply, Ids
<1>6. ReadsAreOld'
  <2> SUFFICES ASSUME NEW q \in Runners PROVE ReadsAreOld!(q)'
    BY DEF ReadsAreOld
  <2>0. /\ pc' = pc /\ executed' = executed /\ seen' = seen /\ undone' = undone
        /\ target' = target /\ dir' = dir /\ skipped' = skipped /\ recorded' = recorded \cup {f}
        /\ todo' = [todo EXCEPT ![r] = @ \ {f}]
    BY DEF Apply, dir
  <2>1. CASE q = r
    BY <1>0, <1>3, <2>0, <2>1 DEF Safe, TypeOK, ReadsAreOld, Ids
  <2>2. CASE q # r
    <3>1. pc[q] # "idle" => since'[q] = since[q] \cup {f}
      BY <2>2 DEF Apply
    <3>2. todo'[q] = todo[q]
      BY <2>0, <2>2 DEF Safe, TypeOK
    <3> QED BY <1>3, <2>0, <3>1, <3>2 DEF Safe, TypeOK, ReadsAreOld
  <2> QED BY <2>1, <2>2
<1> QED BY <1>2, <1>4, <1>5, <1>6 DEF Safe

\* The rows of one id and the tables of one file disappear together; columns
\* that disappear with the table were recorded after the run had begun.
LEMMA RollbackSafe == ASSUME Safe, NEW r \in Runners, Rollback(r) PROVE Safe'
<1> DEFINE t == target[r]
<1>0. /\ pc[r] = "down" /\ t \in Files /\ t \in dir
      /\ recorded' = {g \in recorded : Id[g] # Id[t]}
      /\ schema' = schema \ Dropped(t)
      /\ overtaken' = (overtaken \ {t}) \cup (Dropped(t) \cap since[r])
      /\ ups' = ups /\ downs' = downs /\ dir' = dir /\ skipped' = skipped
      /\ target' = target /\ executed' = executed /\ seen' = seen /\ todo' = todo
      /\ since' = since /\ pc' = [pc EXCEPT ![r] = "done"]
  BY DEF Rollback, Safe, TypeOK, ReadsAreOld, dir
<1>1. TypeOK'
  <2>1. undone' \in [Runners -> SUBSET Ids(Files)]
    BY <1>0, SMT DEF Rollback, Safe, TypeOK, Ids
  <2>2. overtaken' \subseteq Files
    BY <1>0 DEF Safe, TypeOK
  <2> QED BY <1>0, <2>1, <2>2 DEF Safe, TypeOK
<1>2. KeysAreUnique'
  BY <1>0 DEF Safe, KeysAreUnique
<1>3. AppliedHasRow'
  <2> SUFFICES ASSUME NEW f \in schema' PROVE Id[f] \in Ids(recorded') \/ Twins(f)' # {}
    BY DEF AppliedHasRow, Ids
  <2>1. f \in schema /\ f # t
    BY <1>0 DEF Dropped
  <2>2. CASE Id[f] = Id[t]
    BY <1>0, <2>1, <2>2 DEF Twins
  <2>3. CASE Id[f] # Id[t]
    BY <1>0, <2>1, <2>3 DEF Safe, AppliedHasRow, Ids, Twins
  <2> QED BY <2>2, <2>3
<1>4. RowHasApplied'
  <2> SUFFICES ASSUME NEW f \in recorded' PROVE f \in schema' \/ f \in overtaken'
    BY DEF RowHasApplied
  <2>1. f \in recorded /\ Id[f] # Id[t] /\ f \in Files
    BY <1>0 DEF Safe, TypeOK
  <2>2. CASE f \in Dropped(t)
    <3>1. t \in Alters[f]
      BY <2>1, <2>2 DEF Dropped
    <3>2. Id[t] < Id[f] /\ Id[t] \in Nat /\ Id[f] \in Nat
      BY <1>0, <2>1, <3>1, MigratorAssumption
    <3>3. f \in since[r]
      BY <1>0, <2>1, <3>2 DEF Safe, ReadsAreOld
    <3> QED BY <1>0, <2>2, <3>3
  <2>3. CASE f \notin Dropped(t)
    BY <1>0, <2>1, <2>3 DEF Safe, RowHasApplied
  <2> QED BY <2>2, <2>3
<1>5. ReadsAreOld'
  <2> SUFFICES ASSUME NEW q \in Runners PROVE ReadsAreOld!(q)'
    BY DEF ReadsAreOld
  <2>1. CASE q = r
    BY <1>0, <2>1 DEF Safe, TypeOK
  <2>2. CASE q # r
    <3>1. pc'[q] = pc[q]
      BY <1>0, <2>2 DEF Safe, TypeOK
    <3>2. pc[q] # "idle" => undone'[q] = undone[q] \cup {Id[t]}
      BY <2>2 DEF Rollback
    <3>3. Ids(recorded) \subseteq Ids(recorded') \cup {Id[t]}
      BY <1>0 DEF Ids
    <3>4. recorded' \subseteq recorded
      BY <1>0
    <3>5. CASE pc[q] = "loadUp"
      BY <1>0, <3>1, <3>2, <3>3, <3>5 DEF Safe, ReadsAreOld
    <3>6. CASE pc[q] = "up"
      BY <1>0, <3>1, <3>2, <3>3, <3>6 DEF Safe, ReadsAreOld
    <3>7. CASE pc[q] \in {"loadDown", "down"}
      BY <1>0, <3>1, <3>4, <3>7 DEF Safe, ReadsAreOld
    <3> QED BY <3>1, <3>5, <3>6, <3>7
  <2> QED BY <2>1, <2>2
<1> QED BY <1>1, <1>2, <1>3, <1>4, <1>5 DEF Safe

LEMMA NextSafe == Safe /\ [Next]_vars => Safe'
<1> SUFFICES ASSUME Safe, [Next]_vars PROVE Safe'
  OBVIOUS
<1>1. CASE \E f \in Files, halves \in SUBSET {"up", "down"} : AddFile(f, halves)
  BY <1>1, AddFileSafe
<1>2. CASE \E r \in Runners, step \in {"loadUp", "loadDown"} : Begin(r, step)
  BY <1>2, BeginSafe
<1>3. CASE \E r \in Runners : LoadUp(r) \/ Rollback(r) \/ Stop(r)
  BY <1>3, LoadUpSafe, RollbackSafe, StopSafe
<1>4. CASE \E r \in Runners, f \in Files : Apply(r, f) \/ LoadDown(r, f)
  BY <1>4, ApplySafe, LoadDownSafe
<1>5. CASE UNCHANGED vars
  BY <1>5 DEF vars, db, run, history, Safe, TypeOK, KeysAreUnique, AppliedHasRow, RowHasApplied,
     ReadsAreOld, Ids, Twins, dir
<1> QED BY <1>1, <1>2, <1>3, <1>4, <1>5 DEF Next

LEMMA SafeAlways == Spec => []Safe
BY InitSafe, NextSafe, PTL DEF Spec

-----------------------------------------------------------------------------
\* The types of the variables hold in every reachable state.
THEOREM TypeCorrect == Spec => []TypeOK
<1>1. Safe => TypeOK
  BY DEF Safe
<1> QED BY <1>1, SafeAlways, PTL

\* Status tells the truth about the database, twins and overtaken columns apart.
THEOREM StatusTrue == Spec => []StatusIsTrue
<1>1. Safe => StatusIsTrue
  <2> SUFFICES ASSUME Safe, NEW f \in Files,
                      Twins(f) = {}, ~(Status(f) = "Applied" /\ f \in overtaken)
               PROVE  Status(f) = IF f \in schema THEN "Applied" ELSE "Pending"
    BY DEF StatusIsTrue
  <2>1. CASE Id[f] \in Ids(recorded)
    <3>1. PICK g \in recorded : Id[g] = Id[f]
      BY <2>1 DEF Ids
    <3>2. g = f
      BY <3>1 DEF Twins, Safe, TypeOK, dir
    <3> QED BY <2>1, <3>1, <3>2 DEF Safe, RowHasApplied, Status
  <2>2. CASE Id[f] \notin Ids(recorded)
    BY <2>2 DEF Safe, AppliedHasRow, Status
  <2> QED BY <2>1, <2>2
<1> QED BY <1>1, SafeAlways, PTL

\* Up leaves nothing behind that it has loaded, has an up file and that nobody
\* rolled back.
THEOREM InOrder == Spec => AppliesInOrder
<1>1. Safe /\ [Next]_vars =>
        (\A r \in Runners, f \in Files :
           pc[r] = "up" /\ f \in todo[r] \ todo'[r] /\ pc'[r] = "up" =>
             \A g \in seen[r] : Id[g] < Id[f] =>
               Id[g] \in Ids(recorded) \cup undone[r] \/ g \in skipped[r])
  <2> SUFFICES ASSUME Safe, [Next]_vars, NEW r \in Runners, NEW f \in Files,
                      pc[r] = "up", f \in todo[r] \ todo'[r], pc'[r] = "up",
                      NEW g \in seen[r], Id[g] < Id[f]
               PROVE  Id[g] \in Ids(recorded) \cup undone[r] \/ g \in skipped[r]
    OBVIOUS
  <2>1. PICK h \in Files : Apply(r, h)
    <3>1. ~UNCHANGED todo
      OBVIOUS
    <3>2. \A q \in Runners : ~Stop(q) /\ ~LoadUp(q)
      BY DEF Stop, LoadUp, Safe, TypeOK
    <3>3. \E q \in Runners, h \in Files : Apply(q, h)
      BY <3>1, <3>2 DEF Next, vars, run, AddFile, Begin, Rollback, LoadDown
    <3>4. PICK q \in Runners, h \in Files : Apply(q, h)
      BY <3>3
    <3>5. q = r
      BY <3>4 DEF Apply, Safe, TypeOK
    <3> QED BY <3>4, <3>5
  <2>2. f = h
    BY <2>1 DEF Apply, Safe, TypeOK
  <2>3. g \notin todo[r]
    BY <2>1, <2>2, MigratorAssumption DEF Apply, NextFiles, Safe, TypeOK
  <2> QED BY <2>3 DEF Safe, ReadsAreOld
<1> QED BY <1>1, SafeAlways, PTL DEF Spec, AppliesInOrder

\* A Down leaves no later migration, except one applied behind its back.
THEOREM LastFirst == Spec => RollsBackTheLast
<1>1. Safe /\ [Next]_vars =>
        (\A r \in Runners : pc[r] = "down" /\ pc'[r] = "done" =>
           \A g \in recorded' : Id[g] < Id[target[r]] \/ g \in since[r])
  <2> SUFFICES ASSUME Safe, [Next]_vars, NEW r \in Runners, pc[r] = "down", pc'[r] = "done",
                      NEW g \in recorded'
               PROVE  Id[g] < Id[target[r]] \/ g \in since[r]
    OBVIOUS
  <2>1. Rollback(r)
    BY DEF Next, vars, run, AddFile, Begin, Stop, LoadUp, Apply, LoadDown, LoadMigrations, Rollback, Safe, TypeOK
  <2>2. g \in recorded /\ Id[g] # Id[target[r]]
    BY <2>1 DEF Rollback
  <2>3. Id[g] \in Nat /\ Id[target[r]] \in Nat
    BY <2>2, MigratorAssumption DEF Safe, TypeOK
  <2> QED BY <2>2, <2>3 DEF Safe, ReadsAreOld
<1> QED BY <1>1, SafeAlways, PTL DEF Spec, RollsBackTheLast

-----------------------------------------------------------------------------
(***************************************************************************)
(* The bodies: how a file is cut into statements.                          *)
(***************************************************************************)
\* Bodies without a line that has both SQL and a comment.
Unmixed == WholeLines \cup QuotingLines
Texts == {"text", "end"} \cup QuotingLines
Cutters == {"end", "semi", "unquoteEnd"}

\* The lines before line i at which the loop cuts.
Cuts(lines, i) == {j \in 1..(i - 1) : lines[j] \in Cutters /\ ~Commented(lines, j)}

\* The lines of SQL in a text, and those that share a statement with line i.
SQLLines(lines) == {i \in DOMAIN lines : IsSQL(lines, i)}
Together(lines, i) == {j \in SQLLines(lines) : Cuts(lines, j) = Cuts(lines, i)}

\* Statements have lines, and stand in the order of the text.
InOrderOfText(statements) ==
  /\ \A i \in DOMAIN statements : statements[i] # {}
  /\ \A i, j \in DOMAIN statements : i < j => \A a \in statements[i], b \in statements[j] : a < b

CutType == [current : SUBSET Nat, statements : Seq(SUBSET Nat), inBlock : BOOLEAN]
CutTyped == file \in Seq(Lines) /\ cut \in CutType

\* What the loop has found in the lines that it has read.
CutFound ==
  /\ cut.inBlock = Commented(file, Len(file) + 1)
  /\ cut.current = {j \in SQLLines(file) : Cuts(file, j) = Cuts(file, Len(file) + 1)}
  /\ Range(cut.statements) = {Together(file, i) : i \in SQLLines(file) \ cut.current}
  /\ InOrderOfText(cut.statements)
  /\ \A i \in DOMAIN cut.statements : \A a \in cut.statements[i], b \in cut.current : a < b

CutSafe == CutTyped /\ (file \in Seq(Unmixed) => CutFound)

\* A statement that is not empty comes last.
LEMMA FlushOrders ==
  ASSUME NEW S \in Seq(SUBSET Nat), InOrderOfText(S), NEW T \in SUBSET Nat,
         \A i \in DOMAIN S : \A a \in S[i], b \in T : a < b
  PROVE  LET R == IF T = {} THEN S ELSE Append(S, T)
         IN  /\ R \in Seq(SUBSET Nat)
             /\ InOrderOfText(R)
             /\ Range(R) = Range(S) \cup {U \in {T} : U # {}}
<1>1. CASE T = {}
  BY <1>1 DEF Range
<1>2. CASE T # {}
  <2> DEFINE R == Append(S, T)
  <2>1. /\ R \in Seq(SUBSET Nat)
        /\ DOMAIN R = 1..(Len(S) + 1) /\ DOMAIN S = 1..Len(S) /\ Len(S) \in Nat
        /\ R[Len(S) + 1] = T
        /\ \A i \in DOMAIN S : R[i] = S[i] /\ i \in DOMAIN R
    OBVIOUS
  <2> HIDE DEF R
  <2>2. \A i \in DOMAIN R : i = Len(S) + 1 \/ i \in DOMAIN S
    BY <2>1
  <2>3. \A i \in DOMAIN R : R[i] # {}
    BY <2>1, <2>2, <1>2 DEF InOrderOfText
  <2>4. ASSUME NEW i \in DOMAIN R, NEW j \in DOMAIN R, i < j, NEW a \in R[i], NEW b \in R[j]
        PROVE  a < b
    <3>1. i \in DOMAIN S
      BY <2>4, <2>1
    <3>2. CASE j \in DOMAIN S
      BY <2>4, <2>1, <3>1, <3>2 DEF InOrderOfText
    <3>3. CASE j = Len(S) + 1
      BY <2>4, <2>1, <3>1, <3>3
    <3> QED BY <3>2, <3>3, <2>2
  <2>5. Range(R) = Range(S) \cup {T}
    <3>1. \A x : x \in Range(R) => x \in Range(S) \cup {T}
      BY <2>1, <2>2 DEF Range
    <3>2. \A x : x \in Range(S) => x \in Range(R)
      BY <2>1 DEF Range
    <3>3. Len(S) + 1 \in DOMAIN R
      BY <2>1
    <3>4. T \in Range(R)
      BY <2>1, <3>3 DEF Range
    <3> QED BY <3>1, <3>2, <3>4
  <2>6. {U \in {T} : U # {}} = {T}
    BY <1>2
  <2> QED BY <2>1, <2>3, <2>4, <2>5, <2>6, <1>2 DEF R, InOrderOfText
<1> QED BY <1>1, <1>2

\* Ordered statements without an empty one are all different.
LEMMA OrderedAreDifferent ==
  ASSUME NEW S \in Seq(SUBSET Nat), InOrderOfText(S)
  PROVE  Len(S) = Cardinality(Range(S))
<1>1. DOMAIN S = 1..Len(S) /\ Len(S) \in Nat
  OBVIOUS
<1>2. ASSUME NEW i \in DOMAIN S, NEW j \in DOMAIN S, i < j, S[i] = S[j] PROVE FALSE
  <2>1. PICK a \in S[i] : TRUE
    BY DEF InOrderOfText
  <2>2. a \in Nat /\ a < a
    BY <1>2, <2>1 DEF InOrderOfText
  <2> QED BY <2>2
<1>3. \A i, j \in DOMAIN S : S[i] = S[j] => i = j
  BY <1>1, <1>2
<1>4. S \in Bijection(DOMAIN S, Range(S))
  BY <1>3 DEF Bijection, Injection, Surjection, IsInjective, Range
<1>5. ExistsBijection(DOMAIN S, Range(S))
  BY <1>4 DEF ExistsBijection
<1>6. IsFiniteSet(1..Len(S)) /\ Cardinality(1..Len(S)) = Len(S)
  BY <1>1, FS_Interval
<1> QED BY <1>1, <1>5, <1>6, FS_Bijection

\* A line that is added changes nothing before it ...
LEMMA EarlierLines ==
  ASSUME NEW f \in Seq(Unmixed), NEW line \in Unmixed, NEW i \in 1..(Len(f) + 1)
  PROVE  /\ Commented(Append(f, line), i) = Commented(f, i)
         /\ Cuts(Append(f, line), i) = Cuts(f, i)
         /\ Cuts(f, i) \subseteq 1..(i - 1)
<1> DEFINE g == Append(f, line)
<1>1. \A j \in 1..Len(f) : g[j] = f[j]
  OBVIOUS
<1> HIDE DEF g
<1>2. ASSUME NEW k \in 1..(Len(f) + 1) PROVE Commented(g, k) = Commented(f, k)
  <2>1. Len(f) \in Nat /\ \A j \in 1..(k - 1) : j \in 1..Len(f)
    OBVIOUS
  <2>2. \A j \in 1..(k - 1) : g[j] = f[j]
    BY <1>1, <2>1
  <2>3. \A o \in 1..(k - 1) : \A c \in o..(k - 1) : c \in 1..(k - 1)
    BY <2>1
  <2> QED BY <2>2, <2>3 DEF Commented
<1>3. Cuts(g, i) = Cuts(f, i)
  <2>1. \A j \in 1..(i - 1) : g[j] = f[j] /\ Commented(g, j) = Commented(f, j)
    BY <1>1, <1>2
  <2> QED BY <2>1 DEF Cuts
<1>4. Cuts(f, i) \subseteq 1..(i - 1)
  BY DEF Cuts
<1> QED BY <1>2, <1>3, <1>4 DEF g

\* ... and this is what it means for the next one.
LEMMA NextLine ==
  ASSUME NEW f \in Seq(Unmixed), NEW line \in Unmixed
  PROVE  LET n == Len(f)  g == Append(f, line)
             cutting == line \in Cutters /\ ~Commented(f, n + 1)
         IN  /\ Commented(g, n + 2) <=>
                  (line = "open" \/ (Commented(f, n + 1) /\ line \notin {"close", "both"}))
             /\ cutting => Cuts(g, n + 2) = Cuts(f, n + 1) \cup {n + 1}
             /\ ~cutting => Cuts(g, n + 2) = Cuts(f, n + 1)
             /\ SQLLines(g) = IF line \in Texts /\ ~Commented(f, n + 1)
                              THEN SQLLines(f) \cup {n + 1} ELSE SQLLines(f)
<1> DEFINE n == Len(f)
           g == Append(f, line)
<1>1. /\ n \in Nat /\ DOMAIN f = 1..n /\ DOMAIN g = 1..(n + 1)
      /\ g[n + 1] = line
      /\ \A j \in 1..n : g[j] = f[j]
  OBVIOUS
<1>0. \A x \in Unmixed : HasSQL(x) <=> x \in Texts
  BY DEF Unmixed, WholeLines, QuotingLines, MixedLines, HasSQL, Texts
<1>2. \A i \in 1..(n + 1) : Commented(g, i) = Commented(f, i) /\ Cuts(g, i) = Cuts(f, i)
  BY EarlierLines
<1> HIDE DEF n, g
<1>3. Commented(g, n + 2) <=>
         (line = "open" \/ (Commented(f, n + 1) /\ line \notin {"close", "both"}))
  <2>1. ASSUME Commented(g, n + 2)
        PROVE  line = "open" \/ (Commented(f, n + 1) /\ line \notin {"close", "both"})
    <3>1. PICK o \in 1..(n + 1) : g[o] = "open" /\ \A c \in o..(n + 1) : g[c] \notin {"close", "both"}
      BY <2>1, <1>1 DEF Commented
    <3>2. line \notin {"close", "both"}
      BY <3>1, <1>1
    <3>3. CASE o = n + 1
      BY <3>1, <3>3, <1>1
    <3>4. CASE o \in 1..n
      <4>1. g[o] = f[o] /\ \A c \in o..n : g[c] = f[c] /\ c \in o..(n + 1)
        BY <3>4, <1>1
      <4>2. f[o] = "open" /\ \A c \in o..n : f[c] \notin {"close", "both"}
        BY <3>1, <4>1
      <4>3. Commented(f, n + 1)
        BY <4>2, <3>4, <1>1 DEF Commented
      <4> QED BY <4>3, <3>2
    <3> QED BY <3>3, <3>4, <1>1
  <2>2. ASSUME line = "open" PROVE Commented(g, n + 2)
    <3>1. n + 1 \in 1..((n + 2) - 1) /\ \A c \in (n + 1)..((n + 2) - 1) : c = n + 1
      BY <1>1
    <3> QED BY <2>2, <3>1, <1>1 DEF Commented
  <2>3. ASSUME Commented(f, n + 1), line \notin {"close", "both"} PROVE Commented(g, n + 2)
    <3>1. PICK o \in 1..n : f[o] = "open" /\ \A c \in o..n : f[c] \notin {"close", "both"}
      BY <2>3, <1>1 DEF Commented
    <3>2. g[o] = "open" /\ o \in 1..((n + 2) - 1)
      BY <3>1, <1>1
    <3>3. ASSUME NEW c \in o..((n + 2) - 1) PROVE g[c] \notin {"close", "both"}
      <4>1. c = n + 1 \/ (c \in o..n /\ c \in 1..n)
        BY <1>1
      <4> QED BY <4>1, <3>1, <1>1, <2>3
    <3> QED BY <3>2, <3>3 DEF Commented
  <2> QED BY <2>1, <2>2, <2>3
<1>4. \A j : j \in Cuts(g, n + 2) <=>
             (j \in Cuts(f, n + 1) \/ (j = n + 1 /\ line \in Cutters /\ ~Commented(f, n + 1)))
  <2>1. \A j : j \in 1..((n + 2) - 1) <=> (j \in 1..((n + 1) - 1) \/ j = n + 1)
    BY <1>1
  <2>2. n + 1 \in 1..(n + 1) /\ \A j \in 1..((n + 1) - 1) : j \in 1..(n + 1) /\ g[j] = f[j] /\ j # n + 1
    BY <1>1
  <2> QED BY <2>1, <2>2, <1>1, <1>2 DEF Cuts
<1>5. \A j : j \in SQLLines(g) <=>
             (j \in SQLLines(f) \/ (j = n + 1 /\ line \in Texts /\ ~Commented(f, n + 1)))
  <2>1. \A j : j \in 1..(n + 1) <=> (j \in 1..n \/ j = n + 1)
    BY <1>1
  <2>2. n + 1 \in 1..(n + 1) /\ \A j \in 1..n : j \in 1..(n + 1) /\ g[j] = f[j] /\ j # n + 1
    BY <1>1
  <2> QED BY <2>1, <2>2, <1>0, <1>1, <1>2 DEF SQLLines, IsSQL
<1>6. CASE line \in Cutters /\ ~Commented(f, n + 1)
  <2>1. Cuts(g, n + 2) = Cuts(f, n + 1) \cup {n + 1}
    BY <1>4, <1>6
  <2> QED BY <1>3, <2>1, <1>5, <1>6 DEF n, g
<1>7. CASE ~(line \in Cutters /\ ~Commented(f, n + 1))
  <2>1. Cuts(g, n + 2) = Cuts(f, n + 1)
    BY <1>4, <1>7
  <2> QED BY <1>3, <2>1, <1>5, <1>7 DEF n, g
<1> QED BY <1>6, <1>7

\* What has been collected becomes a statement.
LEMMA FlushTyped ==
  ASSUME NEW state \in CutType
  PROVE  /\ Flush(state).current = {}
         /\ Flush(state).statements =
              IF state.current = {} THEN state.statements ELSE Append(state.statements, state.current)
         /\ Flush(state) \in CutType
<1> DEFINE F == IF state.current = {} THEN state.statements ELSE Append(state.statements, state.current)
<1>1. F \in Seq(SUBSET Nat)
  BY DEF CutType
<1>2. Flush(state) = [state EXCEPT !.current = {}, !.statements = F]
  BY DEF Flush
<1> HIDE DEF F
<1>3. Flush(state).current = {} /\ Flush(state).statements = F
  BY <1>2 DEF CutType
<1>4. Flush(state) \in CutType
  BY <1>1, <1>2 DEF CutType
<1> QED BY <1>3, <1>4 DEF F

\* What the loop does with a line, whatever is on it.
LEMMA OneLineTyped ==
  ASSUME CutTyped, NEW line \in Lines, ReadLine(line)
  PROVE  CutTyped'
<1> DEFINE new == Take(cut, line)
<1>1. /\ cut \in CutType /\ Len(file) \in Nat
      /\ file' = Append(file, line) /\ file' \in Seq(Lines) /\ cut' = OneLine(cut, line)
  BY DEF CutTyped, ReadLine
<1>2. new \in CutType
  BY <1>1 DEF Take, CutType
<1>3. Flush(new) \in CutType
  BY <1>2, FlushTyped
<1>4. cut' = [(IF ((cut.inBlock \/ Opens(line)) /\ ~Closes(line)) \/ Closes(line) \/ line \in {"blank", "dash"}
               THEN cut ELSE IF HasSemicolon(line) THEN Flush(new) ELSE new)
              EXCEPT !.inBlock = (cut.inBlock \/ Opens(line)) /\ ~Closes(line)]
  BY <1>1 DEF OneLine
<1>5. ((cut.inBlock \/ Opens(line)) /\ ~Closes(line)) \in BOOLEAN
  OBVIOUS
<1>6. \A c \in CutType, b \in BOOLEAN : [c EXCEPT !.inBlock = b] \in CutType
  BY DEF CutType
<1> HIDE DEF new
<1> QED BY <1>1, <1>2, <1>3, <1>4, <1>5, <1>6 DEF CutTyped

\* What it does with a line that has no comment next to its SQL.
LEMMA OneLineReads ==
  ASSUME CutTyped, NEW line \in Unmixed, ReadLine(line)
  PROVE  LET live == ~cut.inBlock
             T == IF live /\ line \in Texts THEN cut.current \cup {Len(file) + 1} ELSE cut.current
         IN  /\ cut'.inBlock = (line = "open" \/ (cut.inBlock /\ line \notin {"close", "both"}))
             /\ live /\ line \in Cutters =>
                  /\ cut'.current = {}
                  /\ cut'.statements = IF T = {} THEN cut.statements ELSE Append(cut.statements, T)
             /\ ~(live /\ line \in Cutters) =>
                  cut'.current = T /\ cut'.statements = cut.statements
<1> DEFINE new == Take(cut, line)
           T == IF ~cut.inBlock /\ line \in Texts THEN cut.current \cup {Len(file) + 1} ELSE cut.current
<1>1. /\ cut \in CutType /\ Len(file) \in Nat /\ cut.inBlock \in BOOLEAN
      /\ cut' = OneLine(cut, line)
  BY DEF CutTyped, CutType, ReadLine
<1>2. line \in {"blank", "dash", "text", "end", "semi", "open", "close", "both", "quote", "unquote", "unquoteEnd"}
  BY DEF Unmixed, WholeLines, QuotingLines
<1>3. /\ Opens(line) <=> line \in {"open", "both"}
      /\ Closes(line) <=> line \in {"close", "both"}
      /\ HasSQL(line) <=> line \in Texts
      /\ HasSemicolon(line) <=> line \in Cutters
  BY <1>2 DEF Opens, Closes, HasSQL, HasSemicolon, MixedLines, Texts, Cutters, QuotingLines
<1>4. /\ new \in CutType
      /\ ~cut.inBlock => new.current = T
      /\ new.statements = cut.statements
  BY <1>1, <1>3 DEF Take, CutType
<1>5. \A c \in CutType, b \in BOOLEAN :
        LET d == [c EXCEPT !.inBlock = b]
        IN  d.inBlock = b /\ d.current = c.current /\ d.statements = c.statements
  BY DEF CutType
<1>6. CASE cut.inBlock
  <2>1. cut' = [cut EXCEPT !.inBlock = line \notin {"close", "both"}]
    BY <1>1, <1>2, <1>3, <1>6 DEF OneLine
  <2> QED BY <1>1, <1>2, <1>5, <1>6, <2>1
<1>7. CASE ~cut.inBlock /\ line \notin Texts \cup Cutters
  <2>1. cut' = [cut EXCEPT !.inBlock = (line = "open")]
    BY <1>1, <1>2, <1>3, <1>7 DEF OneLine, Texts, Cutters, QuotingLines
  <2> QED BY <1>1, <1>2, <1>5, <1>7, <2>1
<1>8. CASE ~cut.inBlock /\ line \in Texts \ Cutters
  <2>1. cut' = [new EXCEPT !.inBlock = FALSE] /\ line \notin {"open", "close", "both"}
    BY <1>1, <1>2, <1>3, <1>8 DEF OneLine, Texts, Cutters, QuotingLines
  <2> HIDE DEF new
  <2> QED BY <1>1, <1>4, <1>5, <1>8, <2>1
<1>9. CASE ~cut.inBlock /\ line \in Cutters
  <2>1. cut' = [Flush(new) EXCEPT !.inBlock = FALSE] /\ line \notin {"open", "close", "both"}
    BY <1>1, <1>2, <1>3, <1>9 DEF OneLine, Texts, Cutters, QuotingLines
  <2>2. /\ Flush(new).current = {}
        /\ Flush(new).statements =
             IF new.current = {} THEN new.statements ELSE Append(new.statements, new.current)
        /\ Flush(new) \in CutType
    BY <1>4, FlushTyped
  <2> HIDE DEF new
  <2>3. cut'.current = {} /\ cut'.statements = Flush(new).statements /\ cut'.inBlock = FALSE
    BY <1>5, <2>1, <2>2
  <2>4. Flush(new).statements = IF T = {} THEN cut.statements ELSE Append(cut.statements, T)
    BY <1>4, <1>9, <2>2
  <2> QED BY <1>1, <1>9, <2>1, <2>3, <2>4
<1> QED BY <1>2, <1>6, <1>7, <1>8, <1>9

\* A line keeps what the loop has found.
LEMMA ReadLineFinds ==
  ASSUME CutTyped, CutFound, file \in Seq(Unmixed), NEW line \in Unmixed, ReadLine(line)
  PROVE  CutFound'
<1> DEFINE n == Len(file)
           C == Commented(file, n + 1)
           L == SQLLines(file)
           LL == SQLLines(file')
           E(i) == Cuts(file, i)
           EE(i) == Cuts(file', i)
           T == IF ~C /\ line \in Texts THEN cut.current \cup {n + 1} ELSE cut.current
           R == IF T = {} THEN cut.statements ELSE Append(cut.statements, T)
           cutting == line \in Cutters /\ ~C
<1>1. /\ file \in Seq(Unmixed) /\ n \in Nat /\ file' = Append(file, line) /\ Len(file') = n + 1
      /\ L \subseteq 1..n
  BY DEF ReadLine, SQLLines
<1>2. /\ cut.inBlock = C /\ cut.current \in SUBSET Nat /\ cut.statements \in Seq(SUBSET Nat)
      /\ cut.current = {j \in L : E(j) = E(n + 1)}
  BY DEF CutFound, CutTyped, CutType
<1>3. /\ cut'.inBlock = (line = "open" \/ (cut.inBlock /\ line \notin {"close", "both"}))
      /\ cutting => cut'.current = {} /\ cut'.statements = R
      /\ ~cutting => cut'.current = T /\ cut'.statements = cut.statements
  BY OneLineReads, <1>2
<1>4. /\ Commented(file', n + 2) <=> (line = "open" \/ (C /\ line \notin {"close", "both"}))
      /\ cutting => EE(n + 2) = E(n + 1) \cup {n + 1}
      /\ ~cutting => EE(n + 2) = E(n + 1)
      /\ LL = IF line \in Texts /\ ~C THEN L \cup {n + 1} ELSE L
  BY <1>1, NextLine
<1>5. \A i \in 1..(n + 1) : EE(i) = E(i) /\ EE(i) \subseteq 1..(i - 1)
  BY <1>1, EarlierLines
<1>6. LL \subseteq 1..(n + 1) /\ L \subseteq LL
  BY <1>1, <1>4
<1>7. T = {j \in LL : E(j) = E(n + 1)}
  BY <1>2, <1>4
<1> HIDE DEF n, C, L, LL, E, EE, cutting
<1>8. cut'.inBlock = Commented(file', n + 2)
  <2>1. Commented(file', n + 2) \in BOOLEAN /\ C \in BOOLEAN
    BY DEF Commented, C
  <2> QED BY <2>1, <1>2, <1>3, <1>4
<1>9. cut'.current = {j \in LL : EE(j) = EE(n + 2)}
  <2>1. CASE cutting
    <3>1. ASSUME NEW j \in LL PROVE EE(j) # EE(n + 2)
      <4>1. n + 1 \notin 1..(j - 1)
        BY <1>1, <1>6
      <4>2. n + 1 \notin EE(j)
        BY <4>1, <1>5, <1>6
      <4> QED BY <4>2, <1>4, <2>1
    <3> QED BY <3>1, <1>3, <2>1
  <2>2. CASE ~cutting
    <3>1. \A j \in LL : EE(j) = E(j)
      BY <1>5, <1>6
    <3> QED BY <3>1, <1>3, <1>4, <1>7, <2>2
  <2> QED BY <2>1, <2>2
<1>10. /\ \A i \in LL \ T : Together(file', i) = Together(file, i) /\ i \in L \ cut.current
       /\ \A i \in L \ cut.current : i \in LL \ T
       /\ \A i \in T : Together(file', i) = T
  <2>1. \A j \in LL : EE(j) = E(j)
    BY <1>5, <1>6
  <2>2. \A j \in LL : j \in L \/ j = n + 1
    BY <1>4
  <2>3. \A i \in LL : Together(file', i) = {j \in LL : E(j) = E(i)}
    BY <2>1 DEF Together, LL, EE
  <2>4. \A i : Together(file, i) = {j \in L : E(j) = E(i)}
    BY DEF Together, L, E
  <2>5. ASSUME NEW i \in LL \ T
        PROVE  Together(file', i) = Together(file, i) /\ i \in L \ cut.current
    <3>1. E(i) # E(n + 1)
      BY <1>7
    <3>2. \A j \in LL : E(j) = E(i) => j \in L
      BY <2>2, <3>1
    <3>3. i \in L \ cut.current
      BY <3>1, <3>2, <1>2
    <3> QED BY <2>3, <2>4, <3>2, <3>3, <1>6
  <2>6. ASSUME NEW i \in L \ cut.current PROVE i \in LL \ T
    BY <1>2, <1>6, <1>7
  <2>7. ASSUME NEW i \in T PROVE Together(file', i) = T
    BY <1>7, <2>3
  <2> QED BY <2>5, <2>6, <2>7
<1>11. \A i \in DOMAIN cut.statements : \A a \in cut.statements[i], b \in T : a < b
  <2>1. SUFFICES ASSUME NEW i \in DOMAIN cut.statements, NEW a \in cut.statements[i], NEW b \in T
                 PROVE  a < b
    OBVIOUS
  <2>2. CASE b \in cut.current
    BY <2>2 DEF CutFound
  <2>3. CASE b = n + 1
    <3>1. cut.statements[i] \in {Together(file, k) : k \in L \ cut.current}
      BY DEF CutFound, Range, L
    <3>2. a \in L
      BY <3>1 DEF Together, L
    <3> QED BY <3>2, <2>3, <1>1
  <2> QED BY <2>2, <2>3
<1>12. T \in SUBSET Nat
  BY <1>1, <1>2
<1>13. Range(cut.statements) = {Together(file', i) : i \in LL \ T}
  <2>1. Range(cut.statements) = {Together(file, i) : i \in L \ cut.current}
    BY DEF CutFound, L
  <2> HIDE DEF T
  <2> QED BY <2>1, <1>10
<1>14. CASE cutting
  <2>1. /\ InOrderOfText(R)
        /\ Range(R) = Range(cut.statements) \cup {U \in {T} : U # {}}
    BY <1>2, <1>11, <1>12, FlushOrders DEF CutFound
  <2>2. Range(R) = {Together(file', i) : i \in LL \ cut'.current}
    <3>1. cut'.current = {} /\ T \subseteq LL
      BY <1>14, <1>3, <1>7
    <3> HIDE DEF T, R
    <3>2. \A x : x \in Range(R) => x \in {Together(file', i) : i \in LL}
      BY <2>1, <1>13, <1>10, <3>1
    <3>3. ASSUME NEW i \in LL PROVE Together(file', i) \in Range(R)
      <4>1. CASE i \in T
        BY <4>1, <1>10, <2>1
      <4>2. CASE i \notin T
        BY <4>2, <1>13, <2>1
      <4> QED BY <4>1, <4>2
    <3>4. {Together(file', i) : i \in LL} = Range(R)
      BY <3>2, <3>3
    <3> QED BY <3>1, <3>4
  <2> HIDE DEF T, R
  <2>3. cut'.statements = R /\ cut'.current = {}
    BY <1>14, <1>3
  <2> QED BY <2>1, <2>2, <2>3, <1>1, <1>3, <1>8, <1>9 DEF CutFound, LL, EE
<1>15. CASE ~cutting
  <2> HIDE DEF T, R
  <2>1. cut'.statements = cut.statements /\ cut'.current = T /\ InOrderOfText(cut.statements)
    BY <1>15, <1>3 DEF CutFound
  <2> QED BY <2>1, <1>1, <1>3, <1>8, <1>9, <1>11, <1>13 DEF CutFound, LL, EE
<1> QED BY <1>14, <1>15

LEMMA ReadLineSafe == ASSUME CutSafe, NEW line \in Lines, ReadLine(line) PROVE CutSafe'
<1>1. CutTyped'
  BY OneLineTyped DEF CutSafe
<1>2. ASSUME file' \in Seq(Unmixed) PROVE CutFound'
  <2>1. file \in Seq(Lines) /\ file' = Append(file, line)
    BY DEF CutSafe, CutTyped, ReadLine
  <2>2. /\ Len(file') = Len(file) + 1 /\ file'[Len(file) + 1] = line
        /\ \A i \in 1..Len(file) : file'[i] = file[i]
        /\ Len(file) \in Nat
    BY <2>1
  <2>3. \A i \in 1..(Len(file) + 1) : file'[i] \in Unmixed
    BY <1>2, <2>2
  <2>4. line \in Unmixed /\ \A i \in 1..Len(file) : file[i] \in Unmixed
    BY <2>2, <2>3
  <2>5. file \in Seq(Unmixed)
    BY <2>1, <2>4
  <2> QED BY <2>4, <2>5, ReadLineFinds DEF CutSafe
<1> QED BY <1>1, <1>2 DEF CutSafe

LEMMA CutSafeAlways == SplitSpec => []CutSafe
<1>1. SplitInit => CutSafe
  <2> SUFFICES ASSUME SplitInit PROVE CutSafe
    OBVIOUS
  <2>1. /\ file = <<>> /\ Len(file) = 0 /\ SQLLines(file) = {}
        /\ cut.current = {} /\ cut.statements = <<>> /\ cut.inBlock = FALSE
    BY DEF SplitInit, NothingYet, SQLLines
  <2>2. ~Commented(file, Len(file) + 1)
    BY <2>1 DEF Commented
  <2>3. CutTyped
    BY DEF SplitInit, NothingYet, CutTyped, CutType
  <2>4. cut.inBlock = Commented(file, Len(file) + 1)
    BY <2>1, <2>2 DEF Commented
  <2>5. Range(cut.statements) = {} /\ DOMAIN cut.statements = {}
    BY <2>1 DEF Range
  <2> QED BY <2>1, <2>3, <2>4, <2>5 DEF CutSafe, CutFound, InOrderOfText
<1>2. CutSafe /\ [SplitNext]_splitVars => CutSafe'
  <2> SUFFICES ASSUME CutSafe, [SplitNext]_splitVars PROVE CutSafe'
    OBVIOUS
  <2>1. CASE SplitNext
    BY <2>1, ReadLineSafe DEF SplitNext
  <2>2. CASE UNCHANGED splitVars
    <3>1. file' = file /\ cut' = cut
      BY <2>2 DEF splitVars
    <3>2. CutTyped'
      BY <3>1 DEF CutSafe, CutTyped
    <3>3. SQLLines(file') = SQLLines(file) /\ \A i : Together(file', i) = Together(file, i)
      BY <3>1
    <3> QED BY <3>1, <3>2, <3>3 DEF CutSafe, CutFound
  <2> QED BY <2>1, <2>2
<1> QED BY <1>1, <1>2, PTL DEF SplitSpec

\* In a plain body the loop cuts at the semicolons of SQL and nowhere else.
LEMMA PlainCuts ==
  ASSUME NEW lines \in Seq(Lines), Plain(lines), NEW i \in 1..(Len(lines) + 1)
  PROVE  Ends(lines, i) = Cuts(lines, i)
<1>1. ASSUME NEW j \in 1..(i - 1) PROVE j \in DOMAIN lines /\ j \in 1..j /\ j \in Nat
  BY <1>1
<1>2. ASSUME NEW j \in 1..(i - 1), lines[j] \in Cutters, ~Commented(lines, j), Quoted(lines, j + 1)
      PROVE  FALSE
  <2>1. PICK o \in 1..j :
          lines[o] = "quote" /\ \A c \in o..j : lines[c] \notin {"unquote", "unquoteEnd"}
    BY <1>1, <1>2 DEF Quoted
  <2>2. lines[j] \in {"end", "semi"} /\ o # j
    BY <1>1, <1>2, <2>1 DEF Cutters
  <2>3. o \in 1..(j - 1) /\ \A c \in o..(j - 1) : c \in o..j
    BY <1>1, <2>2
  <2>4. Quoted(lines, j)
    BY <2>1, <2>3 DEF Quoted
  <2> QED BY <1>1, <2>2, <2>4 DEF Plain, Regular
<1>3. ASSUME NEW j \in 1..(i - 1)
      PROVE  lines[j] \in {"end", "semi", "unquoteEnd", "endDash", "bothEnd"} <=> lines[j] \in Cutters
  BY <1>1, <1>3 DEF Plain, MixedLines, Cutters
<1> QED BY <1>2, <1>3 DEF Ends, Cuts

\* A plain body, however long, reaches the database as the statements that it
\* contains, in their order: comments on lines of their own that do not nest, and
\* no line of a quoted text ends in a semicolon.
THEOREM FilesAreCutWhole == SplitSpec => []StatementsAreWhole
<1>1. CutSafe => StatementsAreWhole
  <2> SUFFICES ASSUME CutSafe, Plain(file) PROVE MeaningIsKept
    BY DEF StatementsAreWhole
  <2> DEFINE T == cut.current
             L == SQLLines(file)
             R == IF T = {} THEN cut.statements ELSE Append(cut.statements, T)
  <2>0. file \in Seq(Lines) /\ file \in Seq(Unmixed) /\ CutFound
    <3>1. file \in Seq(Lines) /\ \A i \in DOMAIN file : file[i] \in Lines /\ file[i] \notin MixedLines
      BY DEF CutSafe, CutTyped, Plain
    <3>2. \A i \in DOMAIN file : file[i] \in Unmixed
      BY <3>1 DEF Unmixed, Lines
    <3>3. file \in Seq(Unmixed)
      BY <3>1, <3>2
    <3> QED BY <3>1, <3>3 DEF CutSafe
  <2>1. /\ cut \in CutType
        /\ T \in SUBSET Nat /\ cut.statements \in Seq(SUBSET Nat)
        /\ T = {j \in L : Cuts(file, j) = Cuts(file, Len(file) + 1)}
        /\ Range(cut.statements) = {Together(file, i) : i \in L \ T}
    BY <2>0 DEF CutSafe, CutFound, CutTyped, CutType
  <2>2. splitSQLStatements = R
    BY <2>1 DEF splitSQLStatements, Flush, CutType
  <2>3. /\ R \in Seq(SUBSET Nat) /\ InOrderOfText(R)
        /\ Range(R) = Range(cut.statements) \cup {U \in {T} : U # {}}
    BY <2>0, <2>1, FlushOrders DEF CutFound
  <2> HIDE DEF R
  <2>4. Len(R) = Cardinality(Range(R))
    BY <2>3, OrderedAreDifferent
  <2>5. Meaning(file) = {Together(file, i) : i \in L}
    <3>1. \A i \in L : i \in 1..(Len(file) + 1)
      BY <2>0 DEF SQLLines
    <3>2. \A i \in L : Ends(file, i) = Cuts(file, i)
      BY <2>0, <3>1, PlainCuts
    <3>3. Meaning(file) = {{j \in L : Ends(file, j) = Ends(file, i)} : i \in L}
      BY DEF Meaning, SQLLines
    <3>4. \A i \in L : {j \in L : Ends(file, j) = Ends(file, i)} = Together(file, i)
      BY <3>2 DEF Together
    <3> HIDE DEF L
    <3> QED BY <3>3, <3>4
  <2>6. \A i \in T : Together(file, i) = T /\ i \in L
    BY <2>1 DEF Together
  <2> HIDE DEF T, L
  <2>7. Range(R) = {Together(file, i) : i \in L}
    <3>1. \A x : x \in Range(R) => x \in {Together(file, i) : i \in L}
      BY <2>1, <2>3, <2>6
    <3>2. ASSUME NEW i \in L PROVE Together(file, i) \in Range(R)
      <4>1. CASE i \in T
        BY <4>1, <2>3, <2>6
      <4>2. CASE i \notin T
        BY <4>2, <2>1, <2>3
      <4> QED BY <4>1, <4>2
    <3> QED BY <3>1, <3>2
  <2> QED BY <2>2, <2>3, <2>4, <2>5, <2>7 DEF MeaningIsKept, InOrderOfText
<1> QED BY <1>1, CutSafeAlways, PTL
=============================================================================
