----------------------- MODULE PermissionCache_proofs -----------------------
(***************************************************************************)
(* Proofs about PermissionCache, for any number of logins and checks and   *)
(* any number of changes of the tables.  Safe is inductive: what a request *)
(* has read so far is no older than its floor, which for a login is quiet  *)
(* itself, and for a check what quiet was when the check began.            *)
(***************************************************************************)
EXTENDS PermissionCache, TLAPS

Floor(p) == IF p \in Logins THEN quiet ELSE since[p]

HasRead(s) == CASE s = "rolePermissions" -> {"userRoles"}
                [] s = "overrides" -> {"userRoles", "rolePermissions"}
                [] s \in {"set", "answer"} -> Tables
                [] OTHER -> {}

ReadsAreRecent ==
  \A p \in Procs : pc[p] # "idle" =>
    /\ AtLeast(quiet, Floor(p))
    /\ \A t \in HasRead(pc[p]) : found[p][t] >= Floor(p)[t]

ChecksOnlyAnswer == \A p \in Procs : pc[p] = "answer" => p \in Checks

Safe == /\ TypeOK
        /\ AtLeast(version, quiet)
        /\ CacheNoOlderThanQuiet
        /\ ReadsAreRecent
        /\ ChecksOnlyAnswer

\* AtLeast is a partial order on the merged sets.
LEMMA AtLeastTransitive ==
  ASSUME NEW f \in Merged, NEW g \in Merged, NEW h \in Merged,
         AtLeast(f, g), AtLeast(g, h)
  PROVE  AtLeast(f, h)
BY SMT, PermissionAssumption DEF AtLeast, Merged, Tables

\* The initial state is safe: nothing is cached and nobody reads.
LEMMA InitSafe == Init => Safe
BY PermissionAssumption, NoneAssumption, SMT
DEF Init, Safe, TypeOK, Merged, Zero, AtLeast, CacheNoOlderThanQuiet, ReadsAreRecent,
    ChecksOnlyAnswer, PC, Procs, Tables

\* A change of the tables leaves every read in their past.
LEMMA ChangeSafe ==
  ASSUME Safe, NEW t \in Tables, Change(t)
  PROVE  Safe'
<1> USE PermissionAssumption DEF Safe, Change
<1>1. version' \in Merged /\ AtLeast(version', version)
  BY SMT DEF TypeOK, Merged, AtLeast, Tables
<1>2. TypeOK'
  <2>1. cache # None => AtLeast(version', cache)
    BY <1>1, AtLeastTransitive, NoneAssumption DEF TypeOK
  <2>2. \A p \in Procs : AtLeast(version', found[p])
    BY <1>1, AtLeastTransitive DEF TypeOK
  <2> QED BY <1>1, <2>1, <2>2 DEF TypeOK
<1>3. AtLeast(version', quiet)
  BY <1>1, AtLeastTransitive DEF TypeOK
<1> QED BY <1>2, <1>3 DEF CacheNoOlderThanQuiet, ReadsAreRecent, ChecksOnlyAnswer, Floor, AtLeast

\* Dropping the key, and setting quiet if no other login runs.
LEMMA InvalidateSafe ==
  ASSUME Safe, NEW l \in Logins, Invalidate(l)
  PROVE  Safe'
<1> USE PermissionAssumption, NoneAssumption DEF Safe, Invalidate, Step
<1>1. l \in Procs
  BY DEF Procs
<1>2. quiet' \in Merged /\ AtLeast(version, quiet') /\ AtLeast(quiet', quiet)
  BY SMT DEF TypeOK, AtLeast, Merged
<1>3. TypeOK'
  BY <1>1, <1>2, SMT DEF TypeOK, PC, AtLeast
<1>4. ReadsAreRecent'
  <2> SUFFICES ASSUME NEW p \in Procs, pc'[p] # "idle"
               PROVE  /\ AtLeast(quiet, Floor(p))'
                      /\ \A t \in HasRead(pc'[p]) : found'[p][t] >= Floor(p)'[t]
    BY DEF ReadsAreRecent
  <2>1. CASE p = l
    BY <2>1, <1>1, <1>2, SMT DEF TypeOK, Floor, AtLeast, HasRead, Merged
  <2>2. CASE p # l /\ p \in Logins
    <3>1. pc'[p] = pc[p] /\ quiet' = quiet
      BY <2>2 DEF TypeOK
    <3> QED BY <2>2, <3>1 DEF ReadsAreRecent, Floor, AtLeast
  <2>3. CASE p # l /\ p \notin Logins
    <3>1. pc'[p] = pc[p] /\ Floor(p)' = Floor(p) /\ Floor(p) \in Merged
      BY <2>3 DEF TypeOK, Floor
    <3>2. AtLeast(quiet', Floor(p))
      BY <3>1, <1>2, <2>3, AtLeastTransitive DEF TypeOK, ReadsAreRecent
    <3> QED BY <3>1, <3>2 DEF ReadsAreRecent, AtLeast
  <2> QED BY <2>1, <2>2, <2>3
<1>5. ChecksOnlyAnswer'
  BY <1>1, SMT DEF ChecksOnlyAnswer, TypeOK
<1> QED BY <1>2, <1>3, <1>4, <1>5 DEF CacheNoOlderThanQuiet, AtLeast

\* A login that could not drop the key.
LEMMA InvalidateFailsSafe ==
  ASSUME Safe, NEW l \in Logins, InvalidateFails(l)
  PROVE  Safe'
<1> USE PermissionAssumption DEF Safe, InvalidateFails, Step
<1>1. l \in Procs
  BY DEF Procs
<1>2. TypeOK'
  BY <1>1, SMT DEF TypeOK, PC, AtLeast
<1>3. ReadsAreRecent'
  BY <1>1, SMT DEF ReadsAreRecent, TypeOK, Floor, AtLeast, HasRead, Merged
<1> QED BY <1>1, <1>2, <1>3, SMT DEF CacheNoOlderThanQuiet, ChecksOnlyAnswer, TypeOK, AtLeast

\* The start of a check fixes its floor.
LEMMA BeginCheckSafe ==
  ASSUME Safe, NEW c \in Checks, BeginCheck(c)
  PROVE  Safe'
<1> USE PermissionAssumption DEF Safe, BeginCheck, Step
<1>1. c \in Procs /\ c \notin Logins
  BY DEF Procs
<1>2. TypeOK'
  BY <1>1, SMT DEF TypeOK, PC, AtLeast
<1>3. ReadsAreRecent'
  BY <1>1, SMT DEF ReadsAreRecent, TypeOK, Floor, AtLeast, HasRead, Merged
<1> QED BY <1>1, <1>2, <1>3, SMT DEF CacheNoOlderThanQuiet, ChecksOnlyAnswer, TypeOK, AtLeast

\* A step of one process that reads something recent enough.
LEMMA ReadSafe ==
  ASSUME Safe, UNCHANGED <<version, cache, quiet, since>>,
         NEW p \in Procs, pc[p] # "idle", NEW s \in PC, NEW f \in Merged,
         pc' = [pc EXCEPT ![p] = s], found' = [found EXCEPT ![p] = f],
         AtLeast(version, f), \A t \in HasRead(s) : f[t] >= Floor(p)[t],
         s = "set" => p \in Logins, s = "answer" => p \in Checks
  PROVE  Safe'
<1> USE DEF Safe
<1>1. TypeOK'
  BY SMT DEF TypeOK, AtLeast
<1>2. ReadsAreRecent'
  <2> SUFFICES ASSUME NEW q \in Procs, pc'[q] # "idle"
               PROVE  /\ AtLeast(quiet, Floor(q))'
                      /\ \A t \in HasRead(pc'[q]) : found'[q][t] >= Floor(q)'[t]
    BY DEF ReadsAreRecent
  <2>0. AtLeast(quiet, Floor(q))' <=> AtLeast(quiet, Floor(q))
    BY DEF AtLeast, Floor
  <2>1. Floor(q)' = Floor(q)
    BY DEF Floor
  <2>2. CASE q = p
    BY <2>0, <2>1, <2>2 DEF TypeOK, ReadsAreRecent
  <2>3. CASE q # p
    BY <2>0, <2>1, <2>3 DEF TypeOK, ReadsAreRecent
  <2> QED BY <2>2, <2>3
<1>3. ChecksOnlyAnswer'
  BY DEF ChecksOnlyAnswer, TypeOK
<1> QED BY <1>1, <1>2, <1>3 DEF CacheNoOlderThanQuiet, AtLeast

\* A key that is there is as recent as quiet, hence as any floor.
LEMMA GetCachedSafe ==
  ASSUME Safe, NEW p \in Procs, GetCached(p)
  PROVE  Safe'
<1> USE PermissionAssumption, NoneAssumption DEF Safe
<1>1. CASE /\ cache # None /\ Step(p, "get", Merge(p))
           /\ found' = [found EXCEPT ![p] = cache]
  <2>1. cache \in Merged /\ AtLeast(version, cache) /\ AtLeast(cache, quiet)
    BY <1>1 DEF TypeOK, CacheNoOlderThanQuiet
  <2>2. Floor(p) \in Merged /\ AtLeast(quiet, Floor(p)) /\ pc[p] = "get"
    BY <1>1 DEF Floor, TypeOK, ReadsAreRecent, Step
  <2>3. AtLeast(cache, Floor(p))
    BY <2>1, <2>2, AtLeastTransitive DEF TypeOK
  <2>4. \A t \in HasRead(Merge(p)) : cache[t] >= Floor(p)[t]
    BY <2>3 DEF HasRead, Merge, AtLeast
  <2>5. Merge(p) \in PC /\ (Merge(p) = "set" => p \in Logins) /\ (Merge(p) = "answer" => p \in Checks)
    BY DEF Merge, PC, Procs
  <2> QED BY <1>1, <2>1, <2>2, <2>4, <2>5, ReadSafe DEF GetCached, Step
<1>2. CASE Step(p, "get", "userRoles") /\ UNCHANGED found
  <2>1. found' = [found EXCEPT ![p] = found[p]] /\ found[p] \in Merged /\ AtLeast(version, found[p])
    BY <1>2 DEF TypeOK
  <2>2. "userRoles" \in PC /\ HasRead("userRoles") = {}
    BY DEF PC, HasRead
  <2> QED BY <1>2, <2>1, <2>2, ReadSafe DEF GetCached, Step
<1> QED BY <1>1, <1>2 DEF GetCached

\* A query reads its table as it is now; what was read before stays.
LEMMA ReadTableSafe ==
  ASSUME Safe, NEW p \in Procs, GetUserRoles(p) \/ GetRolePermissions(p) \/ GetOverrides(p)
  PROVE  Safe'
<1> USE PermissionAssumption DEF Safe
<1>1. ASSUME NEW t \in Tables, NEW next \in PC, Read(p, t, next), t = pc[p], pc[p] # "idle",
             HasRead(next) = HasRead(t) \cup {t},
             next = "set" => p \in Logins, next = "answer" => p \in Checks
      PROVE  Safe'
  <2> DEFINE f == [found[p] EXCEPT ![t] = version[t]]
  <2>1. f \in Merged /\ AtLeast(version, f)
    BY SMT DEF TypeOK, AtLeast, Merged
  <2>2. Floor(p) \in Merged /\ AtLeast(quiet, Floor(p))
    BY <1>1 DEF Floor, TypeOK, ReadsAreRecent
  <2>3. AtLeast(version, Floor(p))
    BY <2>2, AtLeastTransitive DEF TypeOK
  <2>4. \A u \in HasRead(next) : f[u] >= Floor(p)[u]
    <3> SUFFICES ASSUME NEW u \in HasRead(next) PROVE f[u] >= Floor(p)[u]
      OBVIOUS
    <3>1. HasRead(next) \subseteq Tables
      BY DEF HasRead, Tables
    <3>2. CASE u = t
      BY <3>2, <2>3, <3>1 DEF TypeOK, Merged, AtLeast
    <3>3. CASE u # t
      BY <3>3, <3>1, <1>1 DEF ReadsAreRecent, TypeOK, Merged
    <3> QED BY <3>2, <3>3
  <2>5. found' = [found EXCEPT ![p] = f]
    BY <1>1 DEF Read, TypeOK
  <2> HIDE DEF f
  <2> QED BY <1>1, <2>1, <2>4, <2>5, ReadSafe DEF Read, Step
<1>2. /\ "userRoles" \in Tables /\ "rolePermissions" \in Tables /\ "overrides" \in Tables
      /\ "rolePermissions" \in PC /\ "overrides" \in PC /\ Merge(p) \in PC
      /\ Merge(p) = "set" => p \in Logins
      /\ Merge(p) = "answer" => p \in Checks
  BY DEF Tables, PC, Merge, Procs
<1>3. /\ HasRead("rolePermissions") = HasRead("userRoles") \cup {"userRoles"}
      /\ HasRead("overrides") = HasRead("rolePermissions") \cup {"rolePermissions"}
      /\ HasRead(Merge(p)) = HasRead("overrides") \cup {"overrides"}
  BY DEF HasRead, Merge, Tables
<1>4. CASE GetUserRoles(p)
  BY <1>4, <1>1, <1>2, <1>3 DEF GetUserRoles, Read, Step
<1>5. CASE GetRolePermissions(p)
  BY <1>5, <1>1, <1>2, <1>3 DEF GetRolePermissions, Read, Step
<1>6. CASE GetOverrides(p)
  BY <1>6, <1>1, <1>2, <1>3 DEF GetOverrides, Read, Step
<1> QED BY <1>4, <1>5, <1>6

\* The end of a request; a login may leave what it read in the cache.
LEMMA ReturnSafe ==
  ASSUME Safe, NEW p \in Procs, UNCHANGED <<version, quiet>>, Return(p),
         cache' = cache \/ (pc[p] = "set" /\ cache' = found[p])
  PROVE  Safe'
<1> USE PermissionAssumption, NoneAssumption DEF Safe, Return
<1>1. Zero \in Merged /\ AtLeast(version, Zero) /\ "idle" \in PC
  BY SMT DEF Zero, Merged, AtLeast, TypeOK, PC
<1>2. cache' \in Merged \cup {None} /\ (cache' # None => AtLeast(version, cache') /\ AtLeast(cache', quiet))
  <2>1. CASE cache' = cache
    BY <2>1 DEF TypeOK, CacheNoOlderThanQuiet
  <2>2. CASE pc[p] = "set" /\ cache' = found[p]
    <3>1. p \in Logins /\ HasRead("set") = Tables
      BY <2>2 DEF TypeOK, HasRead
    <3>2. AtLeast(found[p], quiet)
      BY <2>2, <3>1 DEF ReadsAreRecent, Floor, AtLeast
    <3> QED BY <2>2, <3>2 DEF TypeOK
  <2> QED BY <2>1, <2>2
<1>3. TypeOK'
  BY <1>1, <1>2, SMT DEF TypeOK, AtLeast
<1>4. ReadsAreRecent'
  <2> SUFFICES ASSUME NEW q \in Procs, pc'[q] # "idle"
               PROVE  /\ AtLeast(quiet, Floor(q))'
                      /\ \A t \in HasRead(pc'[q]) : found'[q][t] >= Floor(q)'[t]
    BY DEF ReadsAreRecent
  <2>1. q # p /\ pc'[q] = pc[q] /\ found'[q] = found[q] /\ since'[q] = since[q]
    BY DEF TypeOK
  <2>2. Floor(q)' = Floor(q)
    BY <2>1 DEF Floor
  <2> QED BY <2>1, <2>2 DEF ReadsAreRecent, AtLeast
<1>5. ChecksOnlyAnswer'
  BY DEF ChecksOnlyAnswer, TypeOK
<1> QED BY <1>2, <1>3, <1>4, <1>5 DEF CacheNoOlderThanQuiet, AtLeast

\* Safe is kept by every step.
LEMMA NextSafe == Safe /\ [Next]_vars => Safe'
<1> SUFFICES ASSUME Safe, [Next]_vars PROVE Safe'
  OBVIOUS
<1>1. ASSUME NEW t \in Tables, Change(t) PROVE Safe'
  BY <1>1, ChangeSafe
<1>2. ASSUME NEW l \in Logins, LoginStep(l) PROVE Safe'
  <2>1. CASE CacheUserPermissions(l)
    BY <2>1, ReturnSafe DEF CacheUserPermissions, Procs
  <2> QED BY <1>2, <2>1, InvalidateSafe, InvalidateFailsSafe DEF LoginStep
<1>3. ASSUME NEW c \in Checks, CheckStep(c) PROVE Safe'
  <2>1. CASE Answer(c)
    BY <2>1, ReturnSafe DEF Answer, Procs
  <2> QED BY <1>3, <2>1, BeginCheckSafe DEF CheckStep
<1>4. ASSUME NEW p \in Procs, Permissions(p) PROVE Safe'
  <2>1. CASE Fail(p)
    BY <2>1, ReturnSafe DEF Fail
  <2> QED BY <1>4, <2>1, GetCachedSafe, ReadTableSafe DEF Permissions
<1>5. CASE Expire
  BY <1>5, NoneAssumption DEF Safe, Expire, TypeOK, CacheNoOlderThanQuiet, ReadsAreRecent, ChecksOnlyAnswer, Floor, AtLeast
<1>6. CASE UNCHANGED vars
  BY <1>6 DEF vars, Safe, TypeOK, CacheNoOlderThanQuiet, ReadsAreRecent, ChecksOnlyAnswer, Floor, AtLeast
<1> QED BY <1>1, <1>2, <1>3, <1>4, <1>5, <1>6 DEF Next

\* The permissions in the cache are never older than the last login that had
\* the key to itself when it dropped it.
THEOREM StalenessNeedsOverlap == Spec => []CacheNoOlderThanQuiet
<1>1. Safe => CacheNoOlderThanQuiet
  BY DEF Safe
<1> QED BY <1>1, InitSafe, NextSafe, PTL DEF Spec

\* Nor are the permissions that a check decides on older than the last such
\* login before the check.
THEOREM ChecksAreRecent == Spec => []AnswersNoOlderThanQuiet
<1>1. Safe => AnswersNoOlderThanQuiet
  <2> SUFFICES ASSUME Safe, NEW c \in Checks, pc[c] = "answer"
               PROVE  AtLeast(found[c], since[c])
    BY DEF AnswersNoOlderThanQuiet
  <2>1. c \in Procs /\ c \notin Logins /\ HasRead("answer") = Tables
    BY PermissionAssumption DEF Procs, HasRead
  <2> QED BY <2>1 DEF Safe, ReadsAreRecent, Floor, AtLeast
<1> QED BY <1>1, InitSafe, NextSafe, PTL DEF Spec
=============================================================================
