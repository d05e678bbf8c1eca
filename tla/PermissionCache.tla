-------------------------- MODULE PermissionCache ---------------------------
(***************************************************************************)
(* The permissions of one user: three tables that administrators change,   *)
(* and the merged set that Redis keeps under permission:<user>.  A login   *)
(* or a refresh drops the key, reads the permissions and caches them; a    *)
(* check of the middleware reads the key and, without one, the tables, one *)
(* after the other.  A table is its version, a merged set the versions it  *)
(* was built from.                                                         *)
(***************************************************************************)
EXTENDS Naturals

CONSTANTS
  Logins,      \* slots: logins and refreshes of the user in progress
  Checks,      \* slots: requests being authorised by RequiredPermission
  DelFails,    \* whether Redis may refuse to drop the key
  MaxVersion,  \* bound: changes of a table
  None         \* no key in Redis

ASSUME PermissionAssumption ==
  /\ Logins \cap Checks = {}
  /\ DelFails \in BOOLEAN
  /\ MaxVersion \in Nat

Procs == Logins \cup Checks
Tables == {"userRoles", "rolePermissions", "overrides"}
Merged == [Tables -> 0..MaxVersion]

ASSUME NoneAssumption == None \notin Merged

VARIABLES
  version,  \* [Tables -> how often the table has changed]
  cache,    \* permission:<user>
  pc,       \* [Procs -> the next step]
  found,    \* [Procs -> the permissions as far as they are read]
  quiet,    \* history: the tables when a login last had the key to itself
  since     \* [Procs -> what the tables, or for a check quiet, were at its start]

vars == <<version, cache, pc, found, quiet, since>>

PC == {"idle", "get", "userRoles", "rolePermissions", "overrides", "set", "answer"}

Zero == [t \in Tables |-> 0]
AtLeast(f, g) == \A t \in Tables : f[t] >= g[t]

Init ==
  /\ version = Zero
  /\ cache = None
  /\ pc = [p \in Procs |-> "idle"]
  /\ found = [p \in Procs |-> Zero]
  /\ quiet = Zero
  /\ since = [p \in Procs |-> Zero]

-----------------------------------------------------------------------------
Step(p, from, to) == pc[p] = from /\ pc' = [pc EXCEPT ![p] = to]

Return(p) == /\ pc' = [pc EXCEPT ![p] = "idle"]
             /\ found' = [found EXCEPT ![p] = Zero]
             /\ since' = [since EXCEPT ![p] = Zero]

\* Logins cache the merged set, checks decide on it.
Merge(p) == IF p \in Logins THEN "set" ELSE "answer"

-----------------------------------------------------------------------------
(***************************************************************************)
(* Mistakes that the properties must notice; the specification uses none.  *)
(***************************************************************************)
\* The usual cache-aside: a check that misses the key fills it.
AnswerAndFill(c) ==
  /\ pc[c] = "answer"
  /\ cache' = found[c]
  /\ Return(c)
  /\ UNCHANGED <<version, quiet>>

\* A login that trusts the key it finds.
InvalidateNothing(l) ==
  /\ Step(l, "idle", "get")
  /\ since' = [since EXCEPT ![l] = version]
  /\ quiet' = IF \A m \in Logins : pc[m] = "idle" THEN version ELSE quiet
  /\ UNCHANGED <<version, cache, found>>

-----------------------------------------------------------------------------
\* Roles and permissions are changed in the database; nothing in the program
\* tells the cache.
Change(t) ==
  /\ version[t] < MaxVersion
  /\ version' = [version EXCEPT ![t] = @ + 1]
  /\ UNCHANGED <<cache, pc, found, quiet, since>>

\* InvalidateUserPermissions, at the end of Login and of RefreshToken.
Invalidate(l) ==
  /\ Step(l, "idle", "get")
  /\ cache' = None
  /\ since' = [since EXCEPT ![l] = version]
  /\ quiet' = IF \A m \in Logins : pc[m] = "idle" THEN version ELSE quiet
  /\ UNCHANGED <<version, found>>

\* The error is logged and the login goes on.
InvalidateFails(l) ==
  /\ DelFails
  /\ Step(l, "idle", "get")
  /\ since' = [since EXCEPT ![l] = version]
  /\ UNCHANGED <<version, cache, found, quiet>>

\* HasPermission
BeginCheck(c) ==
  /\ Step(c, "idle", "get")
  /\ since' = [since EXCEPT ![c] = quiet]
  /\ UNCHANGED <<version, cache, found, quiet>>

\* GetCachedUserPermissions, for the check and for CacheAllUserPermissions.
\* A key that Redis cannot deliver is a key that is not there.
GetCached(p) ==
  /\ \/ cache # None /\ Step(p, "get", Merge(p)) /\ found' = [found EXCEPT ![p] = cache]
     \/ Step(p, "get", "userRoles") /\ UNCHANGED found
  /\ UNCHANGED <<version, cache, quiet, since>>

\* The three queries, each a transaction of its own.
Read(p, t, next) ==
  /\ Step(p, t, next)
  /\ found' = [found EXCEPT ![p][t] = version[t]]
  /\ UNCHANGED <<version, cache, quiet, since>>

GetUserRoles(p) == Read(p, "userRoles", "rolePermissions")
GetRolePermissions(p) == Read(p, "rolePermissions", "overrides")
GetOverrides(p) == Read(p, "overrides", Merge(p))

CacheUserPermissions(l) ==
  /\ pc[l] = "set"
  /\ cache' = found[l]
  /\ Return(l)
  /\ UNCHANGED <<version, quiet>>

Answer(c) ==
  /\ pc[c] = "answer"
  /\ Return(c)
  /\ UNCHANGED <<version, cache, quiet>>

\* A query fails, or the command that sets the key: the request fails too.
Fail(p) ==
  /\ pc[p] \in PC \ {"idle", "answer"}
  /\ Return(p)
  /\ UNCHANGED <<version, cache, quiet>>

\* The key outlives SessionDuration.
Expire == cache' = None /\ UNCHANGED <<version, pc, found, quiet, since>>

LoginStep(l) == Invalidate(l) \/ InvalidateFails(l) \/ CacheUserPermissions(l)
CheckStep(c) == BeginCheck(c) \/ Answer(c)
Permissions(p) ==
  GetCached(p) \/ GetUserRoles(p) \/ GetRolePermissions(p) \/ GetOverrides(p) \/ Fail(p)

Next ==
  \/ \E t \in Tables : Change(t)
  \/ \E l \in Logins : LoginStep(l)
  \/ \E c \in Checks : CheckStep(c)
  \/ \E p \in Procs : Permissions(p)
  \/ Expire

Spec == Init /\ [][Next]_vars

-----------------------------------------------------------------------------
(***************************************************************************)
(* Properties                                                              *)
(***************************************************************************)
\* What is read or cached is of the past of the tables.
TypeOK ==
  /\ version \in Merged
  /\ cache \in Merged \cup {None}
  /\ pc \in [Procs -> PC]
  /\ found \in [Procs -> Merged]
  /\ quiet \in Merged
  /\ since \in [Procs -> Merged]
  /\ cache # None => AtLeast(version, cache)
  /\ \A p \in Procs : AtLeast(version, found[p]) /\ (pc[p] = "set" => p \in Logins)

\* Permissions grow old in the cache only along an unbroken chain of logins
\* that overlap: none is older than the last login that dropped the key while
\* no other login or refresh of the user was in progress.  A failing Redis
\* does not change that.
CacheNoOlderThanQuiet == cache # None => AtLeast(cache, quiet)

\* A check is decided on permissions no older than the last such login before
\* the check, however slowly it reads.
AnswersNoOlderThanQuiet ==
  \A c \in Checks : pc[c] = "answer" => AtLeast(found[c], since[c])

=============================================================================
