--------------------------- MODULE AccountLockout ---------------------------
(***************************************************************************)
(* Password checks against one user row: failed attempts are counted in    *)
(* SQL, and the account is locked for AccountLockDuration once there are   *)
(* too many.  Every login is a process: it reads the row once, at the      *)
(* start, and decides on that copy while other logins change the row.      *)
(***************************************************************************)
EXTENDS Naturals, FiniteSets

CONSTANTS
  Logins,        \* slots: how many logins are in progress at once
  MaxAttempts,   \* MaxFailedLoginAttempts
  LockDuration,  \* AccountLockDuration, in ticks of the clock
  MaxClock,      \* bound: the clock stops there
  MaxCount,      \* bound: failed attempts that the row counts up to
  MaxFaults,     \* bound: PostgreSQL statements that fail
  None           \* NULL in locked_until

ASSUME LockoutAssumption ==
  /\ MaxAttempts \in Nat \ {0} /\ LockDuration \in Nat \ {0}
  /\ MaxClock \in Nat /\ MaxCount \in Nat /\ MaxFaults \in Nat
  /\ None \notin Nat
  /\ IsFiniteSet(Logins)

VARIABLES
  clock,
  attempts,  \* users.failed_login_attempts
  until,     \* users.locked_until
  pc,        \* [Logins -> the next step of the login]
  known,     \* [Logins -> the failed attempts in its copy of the row]
  lock,      \* [Logins -> locked_until in its copy, or as it is about to set it]
  password,  \* [Logins -> whether the password that it came with is right]
  guesses,   \* history: wrong passwords compared since the count was reset
  burst,     \* history: those since the account was last locked or reset
  faults     \* history: statements that have failed

row == <<attempts, until>>
copy == <<known, lock, password>>
vars == <<clock, row, pc, copy, guesses, burst, faults>>

PC == {"idle", "checkExpired", "checkLock", "reset", "verify", "increment", "lock", "welcome"}

Init ==
  /\ clock = 0
  /\ attempts = 0 /\ until = None
  /\ pc = [r \in Logins |-> "idle"]
  /\ known = [r \in Logins |-> 0]
  /\ lock = [r \in Logins |-> None]
  /\ password = [r \in Logins |-> "wrong"]
  /\ guesses = 0 /\ burst = 0 /\ faults = 0

-----------------------------------------------------------------------------
Step(r, from, to) == pc[r] = from /\ pc' = [pc EXCEPT ![r] = to]

Return(r) == /\ pc' = [pc EXCEPT ![r] = "idle"]
             /\ known' = [known EXCEPT ![r] = 0]
             /\ lock' = [lock EXCEPT ![r] = None]
             /\ password' = [password EXCEPT ![r] = "wrong"]

HasExpiredLock(t) == t # None /\ clock >= t
IsLocked(t) == t # None /\ clock < t
\* A mistake to be noticed: the limit missed by one.
ShouldLockAbove(n) == n > MaxAttempts
ShouldLockAccount(n) == n >= MaxAttempts

-----------------------------------------------------------------------------
(***************************************************************************)
(* Mistakes that the properties must notice; the specification uses none.  *)
(***************************************************************************)
\* A count that is read, incremented in Go and written back.
IncrementCopy(r) ==
  /\ pc[r] = "increment"
  /\ attempts < MaxCount
  /\ attempts' = known[r] + 1
  /\ IF ShouldLockAccount(known[r])
     THEN /\ pc' = [pc EXCEPT ![r] = "lock"]
          /\ lock' = [lock EXCEPT ![r] = clock + LockDuration]
          /\ UNCHANGED <<known, password>>
     ELSE Return(r)
  /\ UNCHANGED <<clock, until, guesses, burst, faults>>

-----------------------------------------------------------------------------
\* GetUserByEmail.  A user that is missing or inactive is rejected without
\* any effect on the row, which is left out.
Fetch(r, tried) ==
  /\ Step(r, "idle", "checkExpired")
  /\ known' = [known EXCEPT ![r] = attempts]
  /\ lock' = [lock EXCEPT ![r] = until]
  /\ password' = [password EXCEPT ![r] = tried]
  /\ UNCHANGED <<clock, row, guesses, burst, faults>>

CheckExpiredLock(r) ==
  /\ Step(r, "checkExpired", IF HasExpiredLock(lock[r]) THEN "reset" ELSE "checkLock")
  /\ UNCHANGED <<clock, row, copy, guesses, burst, faults>>

\* A second reading of the clock: a lock that expires between the two is
\* neither reset nor in force.
CheckLock(r) ==
  /\ \/ ~IsLocked(lock[r]) /\ Step(r, "checkLock", "verify") /\ UNCHANGED copy
     \/ IsLocked(lock[r]) /\ pc[r] = "checkLock" /\ Return(r)
  /\ UNCHANGED <<clock, row, guesses, burst, faults>>

\* ResetExpiredLock writes whatever the row holds by now.
ResetExpiredLock(r) ==
  /\ Step(r, "reset", "verify")
  /\ attempts' = 0 /\ until' = None
  /\ known' = [known EXCEPT ![r] = 0]
  /\ lock' = [lock EXCEPT ![r] = None]
  /\ guesses' = 0 /\ burst' = 0
  /\ UNCHANGED <<clock, password, faults>>

\* bcrypt: the slow step.
VerifyPassword(r) ==
  /\ Step(r, "verify", IF password[r] = "right" THEN "welcome" ELSE "increment")
  /\ IF password[r] = "right"
     THEN UNCHANGED <<guesses, burst>>
     ELSE guesses' = guesses + 1 /\ burst' = burst + 1
  /\ UNCHANGED <<clock, row, copy, faults>>

\* The count grows in SQL, but whether to lock is decided on the copy.
IncrementFailedLoginAttempts(r) ==
  /\ pc[r] = "increment"
  /\ attempts < MaxCount
  /\ attempts' = attempts + 1
  /\ IF ShouldLockAccount(known[r])
     THEN /\ pc' = [pc EXCEPT ![r] = "lock"]
          /\ lock' = [lock EXCEPT ![r] = clock + LockDuration]
          /\ UNCHANGED <<known, password>>
     ELSE Return(r)
  /\ UNCHANGED <<clock, until, guesses, burst, faults>>

LockUser(r) ==
  /\ pc[r] = "lock"
  /\ until' = lock[r]
  /\ burst' = 0
  /\ Return(r)
  /\ UNCHANGED <<clock, attempts, guesses, faults>>

\* UpdateUserLoginInfo, before Login mints its tokens.
UpdateUserLoginInfo(r) ==
  /\ pc[r] = "welcome"
  /\ attempts' = 0 /\ until' = None
  /\ guesses' = 0 /\ burst' = 0
  /\ Return(r)
  /\ UNCHANGED <<clock, faults>>

\* The statement of the step fails, and the login with it.
StatementFails(r) ==
  /\ faults < MaxFaults
  /\ pc[r] \in {"reset", "increment", "lock", "welcome"}
  /\ faults' = faults + 1
  /\ Return(r)
  /\ UNCHANGED <<clock, row, guesses, burst>>

Tick ==
  /\ clock < MaxClock
  /\ clock' = clock + 1
  /\ UNCHANGED <<row, pc, copy, guesses, burst, faults>>

LoginStep(r) ==
  \/ \E tried \in {"right", "wrong"} : Fetch(r, tried)
  \/ CheckExpiredLock(r) \/ CheckLock(r) \/ ResetExpiredLock(r) \/ VerifyPassword(r)
  \/ IncrementFailedLoginAttempts(r) \/ LockUser(r)
  \/ UpdateUserLoginInfo(r) \/ StatementFails(r)

Next == Tick \/ \E r \in Logins : LoginStep(r)

Spec == Init /\ [][Next]_vars

-----------------------------------------------------------------------------
(***************************************************************************)
(* Properties                                                              *)
(***************************************************************************)
\* The counters stay within their bounds, and a login that compares passwords
\* takes the account for unlocked.
TypeOK ==
  /\ clock \in 0..MaxClock
  /\ attempts \in 0..MaxCount
  /\ until \in {None} \cup 0..(MaxClock + LockDuration)
  /\ pc \in [Logins -> PC]
  /\ known \in [Logins -> 0..MaxCount]
  /\ lock \in [Logins -> {None} \cup 0..(MaxClock + LockDuration)]
  /\ password \in [Logins -> {"right", "wrong"}]
  /\ guesses \in Nat /\ burst \in Nat /\ faults \in 0..MaxFaults
  /\ \A r \in Logins : pc[r] \in {"verify", "increment", "welcome"} => ~IsLocked(lock[r])

\* However many logins run at once, the wrong passwords that are compared
\* before the account is locked, or the count is reset, are bounded: the
\* allowed ones, and two more for each login in progress but the last (one
\* that read the row before the limit, one that read it before the lock).
\* Each statement that fails allows one guess more.
GuessesAreBounded ==
  burst <= MaxAttempts + 2 * Cardinality(Logins) - 1 + faults

\* The counter does not lose an attempt: every wrong password compared since
\* the reset is counted, a login is about to count it, or a statement failed.
EveryGuessCounts ==
  guesses <= attempts + Cardinality({r \in Logins : pc[r] = "increment"}) + faults
=============================================================================
