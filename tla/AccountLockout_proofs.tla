------------------------ MODULE AccountLockout_proofs -----------------------
(***************************************************************************)
(* Proofs about AccountLockout, for any number of logins.  Once the row    *)
(* has counted MaxAttempts failures, a login can compare at most two more  *)
(* wrong passwords: one while it knows less than the limit, one before it  *)
(* locks the account itself.  Credit counts what is left of both.          *)
(***************************************************************************)
EXTENDS AccountLockout, FiniteSetTheorems, TLAPS

Deciding == {"checkExpired", "checkLock", "reset", "verify"}

Counting == {r \in Logins : pc[r] = "increment"}

\* The logins that have a guess left and do not know that the limit is reached.
Stale == {r \in Logins : pc[r] \in Deciding /\ known[r] < MaxAttempts}

\* The logins that are not past the comparison that makes them lock.
Open == {r \in Logins : ~(pc[r] \in {"increment", "lock"} /\ known[r] >= MaxAttempts)}

Credit == Cardinality(Stale) + Cardinality(Open)

BurstIsPaid ==
  attempts >= MaxAttempts =>
    burst + Credit <= MaxAttempts + 2 * Cardinality(Logins) - 1 + faults

Safe == TypeOK /\ burst <= guesses /\ EveryGuessCounts /\ BurstIsPaid

-----------------------------------------------------------------------------
(***************************************************************************)
(* Counting subsets of Logins                                              *)
(***************************************************************************)
LEMMA SubsetCounts ==
  ASSUME NEW S \in SUBSET Logins, NEW T \in SUBSET Logins
  PROVE  /\ Cardinality(S) \in Nat
         /\ T \subseteq S => Cardinality(T) <= Cardinality(S)
         /\ S \cap T = {} => Cardinality(S) + Cardinality(T) <= Cardinality(Logins)
<1>1. IsFiniteSet(S) /\ IsFiniteSet(T) /\ IsFiniteSet(Logins)
  BY LockoutAssumption, FS_Subset
<1>2. Cardinality(S) \in Nat /\ Cardinality(T) \in Nat
  BY <1>1, FS_CardinalityType
<1>3. T \subseteq S => Cardinality(T) <= Cardinality(S)
  BY <1>1, FS_Subset
<1>4. ASSUME S \cap T = {}
      PROVE  Cardinality(S) + Cardinality(T) <= Cardinality(Logins)
  <2>1. Cardinality(S \cup T) = Cardinality(S) + Cardinality(T) - Cardinality(S \cap T)
    BY <1>1, FS_Union
  <2>2. Cardinality(S \cap T) = 0
    BY <1>4, FS_EmptySet
  <2>3. Cardinality(S \cup T) <= Cardinality(Logins)
    BY <1>1, FS_Subset
  <2> QED BY <1>2, <2>1, <2>2, <2>3
<1> QED BY <1>2, <1>3, <1>4

LEMMA OneLogin ==
  ASSUME NEW S \in SUBSET Logins, NEW T \in SUBSET Logins, NEW r \in Logins
  PROVE  /\ T \subseteq S \cup {r} => Cardinality(T) <= Cardinality(S) + 1
         /\ r \in S /\ T \subseteq S \ {r} => Cardinality(T) <= Cardinality(S) - 1
<1>1. IsFiniteSet(S) /\ IsFiniteSet(S \cup {r}) /\ IsFiniteSet(S \ {r})
  BY LockoutAssumption, FS_Subset, FS_AddElement, FS_RemoveElement
<1>2. Cardinality(S) \in Nat /\ Cardinality(T) \in Nat
  BY SubsetCounts
<1>3. Cardinality(S \cup {r}) <= Cardinality(S) + 1
  BY <1>1, <1>2, FS_AddElement
<1>4. r \in S => Cardinality(S \ {r}) = Cardinality(S) - 1
  BY <1>1, FS_RemoveElement
<1>5. T \subseteq S \cup {r} => Cardinality(T) <= Cardinality(S \cup {r})
  BY <1>1, FS_Subset
<1>6. T \subseteq S \ {r} => Cardinality(T) <= Cardinality(S \ {r})
  BY <1>1, FS_Subset
<1>7. Cardinality(S \cup {r}) \in Nat
  BY <1>1, FS_CardinalityType
<1> QED BY <1>2, <1>3, <1>4, <1>5, <1>6, <1>7

LEMMA Countable ==
  /\ Cardinality(Logins) \in Nat
  /\ Cardinality(Stale) \in Nat /\ Cardinality(Open) \in Nat /\ Cardinality(Counting) \in Nat
  /\ Cardinality(Stale) <= Cardinality(Logins)
  /\ Cardinality(Open) <= Cardinality(Logins)
<1>1. /\ Logins \in SUBSET Logins /\ Stale \in SUBSET Logins /\ Open \in SUBSET Logins
      /\ Counting \in SUBSET Logins
  BY DEF Stale, Open, Counting
<1> QED BY <1>1, SubsetCounts

-----------------------------------------------------------------------------
(***************************************************************************)
(* Types                                                                   *)
(***************************************************************************)
LEMMA InitType == Init => TypeOK
BY LockoutAssumption DEF Init, TypeOK, PC, IsLocked

LEMMA LoginType ==
  ASSUME TypeOK, NEW r \in Logins, LoginStep(r)
  PROVE  TypeOK'
<1> USE LockoutAssumption DEF TypeOK, PC, row, copy
<1>1. ASSUME NEW tried \in {"right", "wrong"}, Fetch(r, tried) PROVE TypeOK'
  BY <1>1 DEF Fetch, Step, IsLocked
<1>2. CASE CheckExpiredLock(r)
  BY <1>2 DEF CheckExpiredLock, Step, IsLocked
<1>3. CASE CheckLock(r)
  BY <1>3 DEF CheckLock, Step, Return, IsLocked
<1>4. CASE ResetExpiredLock(r)
  BY <1>4 DEF ResetExpiredLock, Step, IsLocked
<1>5. CASE VerifyPassword(r)
  BY <1>5 DEF VerifyPassword, Step, IsLocked
<1>6. CASE IncrementFailedLoginAttempts(r)
  BY <1>6 DEF IncrementFailedLoginAttempts, Return, IsLocked
<1>7. CASE LockUser(r)
  BY <1>7 DEF LockUser, Return, IsLocked
<1>8. CASE UpdateUserLoginInfo(r)
  BY <1>8 DEF UpdateUserLoginInfo, Return, IsLocked
<1>9. CASE StatementFails(r)
  BY <1>9 DEF StatementFails, Return, IsLocked
<1> QED BY <1>1, <1>2, <1>3, <1>4, <1>5, <1>6, <1>7, <1>8, <1>9 DEF LoginStep

LEMMA TickType == TypeOK /\ Tick => TypeOK'
BY LockoutAssumption DEF TypeOK, PC, row, copy, Tick, IsLocked

\* The counters stay within their bounds, and no login compares passwords on a
\* copy that is locked.
THEOREM TypeCorrect == Spec => []TypeOK
<1>1. TypeOK /\ [Next]_vars => TypeOK'
  <2> SUFFICES ASSUME TypeOK, [Next]_vars PROVE TypeOK'
    OBVIOUS
  <2>1. CASE UNCHANGED vars
    BY <2>1 DEF TypeOK, vars, row, copy, IsLocked
  <2> QED BY <2>1, TickType, LoginType DEF Next
<1> QED BY InitType, <1>1, PTL DEF Spec

-----------------------------------------------------------------------------
(***************************************************************************)
(* One action each: who is left in Stale, Open and Counting                *)
(***************************************************************************)
LEMMA FetchSafe ==
  ASSUME Safe, TypeOK', NEW r \in Logins, NEW tried \in {"right", "wrong"}, Fetch(r, tried)
  PROVE  Safe'
<1> USE LockoutAssumption DEF Safe, TypeOK, Fetch, Step, row
<1>1. Counting' = Counting /\ Open' \subseteq Open
  BY DEF Counting, Open
<1>2. attempts >= MaxAttempts => Stale' \subseteq Stale
  BY DEF Stale, Deciding
<1> QED BY <1>1, <1>2, Countable, SubsetCounts
        DEF EveryGuessCounts, BurstIsPaid, Credit, Counting, Stale, Open

\* An action that leaves the counters alone, and moves nobody into a set.
LEMMA QuietSafe ==
  ASSUME Safe, TypeOK', UNCHANGED <<attempts, guesses, burst, faults>>,
         Counting' = Counting, Open' \subseteq Open,
         Stale' \subseteq Stale
  PROVE  Safe'
<1>1. /\ Stale \in SUBSET Logins /\ Stale' \in SUBSET Logins
      /\ Open \in SUBSET Logins /\ Open' \in SUBSET Logins
  BY DEF Stale, Open
<1>2. Cardinality(Stale') <= Cardinality(Stale) /\ Cardinality(Open') <= Cardinality(Open)
  BY <1>1, SubsetCounts
<1>3. Cardinality(Stale') \in Nat /\ Cardinality(Open') \in Nat
  BY <1>1, SubsetCounts
<1>4. burst' <= guesses' /\ EveryGuessCounts'
  BY DEF Safe, EveryGuessCounts, Counting
<1>5. BurstIsPaid'
  BY <1>2, <1>3, Countable, LockoutAssumption DEF Safe, BurstIsPaid, Credit, TypeOK
<1> QED BY <1>4, <1>5 DEF Safe

LEMMA CheckSafe ==
  ASSUME Safe, TypeOK', NEW r \in Logins, CheckExpiredLock(r) \/ CheckLock(r)
  PROVE  Safe'
<1> USE LockoutAssumption DEF Safe, TypeOK, Step
<1>1. CASE CheckExpiredLock(r)
  <2>1. Counting' = Counting /\ Open' \subseteq Open /\ Stale' \subseteq Stale
    BY <1>1 DEF CheckExpiredLock, Counting, Open, Stale, Deciding, copy
  <2> QED BY <1>1, <2>1, QuietSafe DEF CheckExpiredLock, row
<1>2. CASE CheckLock(r)
  <2>1. Counting' = Counting /\ Open' \subseteq Open /\ Stale' \subseteq Stale
    BY <1>2 DEF CheckLock, Return, Counting, Open, Stale, Deciding, copy
  <2> QED BY <1>2, <2>1, QuietSafe DEF CheckLock, row
<1> QED BY <1>1, <1>2

\* The count is reset, by a login that counts none.
LEMMA ResetSafe ==
  ASSUME Safe, TypeOK', NEW r \in Logins, ResetExpiredLock(r) \/ UpdateUserLoginInfo(r)
  PROVE  Safe'
<1>1. attempts' = 0 /\ guesses' = 0 /\ burst' = 0 /\ faults' = faults
  BY DEF ResetExpiredLock, UpdateUserLoginInfo
<1>2. Counting' \in SUBSET Logins
  BY DEF Counting
<1>3. Cardinality(Counting') \in Nat
  BY <1>2, SubsetCounts
<1> QED BY <1>1, <1>3, LockoutAssumption
        DEF Safe, TypeOK, EveryGuessCounts, BurstIsPaid, Counting

\* A wrong guess is paid with the credit of the login that makes it.
LEMMA VerifySafe ==
  ASSUME Safe, TypeOK', NEW r \in Logins, VerifyPassword(r)
  PROVE  Safe'
<1> USE LockoutAssumption DEF Safe, TypeOK, VerifyPassword, Step, row, copy
<1>1. CASE password[r] = "right"
  <2>1. Counting' = Counting /\ Open' \subseteq Open /\ Stale' \subseteq Stale
    BY <1>1 DEF Counting, Open, Stale, Deciding
  <2> QED BY <1>1, <2>1, QuietSafe
<1>2. CASE password[r] # "right"
  <2>1. guesses' = guesses + 1 /\ burst' = burst + 1 /\ UNCHANGED <<attempts, faults>>
    BY <1>2
  <2>2. /\ Stale \in SUBSET Logins /\ Stale' \in SUBSET Logins
        /\ Open \in SUBSET Logins /\ Open' \in SUBSET Logins
        /\ Counting \in SUBSET Logins /\ Counting' \in SUBSET Logins
    BY DEF Stale, Open, Counting
  <2>3. Counting \subseteq Counting' \ {r} /\ r \in Counting'
    BY <1>2 DEF Counting
  <2>4. Cardinality(Counting) <= Cardinality(Counting') - 1
    BY <2>2, <2>3, OneLogin
  <2>5. /\ Cardinality(Stale') \in Nat /\ Cardinality(Open') \in Nat
        /\ Cardinality(Counting') \in Nat
    BY <2>2, SubsetCounts
  <2>6. EveryGuessCounts'
    BY <2>1, <2>4, <2>5, Countable DEF EveryGuessCounts, Counting
  <2>7. Credit' <= Credit - 1
    <3>1. CASE known[r] < MaxAttempts
      <4>1. r \in Stale /\ Stale' \subseteq Stale \ {r} /\ Open' \subseteq Open
        BY <1>2, <3>1 DEF Stale, Open, Deciding
      <4>2. Cardinality(Stale') <= Cardinality(Stale) - 1
        BY <2>2, <4>1, OneLogin
      <4>3. Cardinality(Open') <= Cardinality(Open)
        BY <2>2, <4>1, SubsetCounts
      <4> QED BY <4>2, <4>3, <2>5, Countable DEF Credit
    <3>2. CASE known[r] >= MaxAttempts
      <4>1. r \in Open /\ Open' \subseteq Open \ {r} /\ Stale' \subseteq Stale
        BY <1>2, <3>2 DEF Stale, Open, Deciding
      <4>2. Cardinality(Open') <= Cardinality(Open) - 1
        BY <2>2, <4>1, OneLogin
      <4>3. Cardinality(Stale') <= Cardinality(Stale)
        BY <2>2, <4>1, SubsetCounts
      <4> QED BY <4>2, <4>3, <2>5, Countable DEF Credit
    <3> QED BY <3>1, <3>2
  <2>8. Credit \in Int /\ Credit' \in Int
    BY <2>5, Countable DEF Credit
  <2>9. BurstIsPaid'
    BY <2>1, <2>7, <2>8, Countable DEF BurstIsPaid
  <2> QED BY <2>1, <2>6, <2>9
<1> QED BY <1>1, <1>2

\* The attempt that reaches the limit starts the account of the credit: who is
\* about to count a guess has none left.
LEMMA IncrementSafe ==
  ASSUME Safe, TypeOK', NEW r \in Logins, IncrementFailedLoginAttempts(r)
  PROVE  Safe'
<1> USE LockoutAssumption DEF Safe, TypeOK, IncrementFailedLoginAttempts, Return, ShouldLockAccount
<1>1. attempts' = attempts + 1 /\ UNCHANGED <<guesses, burst, faults>>
  OBVIOUS
<1>2. /\ Stale \in SUBSET Logins /\ Stale' \in SUBSET Logins
      /\ Open \in SUBSET Logins /\ Open' \in SUBSET Logins
      /\ Counting \in SUBSET Logins /\ Counting' \in SUBSET Logins
  BY DEF Stale, Open, Counting
<1>3. /\ Cardinality(Stale') \in Nat /\ Cardinality(Open') \in Nat
      /\ Cardinality(Counting') \in Nat
      /\ Cardinality(Open') <= Cardinality(Logins)
  BY <1>2, SubsetCounts
<1>4. Counting \subseteq Counting' \cup {r} /\ Stale' \subseteq Stale /\ Open' \subseteq Open
  BY DEF Counting, Stale, Open, Deciding
<1>5. /\ Cardinality(Counting) <= Cardinality(Counting') + 1
      /\ Cardinality(Stale') <= Cardinality(Stale)
      /\ Cardinality(Open') <= Cardinality(Open)
  BY <1>2, <1>4, OneLogin, SubsetCounts
<1>6. EveryGuessCounts'
  BY <1>1, <1>3, <1>5, Countable DEF EveryGuessCounts, Counting
<1>7. BurstIsPaid'
  <2>1. CASE attempts >= MaxAttempts
    BY <2>1, <1>1, <1>3, <1>5, Countable DEF BurstIsPaid, Credit
  <2>2. CASE attempts < MaxAttempts
    <3>1. Stale \cap Counting = {}
      BY DEF Stale, Counting, Deciding
    <3>2. Cardinality(Stale) + Cardinality(Counting) <= Cardinality(Logins)
      BY <3>1, <1>2, SubsetCounts
    <3>3. burst <= attempts + Cardinality(Counting) + faults
      BY Countable DEF EveryGuessCounts, Counting
    <3> QED BY <2>2, <3>2, <3>3, <1>1, <1>3, <1>5, Countable DEF BurstIsPaid, Credit
  <2> QED BY <2>1, <2>2
<1> QED BY <1>1, <1>6, <1>7

LEMMA LockSafe ==
  ASSUME Safe, TypeOK', NEW r \in Logins, LockUser(r)
  PROVE  Safe'
<1> USE LockoutAssumption DEF Safe, TypeOK, LockUser, Return
<1>1. Counting' = Counting
  BY DEF Counting
<1>2. Stale' \in SUBSET Logins /\ Open' \in SUBSET Logins
  BY DEF Stale, Open
<1>3. /\ Cardinality(Stale') \in Nat /\ Cardinality(Stale') <= Cardinality(Logins)
      /\ Cardinality(Open') \in Nat /\ Cardinality(Open') <= Cardinality(Logins)
  BY <1>2, SubsetCounts
<1>4. BurstIsPaid'
  BY <1>3, Countable DEF BurstIsPaid, Credit
<1> QED BY <1>1, <1>4 DEF EveryGuessCounts, Counting

\* A statement that fails gives its login a second try, and is a fault more.
LEMMA FaultSafe ==
  ASSUME Safe, TypeOK', NEW r \in Logins, StatementFails(r)
  PROVE  Safe'
<1> USE LockoutAssumption DEF Safe, TypeOK, StatementFails, Return, row
<1>1. faults' = faults + 1 /\ UNCHANGED <<attempts, guesses, burst>>
  OBVIOUS
<1>2. /\ Stale \in SUBSET Logins /\ Stale' \in SUBSET Logins
      /\ Open \in SUBSET Logins /\ Open' \in SUBSET Logins
      /\ Counting \in SUBSET Logins /\ Counting' \in SUBSET Logins
  BY DEF Stale, Open, Counting
<1>3. /\ Cardinality(Stale') \in Nat /\ Cardinality(Open') \in Nat
      /\ Cardinality(Counting') \in Nat
  BY <1>2, SubsetCounts
<1>4. /\ Counting \subseteq Counting' \cup {r}
      /\ Open' \subseteq Open \cup {r}
      /\ Stale' \subseteq Stale
  BY DEF Counting, Stale, Open, Deciding
<1>5. /\ Cardinality(Counting) <= Cardinality(Counting') + 1
      /\ Cardinality(Open') <= Cardinality(Open) + 1
      /\ Cardinality(Stale') <= Cardinality(Stale)
  BY <1>2, <1>4, OneLogin, SubsetCounts
<1>6. EveryGuessCounts'
  BY <1>1, <1>3, <1>5, Countable DEF EveryGuessCounts, Counting
<1>7. BurstIsPaid'
  BY <1>1, <1>3, <1>5, Countable DEF BurstIsPaid, Credit
<1> QED BY <1>1, <1>6, <1>7

LEMMA TickSafe == Safe /\ TypeOK' /\ Tick => Safe'
<1> SUFFICES ASSUME Safe, TypeOK', Tick PROVE Safe'
  OBVIOUS
<1>1. Counting' = Counting /\ Open' = Open /\ Stale' = Stale
  BY DEF Tick, copy, Counting, Open, Stale
<1> QED BY <1>1, QuietSafe DEF Tick, row

-----------------------------------------------------------------------------
(***************************************************************************)
(* The invariant, and what follows from it                                 *)
(***************************************************************************)
LEMMA InitSafe == Init => Safe
<1> SUFFICES ASSUME Init PROVE Safe
  OBVIOUS
<1>1. TypeOK
  BY InitType
<1> QED BY <1>1, Countable, LockoutAssumption
        DEF Init, Safe, EveryGuessCounts, BurstIsPaid, Counting

LEMMA StepSafe == Safe /\ [Next]_vars => Safe'
<1> SUFFICES ASSUME Safe, [Next]_vars PROVE Safe'
  OBVIOUS
<1>1. TypeOK'
  <2>1. CASE UNCHANGED vars
    BY <2>1 DEF Safe, TypeOK, vars, row, copy, IsLocked
  <2> QED BY <2>1, TickType, LoginType DEF Next, Safe
<1>2. CASE UNCHANGED vars
  <2>1. Counting' = Counting /\ Open' = Open /\ Stale' = Stale
    BY <1>2 DEF vars, copy, Counting, Open, Stale
  <2> QED BY <2>1, <1>1, <1>2, QuietSafe DEF vars, row
<1>3. ASSUME NEW r \in Logins, LoginStep(r) PROVE Safe'
  BY <1>1, <1>3, FetchSafe, CheckSafe, ResetSafe, VerifySafe, IncrementSafe, LockSafe, FaultSafe
     DEF LoginStep
<1> QED BY <1>1, <1>2, <1>3, TickSafe DEF Next

\* The counter does not lose an attempt.
THEOREM CountsEveryGuess == Spec => []EveryGuessCounts
<1>1. Safe => EveryGuessCounts
  BY DEF Safe
<1> QED BY InitSafe, StepSafe, <1>1, PTL DEF Spec

\* However many logins run at once, the wrong passwords that are compared before
\* the account is locked, or the count reset, are bounded.
THEOREM BoundsGuesses == Spec => []GuessesAreBounded
<1>1. Safe => GuessesAreBounded
  <2> SUFFICES ASSUME Safe PROVE GuessesAreBounded
    OBVIOUS
  <2>1. CASE attempts >= MaxAttempts
    BY <2>1, Countable, LockoutAssumption
       DEF Safe, TypeOK, BurstIsPaid, Credit, GuessesAreBounded
  <2>2. CASE attempts < MaxAttempts /\ Counting # {}
    <3>1. Cardinality(Counting) <= Cardinality(Logins)
      BY SubsetCounts DEF Counting
    <3> QED BY <2>2, <3>1, Countable, LockoutAssumption
            DEF Safe, TypeOK, EveryGuessCounts, GuessesAreBounded, Counting
  <2>3. CASE attempts < MaxAttempts /\ Counting = {}
    <3>1. Cardinality(Counting) = 0
      BY <2>3, FS_EmptySet
    <3> QED BY <2>3, <3>1, Countable, LockoutAssumption
            DEF Safe, TypeOK, EveryGuessCounts, GuessesAreBounded, Counting
  <2> QED BY <2>1, <2>2, <2>3, LockoutAssumption DEF Safe, TypeOK
<1> QED BY InitSafe, StepSafe, <1>1, PTL DEF Spec

=============================================================================
