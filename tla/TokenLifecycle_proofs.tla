----------------------- MODULE TokenLifecycle_proofs ------------------------
(***************************************************************************)
(* Proofs about TokenLifecycle for every number of requests, users,        *)
(* sessions and tokens, with Redis on or off and with any operations       *)
(* failing, except where a theorem's assumption says otherwise.            *)
(*                                                                         *)
(* All of them rest on Control (TypeCorrect).  Each of the sections that   *)
(* follow adds one invariant of its own: Vetted for authentication, Swept  *)
(* for LogoutAll, Aimed for the targets of logouts, Erased for the tables, *)
(* Uncached for Logout in Redis, and Stored for the implementation of      *)
(* RevocableTokens, which comes last.                                      *)
(***************************************************************************)
EXTENDS TokenRefinement, TLAPS

(***************************************************************************)
(* The inductive invariant.                                                *)
(***************************************************************************)
StepsOf(op) ==
  CASE op = "none"      -> {"idle"}
    [] op = "login"     -> StoreSteps \cup {"respond"}
    [] op = "refresh"   -> AuthSteps \cup {"mint", "storeAccess", "cacheAccess", "respond"}
    [] op = "use"       -> AuthSteps \cup {"accepted"}
    [] op = "logout"    -> AuthSteps \cup LogoutSteps \cup {"respond"}
    [] op = "logoutAll" -> AuthSteps \cup LogoutAllSteps \cup {"respond"}

\* A request is at a step of its operation, with the locals this step reads.
WellFormed(r) ==
  LET l == loc[r] IN
  /\ pc[r] \in StepsOf(l.op)
  /\ l.op = "login" => l.tok = None /\ l.sess \in Sessions
  /\ l.op \notin {"none", "login"} =>
       l.tok \in held /\ l.sess = l.tok.sess
  /\ l.op = "login" \/ (l.op = "refresh" /\ pc[r] \notin AuthSteps \cup {"mint"}) =>
       /\ l.new \in Token
       /\ l.new.sess = l.sess
       /\ 0 < l.new.num /\ l.new.num <= issued[l.sess]
  /\ l.new # None =>
       l.op = "login" \/ (l.op = "refresh" /\ pc[r] \notin AuthSteps \cup {"mint"})
  /\ l.op = "none" => l = Blank

\* Tokens that a request is still storing are no one else's, and no client
\* has them yet.
Fresh ==
  /\ \A t \in held : 0 < issued[t.sess] /\ t.num <= issued[t.sess]
  /\ \A r \in Reqs :
       /\ loc[r].new # None => loc[r].new \notin held
       /\ loc[r].op = "login" => Refresh(loc[r].sess) \notin held
  /\ \A r, q \in Reqs : r # q =>
       /\ loc[r].new # None => loc[r].new # loc[q].new
       /\ loc[r].op = "login" /\ loc[q].op = "login" => loc[r].sess # loc[q].sess

Control == TypeOK /\ (\A r \in Reqs : WellFormed(r)) /\ Fresh

\* The store that the middleware reads.
Live == IF RedisEnabled THEN cached ELSE rows

\* What LogoutAll has already taken from that store.
SweptRequest(r) ==
  loc[r].op = "logoutAll" =>
    /\ loc[r].promise \subseteq held \cap UserTokens(Owner(loc[r].tok))
    /\ ~RedisEnabled /\ pc[r] \in {"deactivateAll", "respond"} =>
         loc[r].promise \cap rows = {}
    /\ ~RedisEnabled => pc[r] \notin {"scanTokens", "scanSessions"}
    /\ RedisEnabled /\ pc[r] = "scanTokens" =>
         loc[r].promise \cap cached \subseteq loc[r].found
    /\ RedisEnabled /\ pc[r] \in {"scanSessions", "respond"} =>
         loc[r].promise \cap cached = {}

Swept ==
  /\ revoked["logoutAll"] \subseteq held \ Live
  /\ \A r \in Reqs : SweptRequest(r)

\* How far authentication has come with a token that was dead on arrival.
VettedRequest(r) ==
  /\ pc[r] = "checkBlacklist" => RedisEnabled
  /\ loc[r].tok # None /\ ~loc[r].live =>
       /\ pc[r] \in AuthSteps
       /\ pc[r] = "checkBlacklist" => loc[r].tok \in blacklist \/ loc[r].tok \notin cached
       /\ pc[r] = "lookup" => loc[r].tok \notin Live

Vetted == \A r \in Reqs : VettedRequest(r)

-----------------------------------------------------------------------------
(***************************************************************************)
(* Types                                                                   *)
(***************************************************************************)
\* The locals of an idle request have their type.
LEMMA BlankType == Blank \in LocType
  BY DEF Blank, LocType, Ops

\* A step to a step of PC keeps pc in its type.
LEMMA StepType ==
  ASSUME TypeOK, NEW r \in Reqs, NEW from, NEW to \in PC, Step(r, from, to)
  PROVE  pc' \in [Reqs -> PC]
  BY DEF TypeOK, Step

\* So does the end of a request, which resets its locals.
LEMMA ReturnType ==
  ASSUME TypeOK, NEW r \in Reqs, Return(r)
  PROVE  /\ pc' \in [Reqs -> PC]
         /\ loc' \in [Reqs -> LocType]
  BY BlankType DEF TypeOK, Return, PC

\* The tokens that a request names are tokens.
LEMMA LocalTokens ==
  ASSUME Control, NEW r \in Reqs
  PROVE  /\ loc[r] \in LocType
         /\ loc[r].sess \in Sessions => Refresh(loc[r].sess) \in Token
         /\ pc[r] \in StoreSteps => loc[r].sess \in Sessions /\ loc[r].new \in Token
         /\ loc[r].op \notin {"none", "login"} =>
              /\ loc[r].tok \in Token
              /\ loc[r].sess \in Sessions
         /\ pc[r] \in AuthSteps \cup LogoutSteps \cup LogoutAllSteps \cup {"mint", "accepted"} =>
              loc[r].op \notin {"none", "login"}
         /\ pc[r] \in LogoutSteps => loc[r].op = "logout"
         /\ pc[r] \in LogoutAllSteps => loc[r].op = "logoutAll"
         /\ pc[r] = "mint" => loc[r].op = "refresh"
  <1>1. loc[r] \in LocType
    BY DEF Control, TypeOK
  <1>2. loc[r].sess \in Sessions => Refresh(loc[r].sess) \in Token
    BY ConstantsAssumption DEF Refresh, Token
  <1>3. WellFormed(r)
    BY DEF Control
  <1>4. pc[r] \in LogoutSteps => loc[r].op = "logout"
    BY <1>1, <1>3 DEF WellFormed, StepsOf, LocType, Ops, Logouts, LogoutSteps, LogoutAllSteps, StoreSteps, AuthSteps
  <1>5. pc[r] \in LogoutAllSteps => loc[r].op = "logoutAll"
    BY <1>1, <1>3 DEF WellFormed, StepsOf, LocType, Ops, Logouts, LogoutSteps, LogoutAllSteps, StoreSteps, AuthSteps
  <1>6. pc[r] = "mint" => loc[r].op = "refresh"
    BY <1>1, <1>3 DEF WellFormed, StepsOf, LocType, Ops, Logouts, LogoutSteps, LogoutAllSteps, StoreSteps, AuthSteps
  <1>7. pc[r] \in AuthSteps \cup {"accepted"} => loc[r].op \notin {"none", "login"}
    BY <1>1, <1>3 DEF WellFormed, StepsOf, LocType, Ops, Logouts, StoreSteps, AuthSteps
  <1>8. pc[r] \in StoreSteps => loc[r].op \in {"login", "refresh"} /\ pc[r] \notin AuthSteps \cup {"mint"}
    BY <1>1, <1>3 DEF WellFormed, StepsOf, LocType, Ops, Logouts, LogoutSteps, LogoutAllSteps, StoreSteps, AuthSteps
  <1>9. loc[r].op \notin {"none", "login"} => loc[r].tok \in Token /\ loc[r].sess \in Sessions
    BY <1>3 DEF WellFormed, Control, TypeOK, Token
  <1>10. pc[r] \in StoreSteps => loc[r].sess \in Sessions /\ loc[r].new \in Token
    BY <1>3, <1>8, <1>9 DEF WellFormed
  <1> QED
    BY <1>1, <1>2, <1>4, <1>5, <1>6, <1>7, <1>9, <1>10

\* Types survive the steps of Login and RefreshToken.
LEMMA MintingTypes ==
  ASSUME Control, NEW r \in Reqs, Minting(r)
  PROVE  TypeOK'
  <1> USE DEF stores, history
  <1>0. TypeOK
    BY DEF Control
  <1>1. ASSUME NEW s \in Sessions, BeginLogin(r, s) PROVE TypeOK'
    <2>0. Access(s, 1) \in Token
      BY <1>1, ConstantsAssumption DEF BeginLogin, Access, Token
    <2>1. [Blank EXCEPT !.op = "login", !.sess = s, !.new = Access(s, 1)] \in LocType
      BY <2>0, BlankType DEF LocType, Ops
    <2> QED
      BY <1>0, <1>1, <2>1, StepType, ConstantsAssumption DEF BeginLogin, TypeOK, PC, StoreSteps
  <1>2. CASE CreateSession(r)
    BY <1>0, <1>2, StepType DEF CreateSession, TypeOK, PC, StoreSteps
  <1>3. CASE StoreAccess(r)
    BY <1>0, <1>3, StepType, LocalTokens DEF StoreAccess, Step, AfterAccess, TypeOK, PC, StoreSteps
  <1>4. CASE CacheAccess(r)
    BY <1>0, <1>4, StepType, LocalTokens DEF CacheAccess, Step, AfterAccess, TypeOK, PC, StoreSteps
  <1>5. CASE StoreRefresh(r)
    BY <1>0, <1>5, StepType, LocalTokens DEF StoreRefresh, Step, TypeOK, PC, StoreSteps
  <1>6. CASE CacheRefresh(r)
    BY <1>0, <1>6, StepType, LocalTokens DEF CacheRefresh, Step, TypeOK, PC, StoreSteps
  <1>7. CASE CacheSession(r)
    BY <1>0, <1>7, StepType, LocalTokens DEF CacheSession, Step, TypeOK, PC, StoreSteps
  <1>8. CASE MintAccess(r)
    <2> DEFINE s == loc[r].sess
               t == Access(s, issued[s] + 1)
    <2>1. s \in Sessions /\ loc[r] \in LocType
      BY <1>8, LocalTokens DEF MintAccess, Step
    <2>2. issued[s] + 1 \in 0..MaxAccess
      BY <1>0, <1>8, <2>1, ConstantsAssumption DEF MintAccess, TypeOK
    <2>3. t \in Token
      BY <2>1, <2>2 DEF Access, Token
    <2>4. [loc[r] EXCEPT !.new = t] \in LocType
      BY <2>1, <2>3 DEF LocType
    <2>5. loc' = [loc EXCEPT ![r] = [loc[r] EXCEPT !.new = t]]
      BY <1>0, <1>8 DEF MintAccess, TypeOK
    <2>6. pc' \in [Reqs -> PC]
      BY <1>0, <1>8, StepType DEF MintAccess, PC, StoreSteps
    <2> QED
      BY <1>0, <1>8, <2>2, <2>4, <2>5, <2>6 DEF MintAccess, TypeOK
  <1>9. CASE RejectRefresh(r)
    BY <1>0, <1>9, ReturnType DEF RejectRefresh, TypeOK
  <1> QED
    BY <1>1, <1>2, <1>3, <1>4, <1>5, <1>6, <1>7, <1>8, <1>9 DEF Minting

\* Types survive the steps of the authentication middleware.
LEMMA AuthenticatingTypes ==
  ASSUME Control, NEW r \in Reqs, Authenticating(r)
  PROVE  TypeOK'
  <1> USE DEF stores, history
  <1>0. TypeOK
    BY DEF Control
  <1>1. ASSUME NEW t \in Token, NEW op \in Ops, BeginRequest(r, t, op) PROVE TypeOK'
    <2> DEFINE l == [Blank EXCEPT !.op = op, !.tok = t, !.sess = t.sess,
                                  !.promise = Promise(t, op), !.live = Usable(t)]
    <2>1. Promise(t, op) \subseteq Token
      BY <1>0, ConstantsAssumption DEF Promise, UserTokens, Refresh, Token, TypeOK
    <2>2. Usable(t) \in BOOLEAN
      BY ConstantsAssumption DEF Usable
    <2>3. l \in LocType
      BY <2>1, <2>2, BlankType DEF LocType, Token
    <2> QED
      BY <1>0, <1>1, <2>3, StepType DEF BeginRequest, TypeOK, PC, AuthSteps
  <1>2. CASE CheckBlacklist(r)
    <2>1. CASE loc[r].tok \in blacklist
      BY <1>0, <1>2, <2>1, ReturnType DEF CheckBlacklist, TypeOK
    <2>2. CASE loc[r].tok \notin blacklist
      BY <1>0, <1>2, <2>2, StepType DEF CheckBlacklist, TypeOK, PC, AuthSteps
    <2> QED
      BY <2>1, <2>2
  <1>3. CASE LookupToken(r)
    <2>1. CASE Found(loc[r].tok)
      <3>1. loc[r].op \in {"use", "refresh", "logout", "logoutAll"}
        BY <1>3, LocalTokens DEF LookupToken, AuthSteps, LocType, Ops, Logouts
      <3>2. HandlerOf(loc[r].op) \in PC
        BY <3>1 DEF HandlerOf, PC, LogoutSteps, LogoutAllSteps
      <3> QED
        BY <1>0, <1>3, <2>1, <3>2, StepType DEF LookupToken, TypeOK
    <2>2. CASE ~Found(loc[r].tok)
      BY <1>0, <1>3, <2>2, ReturnType DEF LookupToken, TypeOK
    <2> QED
      BY <2>1, <2>2
  <1>4. CASE FinishUse(r)
    BY <1>0, <1>4, ReturnType DEF FinishUse, TypeOK
  <1> QED
    BY <1>1, <1>2, <1>3, <1>4 DEF Authenticating

\* Locals that a step of a logout writes.
LEMMA PutLocals ==
  ASSUME Control, NEW r \in Reqs, NEW l \in LocType
  PROVE  [loc EXCEPT ![r] = l] \in [Reqs -> LocType]
  BY DEF Control, TypeOK

\* Writing the set that a request has found keeps the locals in their type.
LEMMA FoundType ==
  ASSUME Control, NEW r \in Reqs, NEW S \in SUBSET Token
  PROVE  /\ [loc[r] EXCEPT !.found = S] \in LocType
         /\ [loc EXCEPT ![r].found = S] \in [Reqs -> LocType]
  <1>1. loc[r] \in LocType /\ loc \in [Reqs -> LocType]
    BY LocalTokens DEF Control, TypeOK
  <1>2. [loc[r] EXCEPT !.found = S] \in LocType
    BY <1>1 DEF LocType
  <1>3. [loc EXCEPT ![r].found = S] = [loc EXCEPT ![r] = [loc[r] EXCEPT !.found = S]]
    BY <1>1
  <1> QED
    BY <1>2, <1>3, PutLocals

\* So does writing whether a deletion found something.
LEMMA OkType ==
  ASSUME Control, NEW r \in Reqs
  PROVE  \A b \in BOOLEAN : [loc EXCEPT ![r].ok = b] \in [Reqs -> LocType]
  <1>1. loc[r] \in LocType /\ loc \in [Reqs -> LocType]
    BY LocalTokens DEF Control, TypeOK
  <1> TAKE b \in BOOLEAN
  <1>2. [loc[r] EXCEPT !.ok = b] \in LocType
    BY <1>1 DEF LocType
  <1>3. [loc EXCEPT ![r].ok = b] = [loc EXCEPT ![r] = [loc[r] EXCEPT !.ok = b]]
    BY <1>1
  <1> QED
    BY <1>2, <1>3, PutLocals

\* Types survive the steps of Logout.
LEMMA LoggingOutTypes ==
  ASSUME Control, NEW r \in Reqs, LoggingOut(r)
  PROVE  TypeOK'
  <1> USE DEF stores, history, PC, LogoutSteps
  <1>0. TypeOK
    BY DEF Control
  <1>a. loc[r] \in LocType /\ loc[r].found \in SUBSET Token
    BY LocalTokens DEF LocType
  <1>b. pc[r] \in LogoutSteps => loc[r].tok \in Token /\ loc[r].sess \in Sessions /\ Refresh(loc[r].sess) \in Token
    BY LocalTokens
  <1>c. ASSUME NEW t \in Token, NEW next \in PC, Collect(r, t, next) PROVE TypeOK'
    <2> DEFINE S == loc[r].found \cup ({t} \cap (rows \ expired))
    <2>1. S \in SUBSET Token
      BY <1>a
    <2>2. loc' = [loc EXCEPT ![r].found = S] \/ loc' = loc
      BY <1>c, <1>0 DEF Collect, TypeOK
    <2> HIDE DEF S
    <2>3. loc' \in [Reqs -> LocType]
      BY <1>0, <2>1, <2>2, FoundType DEF TypeOK
    <2> QED
      BY <1>0, <1>c, <2>3 DEF Collect, TypeOK
  <1>1. CASE CollectAccess(r)
    BY <1>1, <1>b, <1>c DEF CollectAccess
  <1>2. CASE CollectRefresh(r)
    BY <1>2, <1>b, <1>c DEF CollectRefresh
  <1>3. CASE BlacklistPair(r)
    BY <1>0, <1>3, <1>a, StepType DEF BlacklistPair, TypeOK
  <1>4. CASE DeleteAccessRow(r)
    <2>1. pc' \in [Reqs -> PC]
      BY <1>0, <1>4, StepType DEF DeleteAccessRow
    <2> DEFINE b == loc[r].tok \in rows
    <2>a. loc' = [loc EXCEPT ![r].ok = b] \/ loc' = loc
      BY <1>4 DEF DeleteAccessRow
    <2>b. b \in BOOLEAN
      OBVIOUS
    <2> HIDE DEF b
    <2>2. loc' \in [Reqs -> LocType]
      BY <1>0, <2>a, <2>b, OkType DEF TypeOK
    <2> QED
      BY <1>0, <1>4, <2>1, <2>2 DEF DeleteAccessRow, TypeOK
  <1>5. CASE UncacheAccess(r)
    BY <1>0, <1>5, StepType DEF UncacheAccess, TypeOK
  <1>6. CASE DeleteRefreshRow(r)
    <2> DEFINE t == Refresh(loc[r].sess)
    <2>1. t \in Token
      BY <1>6, <1>b DEF DeleteRefreshRow
    <2>2. pc' \in [Reqs -> PC]
      BY <1>0, <1>6 DEF DeleteRefreshRow, TypeOK
    <2>3. loc' \in [Reqs -> LocType]
      <3>1. PICK b \in {TRUE, ~DBFails(r)} :
              \/ loc' = [loc EXCEPT ![r] = [[loc[r] EXCEPT !.found = IF b THEN {t} ELSE {}] EXCEPT !.dropped = t \in rows]]
              \/ loc' = [loc EXCEPT ![r] = [loc[r] EXCEPT !.found = IF b THEN {t} ELSE {}]]
        BY <1>6 DEF DeleteRefreshRow
      <3> DEFINE S == IF b THEN {t} ELSE {}
                 l == [loc[r] EXCEPT !.found = S]
                 d == t \in rows
      <3>2. S \in SUBSET Token
        BY <2>1
      <3>3. l \in LocType
        BY <3>2, FoundType
      <3>4. [l EXCEPT !.dropped = d] \in LocType
        <4>1. d \in BOOLEAN
          OBVIOUS
        <4> HIDE DEF d, l
        <4> QED
          BY <3>3, <4>1 DEF LocType
      <3>5. loc' = [loc EXCEPT ![r] = [l EXCEPT !.dropped = d]] \/ loc' = [loc EXCEPT ![r] = l]
        BY <3>1
      <3> HIDE DEF l, d, S
      <3> QED
        BY <3>3, <3>4, <3>5, PutLocals
    <2> QED
      BY <1>0, <1>6, <2>2, <2>3 DEF DeleteRefreshRow, TypeOK
  <1>7. CASE DeactivateSession(r)
    <2>1. pc' \in [Reqs -> PC]
      BY <1>0, <1>7, StepType DEF DeactivateSession
    <2> DEFINE b == loc[r].ok \/ loc[r].dropped
    <2>2. loc' = [loc EXCEPT ![r].ok = b] \/ loc' = loc
      BY <1>0, <1>7 DEF DeactivateSession, TypeOK
    <2>a. b \in BOOLEAN
      BY LocalTokens DEF LocType
    <2> HIDE DEF b
    <2>3. loc' \in [Reqs -> LocType]
      BY <1>0, <2>2, <2>a, OkType DEF TypeOK
    <2> QED
      BY <1>0, <1>7, <2>1, <2>3 DEF DeactivateSession, TypeOK
  <1>8. CASE UncacheSession(r)
    BY <1>0, <1>8, StepType DEF UncacheSession, TypeOK
  <1>9. CASE UncacheRefresh(r)
    BY <1>0, <1>9, StepType DEF UncacheRefresh, TypeOK
  <1> QED
    BY <1>1, <1>2, <1>3, <1>4, <1>5, <1>6, <1>7, <1>8, <1>9 DEF LoggingOut

\* Types survive the steps of LogoutAll.
LEMMA LoggingOutAllTypes ==
  ASSUME Control, NEW r \in Reqs, LoggingOutAll(r)
  PROVE  TypeOK'
  <1> USE DEF stores, history, PC, LogoutAllSteps
  <1>0. TypeOK
    BY DEF Control
  <1>a. loc[r] \in LocType /\ loc[r].found \in SUBSET Token
    BY LocalTokens DEF LocType
  <1>1. CASE ListTokens(r)
    BY <1>0, <1>1, StepType, FoundType DEF ListTokens, TypeOK
  <1>2. CASE BlacklistAll(r)
    BY <1>0, <1>2, <1>a, StepType DEF BlacklistAll, TypeOK
  <1>3. CASE BlacklistAllFails(r)
    BY <1>0, <1>3, <1>a, StepType DEF BlacklistAllFails, TypeOK
  <1>4. CASE DeleteRows(r)
    BY <1>0, <1>4, StepType DEF DeleteRows, TypeOK
  <1>5. CASE DeactivateAll(r)
    BY <1>0, <1>5, StepType, FoundType DEF DeactivateAll, TypeOK
  <1>6. CASE ScanTokens(r)
    <2>1. PICK t \in Token : loc' = [loc EXCEPT ![r].found = loc[r].found \ {t}]
      BY <1>0, <1>6 DEF ScanTokens, TypeOK
    <2>2. loc' \in [Reqs -> LocType]
      <3>1. loc[r].found \ {t} \in SUBSET Token
        BY <1>a
      <3> QED
        BY <2>1, <3>1, FoundType
    <2> QED
      BY <1>0, <1>6, <2>2 DEF ScanTokens, TypeOK
  <1>7. CASE ScanTokensEnd(r)
    BY <1>0, <1>7, StepType, FoundType DEF ScanTokensEnd, TypeOK
  <1>8. CASE ScanSessions(r)
    BY <1>0, <1>8, StepType DEF ScanSessions, TypeOK
  <1> QED
    BY <1>1, <1>2, <1>3, <1>4, <1>5, <1>6, <1>7, <1>8 DEF LoggingOutAll

\* What a response hands to its client.
LEMMA GivenTokens ==
  ASSUME Control, NEW r \in Reqs, pc[r] = "respond"
  PROVE  Given(loc[r]) \subseteq Token
  <1>1. WellFormed(r) /\ loc[r] \in LocType
    BY LocalTokens DEF Control
  <1>2. CASE loc[r].op = "login"
    BY <1>1, <1>2, LocalTokens DEF Given, WellFormed
  <1>3. CASE loc[r].op = "refresh"
    BY <1>1, <1>3 DEF Given, WellFormed, AuthSteps
  <1> QED
    BY <1>2, <1>3 DEF Given

\* Types survive every step.
LEMMA TypesPreserved ==
  ASSUME Control, [Next]_vars
  PROVE  TypeOK'
  <1>0. TypeOK
    BY DEF Control
  <1>1. ASSUME NEW r \in Reqs, Respond(r) PROVE TypeOK'
    <2>1. Given(loc[r]) \subseteq Token
      BY <1>1, GivenTokens DEF Respond
    <2>2. loc[r].promise \subseteq Token
      BY LocalTokens DEF LocType
    <2>3. revoked' \in [Logouts -> SUBSET Token]
      BY <1>0, <1>1, <2>2 DEF Respond, TypeOK
    <2> QED
      BY <1>0, <1>1, <2>1, <2>3, ReturnType DEF Respond, TypeOK, stores
  <1>2. ASSUME NEW r \in Reqs, ReturnError(r) PROVE TypeOK'
    BY <1>0, <1>2, ReturnType DEF ReturnError, TypeOK, stores, history
  <1>3. ASSUME NEW t \in Token, Expire(t) PROVE TypeOK'
    BY <1>0, <1>3 DEF Expire, TypeOK, history
  <1>4. CASE UNCHANGED vars
    BY <1>0, <1>4 DEF vars, stores, history, TypeOK
  <1> QED
    BY <1>1, <1>2, <1>3, <1>4, MintingTypes, AuthenticatingTypes,
       LoggingOutTypes, LoggingOutAllTypes DEF Next, RequestStep

-----------------------------------------------------------------------------
(***************************************************************************)
(* What a step leaves alone                                                *)
(***************************************************************************)
\* A request moves neither the control nor the locals of another one.
LEMMA OthersKept ==
  ASSUME Control, NEW r \in Reqs, NEW q \in Reqs \ {r}, RequestStep(r)
  PROVE  pc'[q] = pc[q] /\ loc'[q] = loc[q]
  <1>0. TypeOK
    BY DEF Control
  <1>1. CASE Minting(r)
    BY <1>0, <1>1 DEF TypeOK, Step, Return, Minting, BeginLogin, CreateSession, StoreAccess,
       CacheAccess, StoreRefresh, CacheRefresh, CacheSession, MintAccess, RejectRefresh
  <1>2. CASE Authenticating(r)
    BY <1>0, <1>2 DEF TypeOK, Step, Return, Authenticating, BeginRequest, CheckBlacklist,
       LookupToken, FinishUse
  <1>3. CASE LoggingOut(r)
    BY <1>0, <1>3 DEF TypeOK, Step, LoggingOut, Collect, CollectAccess, CollectRefresh,
       BlacklistPair, DeleteAccessRow, UncacheAccess, DeleteRefreshRow,
       DeactivateSession, UncacheSession, UncacheRefresh
  <1>4. CASE LoggingOutAll(r)
    BY <1>0, <1>4 DEF TypeOK, Step, LoggingOutAll, ListTokens, BlacklistAll,
       BlacklistAllFails, DeleteRows, DeactivateAll, ScanTokens, ScanTokensEnd, ScanSessions
  <1>5. CASE Respond(r) \/ ReturnError(r)
    BY <1>0, <1>5 DEF TypeOK, Return, Respond, ReturnError
  <1> QED
    BY <1>1, <1>2, <1>3, <1>4, <1>5 DEF RequestStep

\* Clients forget no token, and minting never goes back.  Only a response
\* hands out tokens, and only Login and RefreshToken mint them.
LEMMA Monotone ==
  ASSUME Control, NEW r \in Reqs, RequestStep(r)
  PROVE  /\ held \subseteq held'
         /\ held' = held \/ (Respond(r) /\ issued' = issued)
         /\ \A s \in Sessions : issued[s] <= issued'[s]
         /\ \/ issued' = issued
            \/ \E s \in Sessions : BeginLogin(r, s)
            \/ MintAccess(r)
  <1>0. TypeOK
    BY DEF Control
  <1>a. \A s \in Sessions : issued[s] \in Nat
    BY <1>0, ConstantsAssumption DEF TypeOK
  <1>1. ASSUME NEW s \in Sessions, BeginLogin(r, s)
        PROVE  held' = held /\ \A x \in Sessions : issued[x] <= issued'[x]
    BY <1>0, <1>1, <1>a DEF TypeOK, BeginLogin, history
  <1>2. CASE MintAccess(r)
    <2>1. loc[r].sess \in Sessions
      BY <1>2, LocalTokens DEF MintAccess, Step
    <2> QED
      BY <1>0, <1>2, <1>a, <2>1 DEF TypeOK, MintAccess, history
  <1>3. CASE Respond(r)
    BY <1>3, <1>a DEF Respond, stores
  <1>4. ASSUME issued' = issued, held' = held
        PROVE  \A s \in Sessions : issued[s] <= issued'[s]
    BY <1>4, <1>a
  <1>5. CASE Minting(r)
    <2>1. (\E s \in Sessions : BeginLogin(r, s)) \/ MintAccess(r) \/ (issued' = issued /\ held' = held)
      BY <1>5 DEF Minting, CreateSession, StoreAccess, CacheAccess, StoreRefresh,
         CacheRefresh, CacheSession, RejectRefresh, stores, history
    <2>2. MintAccess(r) => held' = held
      BY DEF MintAccess, history
    <2> QED
      BY <1>1, <1>2, <1>4, <2>1, <2>2
  <1>6. CASE Authenticating(r)
    BY <1>4, <1>6 DEF Authenticating, BeginRequest, CheckBlacklist, LookupToken, FinishUse,
       stores, history
  <1>7. CASE LoggingOut(r)
    <2>1. issued' = issued /\ held' = held
      BY <1>7 DEF LoggingOut, Collect, CollectAccess, CollectRefresh,
         BlacklistPair, DeleteAccessRow, UncacheAccess, DeleteRefreshRow,
         DeactivateSession, UncacheSession, UncacheRefresh, stores, history
    <2> QED
      BY <1>4, <2>1
  <1>8. CASE LoggingOutAll(r)
    <2>1. issued' = issued /\ held' = held
      BY <1>8 DEF LoggingOutAll, ListTokens, BlacklistAll, BlacklistAllFails,
         DeleteRows, DeactivateAll, ScanTokens, ScanTokensEnd, ScanSessions, stores, history
    <2> QED
      BY <1>4, <2>1
  <1>9. CASE ReturnError(r)
    BY <1>4, <1>9 DEF ReturnError, stores, history
  <1> QED
    BY <1>3, <1>5, <1>6, <1>7, <1>8, <1>9, <1>4 DEF RequestStep, Respond, stores

-----------------------------------------------------------------------------
(***************************************************************************)
(* The shape of a step: but for four of them, a step either ends the       *)
(* request or goes on with the same operation on the same token.           *)
(***************************************************************************)
Unminted(r) == loc[r].op = "refresh" /\ pc[r] \in AuthSteps \cup {"mint"}

SameRequest(r) ==
  /\ loc'[r].op = loc[r].op
  /\ loc'[r].tok = loc[r].tok
  /\ loc'[r].sess = loc[r].sess
  /\ loc'[r].new = loc[r].new
  /\ loc'[r].promise = loc[r].promise
  /\ loc'[r].live = loc[r].live

Advance(r) ==
  /\ held' = held /\ issued' = issued
  /\ loc[r].op # "none"
  /\ SameRequest(r)
  /\ pc'[r] \in StepsOf(loc[r].op)
  /\ Unminted(r)' = Unminted(r)
  /\ pc[r] \in AuthSteps \/ pc'[r] \in AuthSteps => CheckBlacklist(r) \/ LookupToken(r)

Finish(r) == Return(r) /\ held' = held /\ issued' = issued

\* A step of a request that is past authentication, and past minting.
LEMMA AdvanceLater ==
  ASSUME Control, NEW r \in Reqs,
         held' = held, issued' = issued, SameRequest(r),
         loc[r].op \in {"login", "logout", "logoutAll"}
           \/ (loc[r].op = "refresh" /\ pc[r] \in StoreSteps /\ pc'[r] \in StoreSteps \cup {"respond"}),
         pc'[r] \in StepsOf(loc[r].op), pc[r] \notin AuthSteps, pc'[r] \notin AuthSteps
  PROVE  Advance(r)
  <1>1. Unminted(r)' = Unminted(r)
    BY DEF Unminted, StoreSteps, AuthSteps, SameRequest
  <1> QED
    BY <1>1 DEF Advance

\* The steps of Login and RefreshToken.
LEMMA MintingShape ==
  ASSUME Control, NEW r \in Reqs, Minting(r)
  PROVE  (\E s \in Sessions : BeginLogin(r, s)) \/ MintAccess(r) \/ Finish(r) \/ Advance(r)
  <1>1. CASE RejectRefresh(r)
    BY <1>1 DEF RejectRefresh, Finish, stores, history
  <1>2. CASE CreateSession(r) \/ StoreAccess(r) \/ CacheAccess(r)
             \/ StoreRefresh(r) \/ CacheRefresh(r) \/ CacheSession(r)
    <2>1. loc[r] \in LocType /\ WellFormed(r) /\ pc \in [Reqs -> PC]
      BY LocalTokens DEF Control, TypeOK
    <2>2. /\ held' = held /\ issued' = issued /\ loc' = loc
          /\ pc[r] \in StoreSteps /\ pc'[r] \in StoreSteps \cup {"respond"}
      BY <1>2, <2>1 DEF CreateSession, StoreAccess, CacheAccess, StoreRefresh, CacheRefresh,
         CacheSession, Step, AfterAccess, StoreSteps, history
    <2>3. loc[r].op \in {"login", "refresh"}
      BY <2>1, <2>2 DEF WellFormed, StepsOf, LocType, Ops, Logouts, StoreSteps,
         AuthSteps, LogoutSteps, LogoutAllSteps
    <2>4. CASE loc[r].op = "login"
      BY <2>2, <2>4, AdvanceLater DEF SameRequest, StepsOf, StoreSteps, AuthSteps
    <2>5. CASE loc[r].op = "refresh"
      <3>1. pc[r] \in {"storeAccess", "cacheAccess"}
        BY <2>1, <2>2, <2>5 DEF WellFormed, StepsOf, StoreSteps, AuthSteps
      <3>2. pc'[r] \in {"cacheAccess", "respond"}
        BY <1>2, <2>1, <2>5, <3>1 DEF CreateSession, StoreAccess, CacheAccess, StoreRefresh,
           CacheRefresh, CacheSession, Step, AfterAccess
      <3> QED
        BY <2>2, <2>5, <3>1, <3>2, AdvanceLater DEF SameRequest, StepsOf, StoreSteps, AuthSteps
    <2> QED
      BY <2>3, <2>4, <2>5
  <1> QED
    BY <1>1, <1>2 DEF Minting

\* The steps of the authentication middleware.
LEMMA AuthenticatingShape ==
  ASSUME Control, NEW r \in Reqs, Authenticating(r)
  PROVE  (\E t \in Token, op \in Ops : BeginRequest(r, t, op)) \/ Finish(r) \/ Advance(r)
  <1>0. loc[r] \in LocType /\ WellFormed(r) /\ pc \in [Reqs -> PC]
    BY LocalTokens DEF Control, TypeOK
  <1>1. CASE CheckBlacklist(r)
    <2>1. loc[r].op \in {"refresh", "use", "logout", "logoutAll"}
      BY <1>0, <1>1, LocalTokens DEF CheckBlacklist, AuthSteps, LocType, Ops, Logouts
    <2> QED
      BY <1>0, <1>1, <2>1 DEF CheckBlacklist, Step, Finish, Advance, SameRequest, Unminted, StepsOf, AuthSteps,
         stores, history
  <1>2. CASE LookupToken(r)
    <2>1. loc[r].op \in {"refresh", "use", "logout", "logoutAll"}
      BY <1>0, <1>2, LocalTokens DEF LookupToken, AuthSteps, LocType, Ops, Logouts
    <2> QED
      BY <1>0, <1>2, <2>1 DEF LookupToken, HandlerOf, Step, Finish, Advance, SameRequest, Unminted, StepsOf,
         AuthSteps, LogoutSteps, LogoutAllSteps, stores, history
  <1>3. CASE FinishUse(r)
    BY <1>3 DEF FinishUse, Finish, stores, history
  <1> QED
    BY <1>1, <1>2, <1>3 DEF Authenticating

\* The locals that the steps of the logouts write are none of those.
LEMMA SameLocals ==
  ASSUME Control, NEW r \in Reqs,
         \/ loc' = loc
         \/ \E S : loc' = [loc EXCEPT ![r].found = S]
         \/ \E b : loc' = [loc EXCEPT ![r].ok = b]
         \/ \E S, d : loc' = [loc EXCEPT ![r] = [[loc[r] EXCEPT !.found = S] EXCEPT !.dropped = d]]
         \/ \E S : loc' = [loc EXCEPT ![r] = [loc[r] EXCEPT !.found = S]]
  PROVE  SameRequest(r)
  <1>0. loc[r] \in LocType /\ loc \in [Reqs -> LocType]
    BY LocalTokens DEF Control, TypeOK
  <1>1. CASE loc' = loc
    BY <1>1 DEF SameRequest
  <1>2. ASSUME NEW S, loc' = [loc EXCEPT ![r].found = S] PROVE SameRequest(r)
    BY <1>0, <1>2 DEF LocType, SameRequest
  <1>3. ASSUME NEW b, loc' = [loc EXCEPT ![r].ok = b] PROVE SameRequest(r)
    BY <1>0, <1>3 DEF LocType, SameRequest
  <1>4. ASSUME NEW S, NEW d,
               loc' = [loc EXCEPT ![r] = [[loc[r] EXCEPT !.found = S] EXCEPT !.dropped = d]]
        PROVE  SameRequest(r)
    BY <1>0, <1>4 DEF LocType, SameRequest
  <1>5. ASSUME NEW S, loc' = [loc EXCEPT ![r] = [loc[r] EXCEPT !.found = S]] PROVE SameRequest(r)
    BY <1>0, <1>5 DEF LocType, SameRequest
  <1> QED
    BY <1>1, <1>2, <1>3, <1>4, <1>5

\* The steps of Logout.
LEMMA LoggingOutShape ==
  ASSUME Control, NEW r \in Reqs, LoggingOut(r)
  PROVE  Advance(r)
  <1>0. loc[r] \in LocType /\ pc \in [Reqs -> PC] /\ loc \in [Reqs -> LocType]
    BY LocalTokens DEF Control, TypeOK
  <1>1. /\ held' = held /\ issued' = issued
        /\ pc[r] \in LogoutSteps
        /\ pc'[r] \in LogoutSteps \cup {"respond"}
    BY <1>0 DEF LoggingOut, Collect, CollectAccess, CollectRefresh, Step,
       BlacklistPair, DeleteAccessRow, UncacheAccess, DeleteRefreshRow,
       DeactivateSession, UncacheSession, UncacheRefresh, stores, history, LogoutSteps
  <1>2. SameRequest(r)
    <2>1. CASE DeleteRefreshRow(r)
      BY <2>1, SameLocals DEF DeleteRefreshRow
    <2>2. CASE ~DeleteRefreshRow(r)
      BY <2>2, SameLocals DEF LoggingOut, Collect, CollectAccess, CollectRefresh, Step,
         BlacklistPair, DeleteAccessRow, UncacheAccess,
         DeactivateSession, UncacheSession, UncacheRefresh
    <2> QED
      BY <2>1, <2>2
  <1> QED
    BY <1>1, <1>2, AdvanceLater, LocalTokens DEF StepsOf, AuthSteps, LogoutSteps

\* The steps of LogoutAll.
LEMMA LoggingOutAllShape ==
  ASSUME Control, NEW r \in Reqs, LoggingOutAll(r)
  PROVE  Advance(r)
  <1>0. loc[r] \in LocType /\ pc \in [Reqs -> PC] /\ loc \in [Reqs -> LocType]
    BY LocalTokens DEF Control, TypeOK
  <1>1. /\ held' = held /\ issued' = issued
        /\ pc[r] \in LogoutAllSteps
        /\ pc'[r] \in LogoutAllSteps \cup {"respond"}
    BY <1>0 DEF LoggingOutAll, ListTokens, BlacklistAll, BlacklistAllFails, Step,
       DeleteRows, DeactivateAll, ScanTokens, ScanTokensEnd, ScanSessions,
       stores, history, LogoutAllSteps
  <1>2. SameRequest(r)
    BY SameLocals DEF LoggingOutAll, ListTokens, BlacklistAll, BlacklistAllFails,
       DeleteRows, DeactivateAll, ScanTokens, ScanTokensEnd, ScanSessions, stores, history
  <1> QED
    BY <1>1, <1>2, AdvanceLater, LocalTokens DEF StepsOf, AuthSteps, LogoutAllSteps

\* The steps of a request.
LEMMA StepShape ==
  ASSUME Control, NEW r \in Reqs, RequestStep(r)
  PROVE  \/ \E s \in Sessions : BeginLogin(r, s)
         \/ \E t \in Token, op \in Ops : BeginRequest(r, t, op)
         \/ MintAccess(r)
         \/ Respond(r)
         \/ Finish(r)
         \/ Advance(r)
  <1>1. ReturnError(r) => Finish(r)
    BY DEF ReturnError, Finish, stores, history
  <1> QED
    BY <1>1, MintingShape, AuthenticatingShape, LoggingOutShape, LoggingOutAllShape DEF RequestStep

-----------------------------------------------------------------------------
(***************************************************************************)
(* The control invariant                                                   *)
(***************************************************************************)
\* Every request stays at a step of its operation, with the locals it needs.
LEMMA WellFormedPreserved ==
  ASSUME Control, NEW r \in Reqs, RequestStep(r), NEW q \in Reqs
  PROVE  WellFormed(q)'
  <1>0. /\ WellFormed(q) /\ loc[q] \in LocType /\ TypeOK /\ TypeOK'
        /\ held \subseteq held'
        /\ \A s \in Sessions : issued[s] \in Nat /\ issued'[s] \in Nat /\ issued[s] <= issued'[s]
    <2>1. TypeOK'
      BY TypesPreserved DEF Next
    <2> QED
      BY <2>1, LocalTokens, Monotone, ConstantsAssumption DEF Control, TypeOK
  <1>1. ASSUME pc'[q] = pc[q], loc'[q] = loc[q] PROVE WellFormed(q)'
    <2>1. loc[q].new \in Token => loc[q].new.sess \in Sessions /\ loc[q].new.num \in Nat
      BY ConstantsAssumption DEF Token
    <2>2. loc[q].new \in Token /\ loc[q].new.sess = loc[q].sess /\ loc[q].new.num <= issued[loc[q].sess]
             => loc[q].new.num <= issued'[loc[q].sess]
      BY <1>0, <2>1
    <2> QED
      BY <1>0, <1>1, <2>2 DEF WellFormed
  <1>2. CASE q # r
    BY <1>1, <1>2, OthersKept
  <1>3. CASE q = r /\ Return(r)
    BY <1>0, <1>3 DEF Return, TypeOK, Blank, WellFormed, StepsOf
  <1>4. CASE q = r /\ Advance(r)
    BY <1>0, <1>4 DEF Advance, SameRequest, Unminted, WellFormed, Control, Blank
  <1>5. ASSUME q = r, NEW s \in Sessions, BeginLogin(r, s) PROVE WellFormed(q)'
    BY <1>0, <1>5, ConstantsAssumption DEF BeginLogin, Step, TypeOK, Blank, Access, Token,
       WellFormed, StepsOf, StoreSteps
  <1>6. ASSUME q = r, NEW t \in Token, NEW op \in Ops, BeginRequest(r, t, op) PROVE WellFormed(q)'
    BY <1>0, <1>6, ConstantsAssumption DEF BeginRequest, Step, TypeOK, OpsOf, Blank, Token,
       WellFormed, StepsOf, AuthSteps, Ops, Logouts, history
  <1>7. CASE q = r /\ MintAccess(r)
    <2>1. loc[r].op = "refresh" /\ loc[r].sess \in Sessions
      BY <1>7, LocalTokens DEF MintAccess, Step
    <2> QED
      BY <1>0, <1>7, <2>1 DEF MintAccess, Step, TypeOK, Access, Token, LocType,
         WellFormed, StepsOf, AuthSteps, history
  <1> QED
    BY <1>2, <1>3, <1>4, <1>5, <1>6, <1>7, StepShape DEF Respond, Finish

\* No two requests ever store the same token, and nobody holds it meanwhile.
LEMMA FreshPreserved ==
  ASSUME Control, NEW r \in Reqs, RequestStep(r)
  PROVE  Fresh'
  <1>0. /\ TypeOK /\ TypeOK' /\ Fresh
        /\ \A q \in Reqs : WellFormed(q) /\ loc[q] \in LocType
        /\ \A s \in Sessions : issued[s] \in Nat /\ issued'[s] \in Nat /\ issued[s] <= issued'[s]
        /\ \A t \in Token : t.sess \in Sessions /\ t.num \in Nat
        /\ held \subseteq Token
    <2>1. TypeOK'
      BY TypesPreserved DEF Next
    <2> QED
      BY <2>1, LocalTokens, Monotone, ConstantsAssumption DEF Control, TypeOK, Token
  <1>a. \A q \in Reqs \ {r} : loc'[q] = loc[q]
    BY OthersKept
  <1>b. \A t \in Token : 0 < issued[t.sess] /\ t.num <= issued[t.sess] =>
                          0 < issued'[t.sess] /\ t.num <= issued'[t.sess]
    BY <1>0
  <1>c. \A q \in Reqs :
          /\ loc[q].new # None =>
               /\ loc[q].new \in Token
               /\ 0 < loc[q].new.num /\ loc[q].new.num <= issued[loc[q].new.sess]
          /\ loc[q].op = "login" =>
               /\ loc[q].new # None /\ loc[q].new.sess = loc[q].sess
               /\ loc[q].sess \in Sessions
               /\ 0 < issued[loc[q].sess]
    <2> TAKE q \in Reqs
    <2>1. loc[q].new \in Token => loc[q].new # None
      BY ConstantsAssumption DEF Token
    <2> QED
      BY <1>0, <2>1 DEF WellFormed
  <1>1. ASSUME held' = held,
               loc'[r].new # None => loc'[r].new = loc[r].new,
               loc'[r].op = "login" => loc[r].op = "login" /\ loc'[r].sess = loc[r].sess
        PROVE  Fresh'
    BY <1>0, <1>a, <1>b, <1>1 DEF Fresh
  <1>2. CASE Finish(r) \/ Advance(r) \/ \E t \in Token, op \in Ops : BeginRequest(r, t, op)
    <2>1. CASE Finish(r)
      BY <1>0, <1>1, <2>1 DEF Finish, Return, Blank, TypeOK
    <2>2. CASE Advance(r)
      BY <1>1, <2>2 DEF Advance, SameRequest
    <2>3. ASSUME NEW t \in Token, NEW op \in Ops, BeginRequest(r, t, op) PROVE Fresh'
      <3>1. held' = held /\ loc'[r].new = None /\ loc'[r].op = op /\ op # "login"
        BY <1>0, <2>3 DEF BeginRequest, OpsOf, Logouts, Blank, TypeOK, history
      <3> QED
        BY <1>1, <3>1
    <2> QED
      BY <1>2, <2>1, <2>2, <2>3
  <1>3. ASSUME NEW s \in Sessions, BeginLogin(r, s) PROVE Fresh'
    <2>1. /\ held' = held
          /\ loc'[r].new = Access(s, 1) /\ loc'[r].sess = s
          /\ issued[s] = 0
      BY <1>0, <1>3 DEF BeginLogin, TypeOK, Blank, history
    <2>2. \A t \in held : t.sess # s
      BY <1>0, <2>1 DEF Fresh
    <2>3. \A q \in Reqs : /\ loc[q].new # None => loc[q].new.sess # s
                          /\ loc[q].op = "login" => loc[q].sess # s
      BY <1>0, <1>c, <2>1
    <2>4. Access(s, 1).sess = s /\ Refresh(s).sess = s
      BY DEF Access, Refresh
    <2> QED
      BY <1>0, <1>a, <1>b, <2>1, <2>2, <2>3, <2>4 DEF Fresh
  <1>4. CASE MintAccess(r)
    <2> DEFINE s == loc[r].sess
               t == Access(s, issued[s] + 1)
    <2>0. loc[r].op = "refresh" /\ s \in Sessions
      BY <1>4, LocalTokens DEF MintAccess, Step
    <2>1. held' = held /\ loc'[r].new = t /\ loc'[r].op = "refresh"
      BY <1>0, <1>4, <2>0 DEF MintAccess, TypeOK, LocType, history
    <2>2. t.sess = s /\ t.num = issued[s] + 1
      BY DEF Access
    <2>3. t \notin held
      BY <1>0, <2>0, <2>2 DEF Fresh
    <2>4. \A q \in Reqs : loc[q].new # None => loc[q].new # t
      BY <1>0, <1>c, <2>0, <2>2
    <2> HIDE DEF t
    <2> QED
      BY <1>0, <1>a, <1>b, <2>1, <2>3, <2>4 DEF Fresh
  <1>5. CASE Respond(r)
    <2>1. /\ held' = held \cup Given(loc[r])
          /\ loc'[r].new = None /\ loc'[r].op = "none"
          /\ issued' = issued
      BY <1>0, <1>5 DEF Respond, Return, TypeOK, Blank, stores
    <2>2. \A t \in Given(loc[r]) : 0 < issued[t.sess] /\ t.num <= issued[t.sess]
      <3>1. CASE loc[r].op = "login"
        BY <1>0, <1>c, <3>1 DEF Given, Refresh
      <3>2. CASE loc[r].op = "refresh"
        <4>1. loc[r].new # None
          BY <1>0, <1>5, <3>2, ConstantsAssumption DEF WellFormed, Respond, AuthSteps, Token
        <4> QED
          BY <1>0, <1>c, <3>2, <4>1 DEF Given
      <3> QED
        BY <3>1, <3>2 DEF Given
    <2>3. ASSUME NEW q \in Reqs \ {r}
          PROVE  /\ loc[q].new # None => loc[q].new \notin Given(loc[r])
                 /\ loc[q].op = "login" => Refresh(loc[q].sess) \notin Given(loc[r])
      <3>1. loc[q].new # None => loc[q].new # loc[r].new /\ loc[q].new # Refresh(loc[r].sess)
        BY <1>0, <1>c DEF Fresh, Refresh
      <3>2. loc[q].op = "login" /\ loc[r].op \in {"login", "refresh"} =>
              Refresh(loc[q].sess) # loc[r].new
        <4>1. loc[r].op \in {"login", "refresh"} => loc[r].new # None
          BY <1>0, <1>5, ConstantsAssumption DEF WellFormed, Respond, AuthSteps, Token
        <4> QED
          BY <1>0, <1>c, <4>1 DEF Refresh
      <3>3. loc[q].op = "login" /\ loc[r].op = "login" => Refresh(loc[q].sess) # Refresh(loc[r].sess)
        BY <1>0 DEF Fresh, Refresh
      <3> QED
        BY <3>1, <3>2, <3>3 DEF Given
    <2> QED
      BY <1>0, <1>a, <2>1, <2>2, <2>3 DEF Fresh
  <1> QED
    BY <1>2, <1>3, <1>4, <1>5, StepShape

\* The control invariant holds at the start ...
LEMMA ControlInit == Init => Control
  <1> SUFFICES ASSUME Init PROVE Control
    OBVIOUS
  <1>1. TypeOK
    <2>1. loc \in [Reqs -> LocType] /\ pc \in [Reqs -> PC]
      BY BlankType DEF Init, PC
    <2> QED
      BY <2>1, ConstantsAssumption DEF Init, TypeOK
  <1>2. ASSUME NEW r \in Reqs PROVE WellFormed(r)
    BY DEF Init, WellFormed, Blank, StepsOf
  <1>3. Fresh
    BY DEF Init, Fresh, Blank
  <1> QED
    BY <1>1, <1>2, <1>3 DEF Control

\* ... and every step keeps it.
LEMMA ControlStep == Control /\ [Next]_vars => Control'
  <1> SUFFICES ASSUME Control, [Next]_vars PROVE Control'
    OBVIOUS
  <1>1. TypeOK'
    BY TypesPreserved
  <1>2. ASSUME NEW r \in Reqs, RequestStep(r) PROVE Control'
    BY <1>1, <1>2, WellFormedPreserved, FreshPreserved DEF Control
  <1>3. ASSUME UNCHANGED <<issued, pc, loc, held>> PROVE Control'
    <2>1. ASSUME NEW q \in Reqs PROVE WellFormed(q)'
      BY <1>3, <2>1 DEF Control, WellFormed
    <2> QED
      BY <1>1, <1>3, <2>1 DEF Control, Fresh
  <1>4. ASSUME NEW t \in Token, Expire(t) PROVE Control'
    BY <1>3, <1>4 DEF Expire, history
  <1>5. CASE UNCHANGED vars
    BY <1>3, <1>5 DEF vars, stores, history
  <1> QED
    BY <1>2, <1>4, <1>5 DEF Next

\* TypeOK for every instance: the stores hold tokens, and every request is at
\* a step of its handler with locals of the types the Go code gives them.
THEOREM TypeCorrect == Spec => []TypeOK
  <1>1. Control => TypeOK
    BY DEF Control
  <1> QED
    BY <1>1, ControlInit, ControlStep, PTL DEF Spec

-----------------------------------------------------------------------------
(***************************************************************************)
(* A token that a client holds is never stored again                       *)
(***************************************************************************)
\* What a step stores is not held yet; what it takes off the blacklist has
\* expired.
LEMMA StoresShrink ==
  ASSUME Control, [Next]_vars
  PROVE  /\ \A t \in held : (t \in rows' => t \in rows) /\ (t \in cached' => t \in cached)
         /\ \A t \in blacklist : t \in blacklist' \/ t \in expired' \ cached'
         /\ expired \subseteq expired'
  <1> DEFINE Goal ==
        /\ \A t \in held : (t \in rows' => t \in rows) /\ (t \in cached' => t \in cached)
        /\ \A t \in blacklist : t \in blacklist' \/ t \in expired' \ cached'
        /\ expired \subseteq expired'
  <1>1. ASSUME NEW r \in Reqs, Minting(r) PROVE Goal
    <2>1. CASE rows' = rows /\ cached' = cached /\ blacklist' = blacklist /\ expired' = expired
      BY <2>1
    <2>2. CASE StoreAccess(r) \/ CacheAccess(r)
      <3>1. loc[r].new \notin held
        <4>1. pc[r] \in StoreSteps
          BY <2>2 DEF StoreAccess, CacheAccess, Step, StoreSteps
        <4>2. loc[r].new # None
          BY <4>1, LocalTokens, ConstantsAssumption DEF Token
        <4> QED
          BY <4>2 DEF Control, Fresh
      <3> QED
        BY <2>2, <3>1 DEF StoreAccess, CacheAccess, history
    <2>3. CASE StoreRefresh(r) \/ CacheRefresh(r)
      <3>1. loc[r].op = "login"
        <4>1. pc[r] \in {"storeRefresh", "cacheRefresh"}
          BY <2>3 DEF StoreRefresh, CacheRefresh, Step
        <4> QED
          BY <4>1, LocalTokens DEF Control, WellFormed, StepsOf, LocType, Ops, Logouts,
             AuthSteps, LogoutSteps, LogoutAllSteps
      <3>2. Refresh(loc[r].sess) \notin held
        BY <3>1 DEF Control, Fresh
      <3> QED
        BY <2>3, <3>2 DEF StoreRefresh, CacheRefresh, history
    <2>4. \/ rows' = rows /\ cached' = cached /\ blacklist' = blacklist /\ expired' = expired
          \/ StoreAccess(r) \/ CacheAccess(r) \/ StoreRefresh(r) \/ CacheRefresh(r)
      BY <1>1 DEF Minting, BeginLogin, CreateSession, CacheSession, MintAccess, RejectRefresh, stores
    <2> QED
      BY <2>1, <2>2, <2>3, <2>4
  <1>2. ASSUME NEW r \in Reqs, Authenticating(r) PROVE Goal
    BY <1>2 DEF Authenticating, BeginRequest, CheckBlacklist, LookupToken, FinishUse, stores
  <1>3. ASSUME NEW r \in Reqs, LoggingOut(r) PROVE Goal
    <2>1. rows' \subseteq rows /\ cached' \subseteq cached /\ blacklist \subseteq blacklist' /\ expired' = expired
      BY <1>3 DEF LoggingOut, Collect, CollectAccess, CollectRefresh,
         BlacklistPair, DeleteAccessRow, UncacheAccess, DeleteRefreshRow,
         DeactivateSession, UncacheSession, UncacheRefresh, stores
    <2> QED
      BY <2>1
  <1>4. ASSUME NEW r \in Reqs, LoggingOutAll(r) PROVE Goal
    <2>1. rows' \subseteq rows /\ cached' \subseteq cached /\ blacklist \subseteq blacklist' /\ expired' = expired
      BY <1>4 DEF LoggingOutAll, ListTokens, BlacklistAll, BlacklistAllFails,
         DeleteRows, DeactivateAll, ScanTokens, ScanTokensEnd, ScanSessions, stores
    <2> QED
      BY <2>1
  <1>5. ASSUME NEW r \in Reqs, Respond(r) \/ ReturnError(r) PROVE Goal
    BY <1>5 DEF Respond, ReturnError, stores
  <1>6. ASSUME NEW t \in Token, Expire(t) PROVE Goal
    BY <1>6 DEF Expire
  <1>7. CASE UNCHANGED vars
    BY <1>7 DEF vars, stores
  <1> QED
    BY <1>1, <1>2, <1>3, <1>4, <1>5, <1>6, <1>7 DEF Next, RequestStep

\* What the middleware takes for valid after a step was valid before it.
LEMMA UsableStep ==
  ASSUME Control, [Next]_vars, NEW t \in held, Usable(t)'
  PROVE  Usable(t)
  BY StoresShrink DEF Usable

\* NoResurrection for every instance, with Redis on or off and whatever fails:
\* a token that a client holds and the middleware would reject is rejected
\* for ever, however the steps of logins, refreshes and logouts interleave.
THEOREM DeadTokensStayDead == Spec => NoResurrection
  <1>1. Control /\ [Next]_vars => [\A t \in held : ~Usable(t) => ~Usable(t)']_vars
    BY UsableStep
  <1> QED
    BY <1>1, ControlInit, ControlStep, PTL DEF Spec, NoResurrection

-----------------------------------------------------------------------------
(***************************************************************************)
(* Authentication                                                          *)
(***************************************************************************)
\* Authentication keeps its half-way knowledge, whatever other requests do.
LEMMA VettedStep ==
  ASSUME Control, Vetted, [Next]_vars
  PROVE  Vetted'
  <1>a. TypeOK /\ \A q \in Reqs : WellFormed(q) /\ loc[q] \in LocType
    BY LocalTokens DEF Control
  <1>b. \A q \in Reqs : loc[q].tok # None => loc[q].tok \in held
    BY <1>a DEF WellFormed, Blank
  <1>1. ASSUME NEW q \in Reqs, pc'[q] = pc[q], loc'[q] = loc[q]
        PROVE  VettedRequest(q)'
    BY <1>b, <1>1, StoresShrink DEF Vetted, VettedRequest, Live
  <1>2. ASSUME NEW r \in Reqs, RequestStep(r) PROVE VettedRequest(r)'
    <2>1. CASE Return(r)
      BY <1>a, <2>1 DEF Return, TypeOK, Blank, VettedRequest
    <2>2. ASSUME NEW s \in Sessions, BeginLogin(r, s) PROVE VettedRequest(r)'
      BY <1>a, <2>2 DEF BeginLogin, Step, TypeOK, Blank, VettedRequest
    <2>3. ASSUME NEW t \in Token, NEW op \in Ops, BeginRequest(r, t, op) PROVE VettedRequest(r)'
      <3>1. /\ loc'[r].tok = t /\ loc'[r].live = Usable(t)
            /\ pc'[r] = IF RedisEnabled THEN "checkBlacklist" ELSE "lookup"
            /\ cached' = cached /\ rows' = rows /\ blacklist' = blacklist
            /\ t \notin expired
        BY <1>a, <2>3 DEF BeginRequest, Step, TypeOK, Blank, stores
      <3> QED
        BY <3>1 DEF Usable, Live, AuthSteps, VettedRequest
    <2>4. CASE CheckBlacklist(r)
      <3>1. CASE loc[r].tok \in blacklist
        BY <2>1, <2>4, <3>1 DEF CheckBlacklist
      <3>2. CASE loc[r].tok \notin blacklist
        BY <1>a, <2>4, <3>2 DEF CheckBlacklist, Step, Vetted, VettedRequest, Live, TypeOK,
           AuthSteps, stores
      <3> QED
        BY <3>1, <3>2
    <2>5. CASE LookupToken(r)
      <3>1. CASE ~Found(loc[r].tok)
        BY <2>1, <2>5, <3>1 DEF LookupToken
      <3>2. CASE Found(loc[r].tok)
        <4>1. loc[r].tok # None => loc[r].live
          BY <2>5, <3>2 DEF LookupToken, Found, Vetted, VettedRequest, Live
        <4>2. loc' = loc /\ pc'[r] # "checkBlacklist"
          <5>1. loc[r].op \in {"refresh", "use", "logout", "logoutAll"}
            BY <1>a, <2>5, LocalTokens DEF LookupToken, AuthSteps, LocType, Ops, Logouts
          <5> QED
            BY <1>a, <2>5, <3>2, <5>1 DEF LookupToken, HandlerOf, Step, TypeOK
        <4> QED
          BY <4>1, <4>2 DEF VettedRequest
      <3> QED
        BY <3>1, <3>2
    <2>6. CASE Advance(r) /\ ~CheckBlacklist(r) /\ ~LookupToken(r)
      BY <2>6 DEF Advance, SameRequest, Vetted, VettedRequest, AuthSteps
    <2>7. CASE MintAccess(r)
      BY <1>a, <2>7 DEF MintAccess, Step, TypeOK, LocType, Vetted, VettedRequest, AuthSteps
    <2> QED
      BY <1>2, <2>1, <2>2, <2>3, <2>4, <2>5, <2>6, <2>7, StepShape DEF Respond, Finish
  <1>3. ASSUME NEW r \in Reqs, RequestStep(r) PROVE Vetted'
    BY <1>1, <1>2, <1>3, OthersKept DEF Vetted
  <1>4. ASSUME pc' = pc, loc' = loc PROVE Vetted'
    BY <1>1, <1>4 DEF Vetted
  <1> QED
    BY <1>3, <1>4 DEF Next, Expire, vars

\* No request is being authenticated at the start.
LEMMA VettedInit == Init => Vetted
  <1> SUFFICES ASSUME Init, NEW r \in Reqs PROVE VettedRequest(r)
    BY DEF Vetted
  <1>1. pc[r] = "idle" /\ loc[r] = Blank
    BY DEF Init
  <1> QED
    BY <1>1 DEF VettedRequest, Blank

\* AcceptedWasUsable for every instance: the two look-ups of the middleware
\* and the logouts that run between them cannot let a request pass whose token
\* was dead when it arrived.
THEOREM AuthenticationIsSound == Spec => []AcceptedWasUsable
  <1>1. Vetted => AcceptedWasUsable
    BY DEF Vetted, VettedRequest, AcceptedWasUsable, Authenticated
  <1>2. Control /\ Vetted /\ [Next]_vars => Vetted'
    BY VettedStep
  <1> QED
    BY <1>1, <1>2, ControlInit, ControlStep, VettedInit, PTL DEF Spec

-----------------------------------------------------------------------------
(***************************************************************************)
(* LogoutAll                                                               *)
(***************************************************************************)
\* SCAN, GET and DEL of a LogoutAll do not fail: without this assumption the
\* operation still answers with success, and tokens survive it.
SweepsComplete == RedisEnabled => "logoutAll" \notin RedisFaults

\* The steps of a LogoutAll.
LEMMA LogoutAllPath ==
  ASSUME Control, NEW r \in Reqs, RequestStep(r), loc[r].op = "logoutAll"
  PROVE  Return(r) \/ CheckBlacklist(r) \/ LookupToken(r) \/ LoggingOutAll(r)
  <1>1. pc[r] \in AuthSteps \cup LogoutAllSteps \cup {"respond"}
    BY DEF Control, WellFormed, StepsOf
  <1>2. ~Minting(r)
    BY <1>1 DEF AuthSteps, LogoutAllSteps, Minting, BeginLogin, CreateSession, StoreAccess, CacheAccess,
       StoreRefresh, CacheRefresh, CacheSession, MintAccess, RejectRefresh, Step
  <1>3. ~LoggingOut(r)
    BY <1>1 DEF AuthSteps, LogoutAllSteps, LoggingOut, CollectAccess, CollectRefresh,
       BlacklistPair, DeleteAccessRow, UncacheAccess, DeleteRefreshRow,
       DeactivateSession, UncacheSession, UncacheRefresh, Step
  <1>4. Authenticating(r) => CheckBlacklist(r) \/ LookupToken(r)
    BY <1>1 DEF AuthSteps, LogoutAllSteps, Authenticating, BeginRequest, FinishUse, Step
  <1> QED
    BY <1>2, <1>3, <1>4 DEF RequestStep, Respond, ReturnError

\* Each step of a LogoutAll takes the tokens it promised to revoke one stage
\* further out of the stores.
LEMMA SweepStep ==
  ASSUME Control, Swept, SweepsComplete,
         NEW r \in Reqs, LoggingOutAll(r), Advance(r), loc[r].op = "logoutAll"
  PROVE  SweptRequest(r)'
  <1> DEFINE P == loc[r].promise
  <1>a. TypeOK /\ loc[r] \in LocType
    BY LocalTokens DEF Control
  <1>b. SweptRequest(r)
    BY DEF Swept
  <1>c. /\ held' = held
        /\ loc'[r].promise = P /\ loc'[r].tok = loc[r].tok
        /\ P \subseteq held \cap UserTokens(Owner(loc[r].tok))
    BY <1>b DEF Advance, SameRequest, SweptRequest
  <1>1. CASE ListTokens(r)
    BY <1>a, <1>c, <1>1 DEF ListTokens, Step, SweptRequest, TypeOK
  <1>2. CASE BlacklistAll(r) \/ BlacklistAllFails(r)
    BY <1>a, <1>c, <1>2 DEF BlacklistAll, BlacklistAllFails, Step, SweptRequest, TypeOK
  <1>3. CASE DeleteRows(r)
    BY <1>a, <1>c, <1>3 DEF DeleteRows, Step, SweptRequest, TypeOK
  <1>4. CASE DeactivateAll(r)
    <2>1. pc'[r] = IF RedisEnabled THEN "scanTokens" ELSE "respond"
      BY <1>a, <1>4 DEF DeactivateAll, Step, TypeOK
    <2>2. cached' = cached /\ rows' = rows /\ pc[r] = "deactivateAll"
      BY <1>4 DEF DeactivateAll, Step
    <2>3. RedisEnabled => loc'[r].found = cached \cap UserTokens(Owner(loc[r].tok))
      BY <1>a, <1>4 DEF DeactivateAll, TypeOK, LocType
    <2> QED
      BY <1>b, <1>c, <2>1, <2>2, <2>3 DEF SweptRequest
  <1>5. CASE ScanTokens(r)
    <2>1. RedisEnabled
      BY <1>b, <1>5 DEF ScanTokens, SweptRequest
    <2>2. PICK t : /\ cached' = cached \ {t}
                   /\ loc' = [loc EXCEPT ![r].found = @ \ {t}]
      BY <1>5, <2>1 DEF ScanTokens, SweepsComplete, RedisFails
    <2>3. loc'[r].found = loc[r].found \ {t}
      BY <1>a, <2>2 DEF TypeOK, LocType
    <2>4. pc' = pc /\ pc[r] = "scanTokens"
      BY <1>5 DEF ScanTokens
    <2> QED
      BY <1>b, <1>c, <2>1, <2>2, <2>3, <2>4 DEF SweptRequest
  <1>6. CASE ScanTokensEnd(r)
    <2>1. RedisEnabled
      BY <1>b, <1>6 DEF ScanTokensEnd, Step, SweptRequest
    <2>2. loc[r].found \cap cached = {} /\ cached' = cached
      BY <1>6, <2>1 DEF ScanTokensEnd, SweepsComplete, RedisFails, stores
    <2>3. pc[r] = "scanTokens" /\ pc'[r] = "scanSessions"
      BY <1>a, <1>6 DEF ScanTokensEnd, Step, TypeOK
    <2> QED
      BY <1>b, <1>c, <2>1, <2>2, <2>3 DEF SweptRequest
  <1>7. CASE ScanSessions(r)
    <2>1. RedisEnabled
      BY <1>b, <1>7 DEF ScanSessions, Step, SweptRequest
    <2>2. cached' = cached /\ pc[r] = "scanSessions" /\ pc'[r] = "respond"
      BY <1>a, <1>7 DEF ScanSessions, Step, TypeOK
    <2> QED
      BY <1>b, <1>c, <2>1, <2>2 DEF SweptRequest
  <1> QED
    BY <1>1, <1>2, <1>3, <1>4, <1>5, <1>6, <1>7 DEF LoggingOutAll

\* Every step keeps what LogoutAll has achieved so far.
LEMMA SweptStep ==
  ASSUME Control, Swept, [Next]_vars, SweepsComplete
  PROVE  Swept'
  <1>a. TypeOK /\ TypeOK' /\ \A q \in Reqs : WellFormed(q) /\ loc[q] \in LocType
    BY LocalTokens, TypesPreserved DEF Control
  <1>b. held \subseteq held'
    BY Monotone DEF Next, Expire, vars, history
  <1>c. \A t \in held : t \in Live' => t \in Live
    BY StoresShrink DEF Live
  <1>1. ASSUME NEW q \in Reqs, pc'[q] = pc[q], loc'[q] = loc[q]
        PROVE  SweptRequest(q)'
    BY <1>b, <1>1, StoresShrink DEF Swept, SweptRequest
  <1>2. ASSUME NEW r \in Reqs, RequestStep(r) PROVE SweptRequest(r)'
    <2>1. CASE Return(r)
      BY <1>a, <2>1 DEF Return, TypeOK, Blank, SweptRequest
    <2>2. ASSUME NEW s \in Sessions, BeginLogin(r, s) PROVE SweptRequest(r)'
      BY <1>a, <2>2 DEF BeginLogin, TypeOK, Blank, SweptRequest
    <2>3. ASSUME NEW t \in Token, NEW op \in Ops, BeginRequest(r, t, op) PROVE SweptRequest(r)'
      <3>1. /\ loc'[r].tok = t /\ loc'[r].op = op /\ loc'[r].promise = Promise(t, op)
            /\ pc'[r] \in AuthSteps
        BY <1>a, <2>3 DEF BeginRequest, Step, TypeOK, Blank, AuthSteps
      <3> QED
        BY <1>b, <3>1 DEF Promise, SweptRequest, AuthSteps
    <2>4. CASE MintAccess(r)
      BY <1>a, <2>4, LocalTokens DEF MintAccess, Step, TypeOK, LocType, SweptRequest
    <2>5. CASE Advance(r) /\ loc[r].op # "logoutAll"
      BY <2>5 DEF Advance, SameRequest, SweptRequest
    <2>6. CASE Advance(r) /\ loc[r].op = "logoutAll"
      <3>1. CASE CheckBlacklist(r) \/ LookupToken(r)
        <4>1. pc'[r] \in AuthSteps \cup {"idle", "listTokens", "collectAccess", "deleteRows"}
          BY <1>a, <2>6, <3>1 DEF CheckBlacklist, LookupToken, Step, Return, HandlerOf, TypeOK, AuthSteps
        <4>2. SweptRequest(r)
          BY DEF Swept
        <4> QED
          BY <1>b, <2>6, <4>1, <4>2 DEF Advance, SameRequest, SweptRequest, AuthSteps
      <3>2. CASE LoggingOutAll(r)
        BY <2>6, <3>2, SweepStep
      <3> QED
        BY <1>2, <2>1, <2>6, <3>1, <3>2, LogoutAllPath
    <2> QED
      BY <1>2, <2>1, <2>2, <2>3, <2>4, <2>5, <2>6, StepShape DEF Respond, Finish
  <1>3. ASSUME revoked' = revoked PROVE (revoked["logoutAll"] \subseteq held \ Live)'
    BY <1>b, <1>c, <1>3 DEF Swept
  <1>4. ASSUME NEW r \in Reqs, Respond(r) PROVE (revoked["logoutAll"] \subseteq held \ Live)'
    <2>1. CASE loc[r].op # "logoutAll"
      <3>1. revoked'["logoutAll"] = revoked["logoutAll"]
        BY <1>a, <1>4, <2>1 DEF Respond, TypeOK, Logouts
      <3> QED
        BY <1>b, <1>c, <3>1 DEF Swept
    <2>2. CASE loc[r].op = "logoutAll"
      <3>1. revoked'["logoutAll"] = revoked["logoutAll"] \cup loc[r].promise
        BY <1>a, <1>4, <2>2 DEF Respond, TypeOK, Logouts
      <3>2. loc[r].promise \subseteq held /\ loc[r].promise \cap Live = {}
        BY <1>4, <2>2, ConstantsAssumption DEF Respond, Swept, SweptRequest, Live
      <3> QED
        BY <1>b, <1>c, <3>1, <3>2 DEF Swept
    <2> QED
      BY <2>1, <2>2
  <1>5. ASSUME NEW r \in Reqs, RequestStep(r) PROVE Swept'
    <2>1. Respond(r) \/ revoked' = revoked
      BY <1>5 DEF RequestStep, Minting, BeginLogin, CreateSession, StoreAccess, CacheAccess,
         StoreRefresh, CacheRefresh, CacheSession, MintAccess, RejectRefresh,
         Authenticating, BeginRequest, CheckBlacklist, LookupToken, FinishUse,
         LoggingOut, Collect, CollectAccess, CollectRefresh, BlacklistPair, DeleteAccessRow,
         UncacheAccess, DeleteRefreshRow, DeactivateSession, UncacheSession, UncacheRefresh,
         LoggingOutAll, ListTokens, BlacklistAll, BlacklistAllFails, DeleteRows,
         DeactivateAll, ScanTokens, ScanTokensEnd, ScanSessions, ReturnError, history
    <2>2. (revoked["logoutAll"] \subseteq held \ Live)'
      BY <1>3, <1>4, <2>1
    <2> QED
      BY <1>1, <1>2, <1>5, <2>2, OthersKept DEF Swept
  <1>6. ASSUME pc' = pc, loc' = loc, revoked' = revoked PROVE Swept'
    BY <1>1, <1>3, <1>6 DEF Swept
  <1> QED
    BY <1>5, <1>6 DEF Next, Expire, vars, history

\* No LogoutAll is at work at the start.
LEMMA SweptInit == Init => Swept
  <1> SUFFICES ASSUME Init PROVE Swept
    OBVIOUS
  <1>1. \A r \in Reqs : SweptRequest(r)
    BY DEF Init, Blank, SweptRequest
  <1>2. revoked["logoutAll"] = {}
    BY DEF Init, Logouts
  <1> QED
    BY <1>1, <1>2 DEF Swept

\* LogoutAllIsFinal for every instance in which the sweep of Redis does not
\* fail: once LogoutAll has answered, none of the tokens that clients of the
\* user held when it came in is ever valid again, whatever logins, refreshes
\* and other logouts ran in between.
THEOREM LogoutAllHolds ==
  ASSUME SweepsComplete
  PROVE  Spec => []LogoutAllIsFinal
  <1>1. Control /\ Swept => LogoutAllIsFinal
    BY DEF Swept, LogoutAllIsFinal, Usable, Live
  <1>2. Control /\ Swept /\ [Next]_vars => Swept'
    BY SweptStep
  <1> QED
    BY <1>1, <1>2, ControlInit, ControlStep, SweptInit, PTL DEF Spec

-----------------------------------------------------------------------------
(***************************************************************************)
(* The aim of a logout: whose tokens it promises to revoke, and which of   *)
(* them it has found.                                                      *)
(***************************************************************************)
\* With a token, a client holds the refresh token of its session.
RefreshHeld ==
  /\ \A t \in held : Refresh(t.sess) \in held
  /\ \A r \in Reqs : loc[r].op = "refresh" => loc[r].tok = Refresh(loc[r].sess)

\* The session of a token that a client holds has its row, and so has the
\* session of a login past its first statement.
SessionsExist ==
  /\ \A t \in held : session[t.sess] # "none"
  /\ \A r \in Reqs : loc[r].op = "login" /\ pc[r] # "createSession" =>
                       session[loc[r].sess] # "none"

\* A logout promises the tokens it is about, and finds no others.
AimedRequest(r) ==
  LET l == loc[r] IN
  /\ l.op = "logout" => /\ l.promise = {l.tok, Refresh(l.sess)}
                        /\ l.found \subseteq l.promise
  /\ l.op = "logoutAll" => /\ l.promise \subseteq held \cap UserTokens(Owner(l.tok))
                           /\ l.found \subseteq UserTokens(Owner(l.tok))

\* The part of the invariant that relates logouts to the tokens clients hold.
Aimed ==
  /\ RefreshHeld /\ SessionsExist
  /\ \A r \in Reqs : AimedRequest(r)
  /\ \A k \in Logouts : revoked[k] \subseteq held

-----------------------------------------------------------------------------
\* A session and its refresh token determine each other.
LEMMA RefreshOf ==
  ASSUME NEW s
  PROVE  Refresh(s).sess = s /\ Refresh(s).num = 0
  BY DEF Refresh

\* Nothing is asked by an idle request.
LEMMA BlankIsIdle == /\ Blank.op = "none" /\ Blank.tok = None /\ Blank.live = FALSE
                     /\ Blank.found = {} /\ Blank.new = None
  BY DEF Blank

\* The facts that the lemmas below read off the control invariant.
LEMMA ControlFacts ==
  ASSUME Control
  PROVE  /\ TypeOK
         /\ \A q \in Reqs : WellFormed(q) /\ loc[q] \in LocType
         /\ \A q \in Reqs : pc[q] = "createSession" => loc[q].op = "login"
         /\ held \subseteq Token
  <1>1. TypeOK /\ \A q \in Reqs : WellFormed(q) /\ loc[q] \in LocType
    BY LocalTokens DEF Control
  <1>2. ASSUME NEW q \in Reqs, pc[q] = "createSession" PROVE loc[q].op = "login"
    BY <1>1, <1>2 DEF WellFormed, StepsOf, LocType, Ops, Logouts, AuthSteps, LogoutSteps, LogoutAllSteps
  <1> QED
    BY <1>1, <1>2 DEF TypeOK

\* The steps of a Logout.
LEMMA LogoutPath ==
  ASSUME Control, NEW r \in Reqs, RequestStep(r), loc[r].op = "logout"
  PROVE  Return(r) \/ CheckBlacklist(r) \/ LookupToken(r) \/ LoggingOut(r)
  <1>1. pc[r] \in AuthSteps \cup LogoutSteps \cup {"respond"}
    BY DEF Control, WellFormed, StepsOf
  <1>2. ~Minting(r)
    BY <1>1 DEF AuthSteps, LogoutSteps, Minting, BeginLogin, CreateSession, StoreAccess, CacheAccess,
       StoreRefresh, CacheRefresh, CacheSession, MintAccess, RejectRefresh, Step
  <1>3. ~LoggingOutAll(r)
    BY <1>1 DEF AuthSteps, LogoutSteps, LoggingOutAll, ListTokens, BlacklistAll, BlacklistAllFails,
       DeleteRows, DeactivateAll, ScanTokens, ScanTokensEnd, ScanSessions, Step
  <1>4. Authenticating(r) => CheckBlacklist(r) \/ LookupToken(r)
    BY <1>1 DEF AuthSteps, LogoutSteps, Authenticating, BeginRequest, FinishUse, Step
  <1> QED
    BY <1>2, <1>3, <1>4 DEF RequestStep, Respond, ReturnError

\* Only the session that a login creates becomes active.
LEMMA SessionStep ==
  ASSUME Control, NEW r \in Reqs, RequestStep(r)
  PROVE  \/ CreateSession(r) /\ session' = [session EXCEPT ![loc[r].sess] = "active"]
         \/ \A s \in Sessions : session'[s] = session[s] \/ (session[s] # "none" /\ session'[s] = "inactive")
         \/ DeactivateSession(r) /\ session' = [session EXCEPT ![loc[r].sess] = "inactive"]
  <1>0. TypeOK
    BY DEF Control
  <1>1. CASE Minting(r)
    BY <1>1 DEF Minting, BeginLogin, CreateSession, StoreAccess, CacheAccess,
       StoreRefresh, CacheRefresh, CacheSession, MintAccess, RejectRefresh, stores
  <1>2. CASE Authenticating(r)
    BY <1>2 DEF Authenticating, BeginRequest, CheckBlacklist, LookupToken, FinishUse, stores
  <1>3. CASE LoggingOut(r)
    BY <1>3 DEF LoggingOut, Collect, CollectAccess, CollectRefresh, BlacklistPair, DeleteAccessRow,
       UncacheAccess, DeleteRefreshRow, DeactivateSession, UncacheSession, UncacheRefresh, stores
  <1>4. CASE LoggingOutAll(r)
    BY <1>0, <1>4 DEF LoggingOutAll, ListTokens, BlacklistAll, BlacklistAllFails, DeleteRows,
       DeactivateAll, ScanTokens, ScanTokensEnd, ScanSessions, stores, TypeOK
  <1>5. CASE Respond(r) \/ ReturnError(r)
    BY <1>5 DEF Respond, ReturnError, stores
  <1> QED
    BY <1>1, <1>2, <1>3, <1>4, <1>5 DEF RequestStep

\* The session of a token that a client holds is never activated again.
LEMMA HeldSessionStep ==
  ASSUME Control, RefreshHeld, SessionsExist, NEW r \in Reqs, RequestStep(r)
  PROVE  /\ \A t \in held : /\ session'[t.sess] # "none"
                            /\ session[t.sess] = "inactive" => session'[t.sess] = "inactive"
         /\ \A s \in Sessions : session[s] # "none" => session'[s] # "none"
  <1>0. TypeOK /\ held \subseteq Token /\ \A t \in Token : t.sess \in Sessions
    BY ControlFacts DEF Token
  <1>1. CASE CreateSession(r) /\ session' = [session EXCEPT ![loc[r].sess] = "active"]
    <2>1. loc[r].op = "login"
      BY <1>1, ControlFacts DEF CreateSession, Step
    <2>2. \A t \in held : t.sess # loc[r].sess
      BY <2>1 DEF RefreshHeld, Control, Fresh
    <2> QED
      BY <1>0, <1>1, <2>2 DEF SessionsExist, TypeOK
  <1>2. CASE \A s \in Sessions : session'[s] = session[s] \/ (session[s] # "none" /\ session'[s] = "inactive")
    BY <1>0, <1>2 DEF SessionsExist
  <1>3. CASE session' = [session EXCEPT ![loc[r].sess] = "inactive"]
    BY <1>0, <1>3 DEF SessionsExist, TypeOK
  <1> QED
    BY <1>1, <1>2, <1>3, SessionStep

-----------------------------------------------------------------------------
\* What a response hands out comes with the refresh token of its session.
LEMMA RefreshHeldStep ==
  ASSUME Control, RefreshHeld, NEW r \in Reqs, RequestStep(r)
  PROVE  RefreshHeld'
  <1>0. /\ TypeOK /\ held \subseteq Token
        /\ \A q \in Reqs : WellFormed(q) /\ loc[q] \in LocType
    BY ControlFacts
  <1>1. \A t \in held' : Refresh(t.sess) \in held'
    <2>1. CASE held' = held
      BY <2>1 DEF RefreshHeld
    <2>2. CASE Respond(r)
      <3>1. held' = held \cup Given(loc[r])
        BY <2>2 DEF Respond
      <3>2. CASE loc[r].op = "login"
        <4>1. loc[r].new.sess = loc[r].sess
          BY <1>0, <3>2 DEF WellFormed
        <4> QED
          BY <3>1, <3>2, <4>1, RefreshOf DEF Given, RefreshHeld
      <3>3. CASE loc[r].op = "refresh"
        <4>1. loc[r].new.sess = loc[r].sess /\ loc[r].tok \in held
          BY <1>0, <2>2, <3>3 DEF WellFormed, Respond, AuthSteps
        <4> QED
          BY <3>1, <3>3, <4>1 DEF Given, RefreshHeld
      <3> QED
        BY <3>1, <3>2, <3>3 DEF Given, RefreshHeld
    <2> QED
      BY <2>1, <2>2, Monotone
  <1>2. ASSUME NEW q \in Reqs, loc'[q].op = "refresh" PROVE loc'[q].tok = Refresh(loc'[q].sess)
    <2>1. CASE q # r
      BY <1>2, <2>1, OthersKept DEF RefreshHeld
    <2>2. ASSUME q = r, NEW s \in Sessions, BeginLogin(r, s) PROVE FALSE
      BY <1>0, <1>2, <2>2 DEF BeginLogin, TypeOK, Blank
    <2>3. ASSUME q = r, NEW t \in Token, NEW op \in Ops, BeginRequest(r, t, op)
          PROVE  loc'[q].tok = Refresh(loc'[q].sess)
      <3>1. loc'[q].op = op /\ loc'[q].tok = t /\ loc'[q].sess = t.sess
        BY <1>0, <2>3 DEF BeginRequest, TypeOK, Blank
      <3>2. t.num = 0
        BY <1>2, <2>3, <3>1 DEF BeginRequest, OpsOf, Logouts
      <3> QED
        BY <3>1, <3>2 DEF Token, Refresh
    <2>4. CASE q = r /\ MintAccess(r)
      <3>1. loc'[r].op = loc[r].op /\ loc'[r].tok = loc[r].tok /\ loc'[r].sess = loc[r].sess
        BY <1>0, <2>4 DEF MintAccess, TypeOK, LocType
      <3> QED
        BY <1>2, <2>4, <3>1 DEF RefreshHeld
    <2>5. CASE q = r /\ Return(r)
      BY <1>0, <1>2, <2>5 DEF Return, TypeOK, Blank
    <2>6. CASE q = r /\ Advance(r)
      BY <1>2, <2>6 DEF Advance, SameRequest, RefreshHeld
    <2> QED
      BY <2>1, <2>2, <2>3, <2>4, <2>5, <2>6, StepShape DEF Respond, Finish
  <1> QED
    BY <1>1, <1>2 DEF RefreshHeld

\* A session has its row before any of its tokens is handed out.
LEMMA SessionsExistStep ==
  ASSUME Control, RefreshHeld, SessionsExist, NEW r \in Reqs, RequestStep(r)
  PROVE  SessionsExist'
  <1>0. /\ TypeOK /\ held \subseteq Token
        /\ \A q \in Reqs : WellFormed(q) /\ loc[q] \in LocType
    BY ControlFacts
  <1>a. \A q \in Reqs : loc[q].op = "login" => loc[q].sess \in Sessions
    BY <1>0 DEF WellFormed
  <1>1. \A t \in held' : session'[t.sess] # "none"
    <2>1. CASE held' = held
      BY <2>1, HeldSessionStep
    <2>2. CASE Respond(r)
      <3>1. held' = held \cup Given(loc[r]) /\ session' = session /\ pc[r] = "respond"
        BY <2>2 DEF Respond, stores
      <3>2. CASE loc[r].op = "login"
        <4>1. loc[r].new.sess = loc[r].sess
          BY <1>0, <3>2 DEF WellFormed
        <4> QED
          BY <3>1, <3>2, <4>1, RefreshOf DEF Given, SessionsExist
      <3>3. CASE loc[r].op = "refresh"
        <4>1. loc[r].new.sess = loc[r].sess /\ loc[r].tok \in held /\ loc[r].sess = loc[r].tok.sess
          BY <1>0, <3>1, <3>3 DEF WellFormed, AuthSteps
        <4> QED
          BY <3>1, <3>3, <4>1 DEF Given, SessionsExist
      <3> QED
        BY <3>1, <3>2, <3>3 DEF Given, SessionsExist
    <2> QED
      BY <2>1, <2>2, Monotone
  <1>2. ASSUME NEW q \in Reqs, loc'[q].op = "login", pc'[q] # "createSession"
        PROVE  session'[loc'[q].sess] # "none"
    <2>1. CASE loc[q].op = "login" /\ loc'[q].sess = loc[q].sess /\ pc[q] # "createSession"
      BY <1>a, <2>1, HeldSessionStep DEF SessionsExist
    <2>2. CASE q # r
      BY <1>2, <2>1, <2>2, OthersKept
    <2>3. ASSUME q = r, NEW s \in Sessions, BeginLogin(r, s) PROVE FALSE
      BY <1>0, <1>2, <2>3 DEF BeginLogin, Step, TypeOK
    <2>4. ASSUME q = r, NEW t \in Token, NEW op \in Ops, BeginRequest(r, t, op) PROVE FALSE
      BY <1>0, <1>2, <2>4 DEF BeginRequest, OpsOf, Logouts, TypeOK, Blank
    <2>5. CASE q = r /\ MintAccess(r)
      <3>1. loc'[r].op = loc[r].op /\ loc[r].op = "refresh"
        BY <1>0, <2>5, LocalTokens DEF MintAccess, Step, TypeOK, LocType
      <3> QED
        BY <1>2, <2>5, <3>1
    <2>6. CASE q = r /\ Return(r)
      BY <1>0, <1>2, <2>6 DEF Return, TypeOK, Blank
    <2>7. CASE q = r /\ Advance(r)
      <3>1. loc[r].op = "login" /\ loc'[r].sess = loc[r].sess
        BY <1>2, <2>7 DEF Advance, SameRequest
      <3>2. CASE pc[r] = "createSession"
        <4>1. CreateSession(r)
          BY <1>0, <1>2, <2>7, <3>2 DEF RequestStep, Minting, BeginLogin, StoreAccess, CacheAccess, StoreRefresh,
             CacheRefresh, CacheSession, MintAccess, RejectRefresh, Authenticating, BeginRequest,
             CheckBlacklist, LookupToken, FinishUse, LoggingOut, CollectAccess, CollectRefresh,
             BlacklistPair, DeleteAccessRow, UncacheAccess, DeleteRefreshRow, DeactivateSession,
             UncacheSession, UncacheRefresh, LoggingOutAll, ListTokens, BlacklistAll, BlacklistAllFails,
             DeleteRows, DeactivateAll, ScanTokens, ScanTokensEnd, ScanSessions, Respond, ReturnError,
             Step, Return, TypeOK, Blank
        <4> QED
          BY <1>0, <1>a, <2>7, <3>1, <4>1 DEF CreateSession, TypeOK
      <3> QED
        BY <2>1, <2>7, <3>1, <3>2
    <2> QED
      BY <2>2, <2>3, <2>4, <2>5, <2>6, <2>7, StepShape DEF Respond, Finish
  <1> QED
    BY <1>1, <1>2 DEF SessionsExist

\* A logout finds only what it is about.
LEMMA AimedRequestStep ==
  ASSUME Control, Aimed, NEW r \in Reqs, RequestStep(r)
  PROVE  AimedRequest(r)'
  <1>0. /\ TypeOK /\ \A q \in Reqs : WellFormed(q) /\ loc[q] \in LocType
        /\ AimedRequest(r) /\ held \subseteq held' /\ held \subseteq Token
    BY ControlFacts, Monotone DEF Aimed
  <1>1. CASE Return(r)
    BY <1>0, <1>1 DEF Return, TypeOK, Blank, AimedRequest
  <1>2. ASSUME NEW s \in Sessions, BeginLogin(r, s) PROVE AimedRequest(r)'
    BY <1>0, <1>2 DEF BeginLogin, TypeOK, Blank, AimedRequest
  <1>3. ASSUME NEW t \in Token, NEW op \in Ops, BeginRequest(r, t, op) PROVE AimedRequest(r)'
    <2>1. /\ loc'[r].tok = t /\ loc'[r].op = op /\ loc'[r].sess = t.sess
          /\ loc'[r].promise = Promise(t, op) /\ loc'[r].found = {}
      BY <1>0, <1>3 DEF BeginRequest, TypeOK, Blank
    <2> QED
      BY <1>0, <2>1 DEF Promise, AimedRequest
  <1>4. CASE MintAccess(r)
    BY <1>0, <1>4, LocalTokens DEF MintAccess, Step, TypeOK, LocType, AimedRequest
  <1>5. CASE Advance(r) /\ loc[r].op \notin Logouts
    BY <1>5 DEF Advance, SameRequest, AimedRequest, Logouts
  <1>6. CASE Advance(r) /\ loc'[r].found \subseteq loc[r].found
    BY <1>0, <1>6 DEF Advance, SameRequest, AimedRequest
  <1>7. CASE CheckBlacklist(r) \/ LookupToken(r)
    <2>1. loc' = loc \/ Return(r)
      BY <1>7 DEF CheckBlacklist, LookupToken
    <2> QED
      BY <1>0, <1>1, <2>1 DEF AimedRequest
  <1>8. CASE Advance(r) /\ LoggingOut(r) /\ loc[r].op = "logout"
    <2>1. loc'[r].found \subseteq loc[r].found \cup {loc[r].tok, Refresh(loc[r].sess)}
      <3>1. CASE Collect(r, loc[r].tok, "collectRefresh") \/ Collect(r, Refresh(loc[r].sess), "blacklistPair")
        BY <1>0, <3>1 DEF Collect, TypeOK, LocType
      <3>2. CASE DeleteRefreshRow(r)
        <4> DEFINE t == Refresh(loc[r].sess)
        <4>1. PICK b \in {TRUE, ~DBFails(r)} :
                \/ loc' = [loc EXCEPT ![r] = [[loc[r] EXCEPT !.found = IF b THEN {t} ELSE {}]
                                                      EXCEPT !.dropped = t \in rows]]
                \/ loc' = [loc EXCEPT ![r] = [loc[r] EXCEPT !.found = IF b THEN {t} ELSE {}]]
          BY <3>2 DEF DeleteRefreshRow
        <4> DEFINE S == IF b THEN {t} ELSE {}
                   l == [loc[r] EXCEPT !.found = S]
                   d == t \in rows
        <4>2. l.found = S /\ S \subseteq {t}
          BY <1>0 DEF LocType
        <4>3. [l EXCEPT !.dropped = d].found = l.found
          BY <1>0 DEF LocType
        <4>4. loc' = [loc EXCEPT ![r] = [l EXCEPT !.dropped = d]] \/ loc' = [loc EXCEPT ![r] = l]
          BY <4>1
        <4> HIDE DEF l, d
        <4>5. loc'[r] = [l EXCEPT !.dropped = d] \/ loc'[r] = l
          BY <1>0, <4>4 DEF TypeOK
        <4>6. loc'[r].found = S
          BY <4>2, <4>3, <4>5
        <4> QED
          BY <4>2, <4>6
      <3>3. CASE DeleteAccessRow(r) \/ DeactivateSession(r)
        BY <1>0, <3>3 DEF DeleteAccessRow, DeactivateSession, TypeOK, LocType
      <3> QED
        BY <1>8, <3>1, <3>2, <3>3 DEF LoggingOut, CollectAccess, CollectRefresh, BlacklistPair,
           UncacheAccess, UncacheSession, UncacheRefresh
    <2> QED
      BY <1>0, <1>8, <2>1 DEF Advance, SameRequest, AimedRequest
  <1>9. CASE Advance(r) /\ LoggingOutAll(r) /\ loc[r].op = "logoutAll"
    <2>1. loc'[r].found \subseteq loc[r].found \cup UserTokens(Owner(loc[r].tok))
      BY <1>0, <1>9 DEF LoggingOutAll, ListTokens, BlacklistAll, BlacklistAllFails, DeleteRows,
         DeactivateAll, ScanTokens, ScanTokensEnd, ScanSessions, TypeOK, LocType
    <2> QED
      BY <1>0, <1>9, <2>1 DEF Advance, SameRequest, AimedRequest
  <1> QED
    BY <1>1, <1>2, <1>3, <1>4, <1>5, <1>7, <1>8, <1>9, StepShape, LogoutPath, LogoutAllPath
       DEF Respond, Finish, Logouts

\* Only an answer adds to what logouts have answered for.
LEMMA RevokedByAnswers ==
  ASSUME NEW r \in Reqs, RequestStep(r)
  PROVE  Respond(r) \/ revoked' = revoked
  BY DEF RequestStep, Minting, BeginLogin, CreateSession, StoreAccess, CacheAccess,
     StoreRefresh, CacheRefresh, CacheSession, MintAccess, RejectRefresh,
     Authenticating, BeginRequest, CheckBlacklist, LookupToken, FinishUse,
     LoggingOut, Collect, CollectAccess, CollectRefresh, BlacklistPair, DeleteAccessRow,
     UncacheAccess, DeleteRefreshRow, DeactivateSession, UncacheSession, UncacheRefresh,
     LoggingOutAll, ListTokens, BlacklistAll, BlacklistAllFails, DeleteRows,
     DeactivateAll, ScanTokens, ScanTokensEnd, ScanSessions, ReturnError, history

\* Tokens that a logout answers for are held by then.
LEMMA RevokedHeldStep ==
  ASSUME Control, Aimed, NEW r \in Reqs, RequestStep(r)
  PROVE  \A k \in Logouts : revoked'[k] \subseteq held'
  <1>0. /\ TypeOK /\ \A q \in Reqs : WellFormed(q) /\ loc[q] \in LocType
        /\ AimedRequest(r) /\ held \subseteq held'
    BY ControlFacts, Monotone DEF Aimed
  <1>1. CASE revoked' = revoked
    BY <1>0, <1>1 DEF Aimed
  <1>2. CASE Respond(r) /\ loc[r].op \in Logouts
    <2>1. loc[r].promise \subseteq held
      <3>1. CASE loc[r].op = "logout"
        <4>1. loc[r].tok \in held /\ loc[r].sess = loc[r].tok.sess
          BY <1>0, <3>1 DEF WellFormed
        <4> QED
          BY <1>0, <3>1, <4>1 DEF AimedRequest, Aimed, RefreshHeld
      <3>2. CASE loc[r].op = "logoutAll"
        BY <1>0, <3>2 DEF AimedRequest
      <3> QED
        BY <1>2, <3>1, <3>2 DEF Logouts
    <2> QED
      BY <1>0, <1>2, <2>1 DEF Respond, Aimed, TypeOK
  <1>3. Respond(r) \/ revoked' = revoked
    BY RevokedByAnswers
  <1> QED
    BY <1>1, <1>2, <1>3 DEF Respond, Logouts

\* No logout is under way in the beginning.
LEMMA AimedInit == Init => Aimed
  <1> SUFFICES ASSUME Init PROVE Aimed
    OBVIOUS
  <1>1. \A r \in Reqs : loc[r] = Blank
    BY DEF Init
  <1>2. RefreshHeld /\ SessionsExist
    BY <1>1 DEF Init, RefreshHeld, SessionsExist, Blank
  <1>3. \A r \in Reqs : AimedRequest(r)
    <2>1. \A r \in Reqs : loc[r].op = "none"
      BY <1>1, BlankIsIdle
    <2> QED
      BY <2>1 DEF AimedRequest
  <1> QED
    BY <1>2, <1>3 DEF Init, Aimed

\* The aim of every logout survives every step.
LEMMA AimedStep ==
  ASSUME Control, Aimed, [Next]_vars
  PROVE  Aimed'
  <1>1. ASSUME NEW r \in Reqs, RequestStep(r) PROVE Aimed'
    <2>1. RefreshHeld' /\ SessionsExist'
      BY <1>1, RefreshHeldStep, SessionsExistStep DEF Aimed
    <2>2. ASSUME NEW q \in Reqs \ {r} PROVE AimedRequest(q)'
      BY <1>1, OthersKept, Monotone DEF Aimed, AimedRequest
    <2>3. (\A k \in Logouts : revoked[k] \subseteq held)'
      BY <1>1, RevokedHeldStep
    <2> QED
      BY <1>1, <2>1, <2>2, <2>3, AimedRequestStep DEF Aimed
  <1>2. ASSUME UNCHANGED <<pc, loc, held, revoked, session>> PROVE Aimed'
    BY <1>2 DEF Aimed, RefreshHeld, SessionsExist, AimedRequest
  <1>3. ASSUME NEW t \in Token, Expire(t) PROVE Aimed'
    BY <1>2, <1>3 DEF Expire, history
  <1>4. CASE UNCHANGED vars
    BY <1>2, <1>4 DEF vars, stores, history
  <1> QED
    BY <1>1, <1>3, <1>4 DEF Next

-----------------------------------------------------------------------------
(***************************************************************************)
(* Logouts hit only their targets                                          *)
(***************************************************************************)
\* What a step of a logout takes from a store, or blacklists, is its target.
LEMMA LogoutHits ==
  ASSUME Control, Aimed, NEW r \in Reqs, LoggingOut(r)
  PROVE  /\ rows \ rows' \subseteq Targets(loc[r])
         /\ cached \ cached' \subseteq Targets(loc[r])
         /\ blacklist' \ blacklist \subseteq Targets(loc[r])
  <1>0. AimedRequest(r)
    BY DEF Aimed
  <1>1. loc[r].op = "logout"
    BY LocalTokens DEF LoggingOut, CollectAccess, CollectRefresh, BlacklistPair, DeleteAccessRow, UncacheAccess,
       DeleteRefreshRow, DeactivateSession, UncacheSession, UncacheRefresh, Step, LogoutSteps
  <1>2. Targets(loc[r]) = {loc[r].tok, Refresh(loc[r].sess)} /\ loc[r].found \subseteq Targets(loc[r])
    BY <1>0, <1>1 DEF Targets, AimedRequest
  <1> QED
    BY <1>2 DEF LoggingOut, Collect, CollectAccess, CollectRefresh, BlacklistPair, DeleteAccessRow, UncacheAccess,
       DeleteRefreshRow, DeactivateSession, UncacheSession, UncacheRefresh, stores

\* A step of LogoutAll takes or blacklists only tokens of its user.
LEMMA LogoutAllHits ==
  ASSUME Control, Aimed, NEW r \in Reqs, LoggingOutAll(r)
  PROVE  /\ rows \ rows' \subseteq Targets(loc[r])
         /\ cached \ cached' \subseteq Targets(loc[r])
         /\ blacklist' \ blacklist \subseteq Targets(loc[r])
  <1>0. AimedRequest(r)
    BY DEF Aimed
  <1>1. loc[r].op = "logoutAll"
    BY LocalTokens DEF LoggingOutAll, ListTokens, BlacklistAll, BlacklistAllFails, DeleteRows,
       DeactivateAll, ScanTokens, ScanTokensEnd, ScanSessions, Step, LogoutAllSteps
  <1>2. Targets(loc[r]) = UserTokens(Owner(loc[r].tok)) /\ loc[r].found \subseteq Targets(loc[r])
    BY <1>0, <1>1 DEF Targets, AimedRequest
  <1> QED
    BY <1>2 DEF LoggingOutAll, ListTokens, BlacklistAll, BlacklistAllFails, DeleteRows,
       DeactivateAll, ScanTokens, ScanTokensEnd, ScanSessions, stores

\* Nobody but a logout, and time, takes tokens away.
LEMMA OthersOnlyAdd ==
  ASSUME NEW r \in Reqs, RequestStep(r), ~LoggingOut(r), ~LoggingOutAll(r)
  PROVE  rows \subseteq rows' /\ cached \subseteq cached' /\ blacklist' = blacklist
  BY DEF RequestStep, Minting, BeginLogin, CreateSession, StoreAccess, CacheAccess,
     StoreRefresh, CacheRefresh, CacheSession, MintAccess, RejectRefresh, Authenticating, BeginRequest,
     CheckBlacklist, LookupToken, FinishUse, Respond, ReturnError, stores

\* A request at a step of a logout has passed authentication.
LEMMA LogoutIsAuthenticated ==
  ASSUME Control, NEW r \in Reqs, LoggingOut(r) \/ LoggingOutAll(r)
  PROVE  Authenticated(r)
  <1>1. pc[r] \in LogoutSteps \cup LogoutAllSteps
    BY DEF LoggingOut, CollectAccess, CollectRefresh, BlacklistPair, DeleteAccessRow, UncacheAccess,
       DeleteRefreshRow, DeactivateSession, UncacheSession, UncacheRefresh, LogoutSteps,
       LoggingOutAll, ListTokens, BlacklistAll, BlacklistAllFails, DeleteRows,
       DeactivateAll, ScanTokens, ScanTokensEnd, ScanSessions, LogoutAllSteps, Step
  <1>2. loc[r].tok \in Token
    BY <1>1, LocalTokens
  <1> QED
    BY <1>1, <1>2, ConstantsAssumption DEF Authenticated, Token, AuthSteps, LogoutSteps, LogoutAllSteps

\* Requests do not make time pass.
LEMMA ExpiredKept ==
  ASSUME NEW r \in Reqs, RequestStep(r)
  PROVE  expired' = expired
  BY DEF RequestStep, Minting, BeginLogin, CreateSession, StoreAccess, CacheAccess,
     StoreRefresh, CacheRefresh, CacheSession, MintAccess, RejectRefresh,
     Authenticating, BeginRequest, CheckBlacklist, LookupToken, FinishUse,
     LoggingOut, Collect, CollectAccess, CollectRefresh, BlacklistPair, DeleteAccessRow,
     UncacheAccess, DeleteRefreshRow, DeactivateSession, UncacheSession, UncacheRefresh,
     LoggingOutAll, ListTokens, BlacklistAll, BlacklistAllFails, DeleteRows,
     DeactivateAll, ScanTokens, ScanTokensEnd, ScanSessions, Respond, ReturnError, stores

\* NoCollateral for every instance, whatever fails: a valid token that does not
\* expire is lost only to a logout that is about it.
THEOREM LogoutsHitTheirTargets == Spec => NoCollateral
  <1> DEFINE Hit == \A t \in held : Usable(t) /\ ~Usable(t)' =>
                      \/ t \in expired'
                      \/ \E r \in Reqs : Authenticated(r) /\ t \in Targets(loc[r])
  <1>1. ASSUME Control, Aimed, [Next]_vars PROVE Hit
    <2>1. ASSUME NEW r \in Reqs, RequestStep(r), NEW t \in held, Usable(t), ~Usable(t)'
          PROVE  Authenticated(r) /\ t \in Targets(loc[r])
      <3>1. \/ t \in cached \ cached' \/ t \in blacklist' \ blacklist \/ t \in rows \ rows'
        BY <2>1, ExpiredKept DEF Usable
      <3>2. LoggingOut(r) \/ LoggingOutAll(r)
        BY <2>1, <3>1, OthersOnlyAdd
      <3> QED
        BY <1>1, <3>1, <3>2, LogoutHits, LogoutAllHits, LogoutIsAuthenticated
    <2>2. ASSUME NEW x \in Token, Expire(x), NEW t \in held, Usable(t), ~Usable(t)'
          PROVE  t \in expired'
      BY <2>2 DEF Expire, Usable
    <2>3. CASE UNCHANGED vars
      BY <2>3 DEF vars, stores, Usable
    <2> QED
      BY <1>1, <2>1, <2>2, <2>3 DEF Next
  <1>2. Control /\ Aimed /\ [Next]_vars => Aimed'
    BY AimedStep
  <1>3. Control /\ Aimed /\ [Next]_vars => [Hit]_vars
    BY <1>1
  <1> QED
    BY <1>2, <1>3, ControlInit, ControlStep, AimedInit, PTL DEF Spec, NoCollateral

-----------------------------------------------------------------------------
(***************************************************************************)
(* What logouts answer for is erased from the tables                       *)
(***************************************************************************)
\* The statements of a Logout do not fail.  With one of them failing, it still
\* answers with success when another row was deleted.
StatementsComplete == "logout" \notin DBFaults

\* What a logout has already erased from the tables, step by step.
ErasedRequest(r) ==
  LET l == loc[r] IN
  /\ l.op = "logout" =>
       /\ pc[r] \in {"uncacheAccess", "deleteRefreshRow", "deactivateSession",
                     "uncacheSession", "uncacheRefresh", "respond"} => l.tok \notin rows
       /\ pc[r] \in {"deactivateSession", "uncacheSession", "uncacheRefresh", "respond"} =>
            Refresh(l.sess) \notin rows
       /\ pc[r] \in {"uncacheSession", "uncacheRefresh", "respond"} =>
            session[l.sess] = "inactive"
  /\ l.op = "logoutAll" =>
       /\ pc[r] \in {"deactivateAll", "scanTokens", "scanSessions", "respond"} =>
            l.promise \cap rows = {}
       /\ pc[r] \in {"scanTokens", "scanSessions", "respond"} =>
            \A t \in l.promise : session[t.sess] = "inactive"

\* What logouts have answered for is erased, and those under way keep count.
Erased ==
  /\ \A k \in Logouts : \A t \in revoked[k] : t \notin rows /\ session[t.sess] = "inactive"
  /\ \A r \in Reqs : ErasedRequest(r)

\* A token that a client holds, once erased, stays erased.
LEMMA ErasureLasts ==
  ASSUME Control, Aimed, [Next]_vars, NEW t \in held
  PROVE  /\ t \notin rows => t \notin rows'
         /\ session[t.sess] = "inactive" => session'[t.sess] = "inactive"
  <1>1. t \notin rows => t \notin rows'
    BY StoresShrink
  <1>2. ASSUME NEW r \in Reqs, RequestStep(r), session[t.sess] = "inactive" PROVE session'[t.sess] = "inactive"
    BY <1>2, HeldSessionStep DEF Aimed
  <1>3. (\E x \in Token : Expire(x)) \/ UNCHANGED vars => session' = session
    BY DEF Expire, vars, stores
  <1> QED
    BY <1>1, <1>2, <1>3 DEF Next

\* The tokens of a logout are held by clients.
LEMMA LogoutTokensHeld ==
  ASSUME Control, Aimed, NEW r \in Reqs
  PROVE  /\ loc[r].op = "logout" => /\ loc[r].tok \in held
                                    /\ loc[r].tok.sess = loc[r].sess
                                    /\ Refresh(loc[r].sess) \in held
                                    /\ Refresh(loc[r].sess).sess = loc[r].sess
                                    /\ loc[r].promise = {loc[r].tok, Refresh(loc[r].sess)}
         /\ loc[r].op = "logoutAll" => /\ loc[r].promise \subseteq held
                                       /\ loc[r].promise \subseteq UserTokens(Owner(loc[r].tok))
  BY ControlFacts, RefreshOf DEF WellFormed, Aimed, AimedRequest, RefreshHeld

\* A request that has just passed authentication, or has not, has erased
\* nothing yet.
LEMMA NothingErasedYet ==
  ASSUME Control, NEW r \in Reqs, CheckBlacklist(r) \/ LookupToken(r)
  PROVE  Return(r) \/ (loc' = loc /\ pc'[r] \in AuthSteps \cup
           {"mint", "accepted", "collectAccess", "deleteAccessRow", "listTokens", "deleteRows"})
  <1>1. TypeOK /\ loc[r] \in LocType
    BY ControlFacts
  <1>2. loc[r].op \in {"refresh", "use", "logout", "logoutAll"}
    BY <1>1, LocalTokens DEF CheckBlacklist, LookupToken, AuthSteps, LocType, Ops, Logouts
  <1> QED
    BY <1>1, <1>2 DEF CheckBlacklist, LookupToken, Step, HandlerOf, AuthSteps, TypeOK

\* Each statement of a Logout erases its part.
LEMMA LogoutErases ==
  ASSUME Control, Aimed, StatementsComplete, [Next]_vars,
         NEW r \in Reqs, ErasedRequest(r), LoggingOut(r), Advance(r), loc[r].op = "logout"
  PROVE  ErasedRequest(r)'
  <1>0. TypeOK /\ loc[r] \in LocType /\ ~DBFails(r)
    BY ControlFacts DEF DBFails, StatementsComplete
  <1>a. /\ loc'[r].op = "logout" /\ loc'[r].tok = loc[r].tok /\ loc'[r].sess = loc[r].sess
        /\ loc[r].tok \notin rows => loc[r].tok \notin rows'
        /\ Refresh(loc[r].sess) \notin rows => Refresh(loc[r].sess) \notin rows'
        /\ session[loc[r].sess] = "inactive" => session'[loc[r].sess] = "inactive"
        /\ loc[r].sess \in Sessions
    BY <1>0, ErasureLasts, LogoutTokensHeld, LocalTokens DEF Advance, SameRequest
  <1>1. CASE CollectAccess(r) \/ CollectRefresh(r) \/ BlacklistPair(r)
    <2>1. pc'[r] \in {"collectRefresh", "blacklistPair", "deleteAccessRow"}
      BY <1>0, <1>1 DEF CollectAccess, CollectRefresh, Collect, BlacklistPair, Step, TypeOK
    <2> QED
      BY <1>a, <2>1 DEF ErasedRequest
  <1>2. CASE DeleteAccessRow(r)
    <2>1. pc'[r] \in {"uncacheAccess", "deleteRefreshRow"} /\ loc[r].tok \notin rows'
      BY <1>0, <1>2 DEF DeleteAccessRow, Step, TypeOK
    <2> QED
      BY <1>a, <2>1 DEF ErasedRequest
  <1>3. CASE UncacheAccess(r)
    <2>1. pc[r] = "uncacheAccess" /\ pc'[r] = "deleteRefreshRow"
      BY <1>0, <1>3 DEF UncacheAccess, Step, TypeOK
    <2> QED
      BY <1>a, <2>1 DEF ErasedRequest
  <1>4. CASE DeleteRefreshRow(r)
    <2>1. pc[r] = "deleteRefreshRow" /\ pc'[r] = "deactivateSession" /\ Refresh(loc[r].sess) \notin rows'
      BY <1>0, <1>4 DEF DeleteRefreshRow, TypeOK
    <2> QED
      BY <1>a, <2>1 DEF ErasedRequest
  <1>5. CASE DeactivateSession(r)
    <2>1. /\ pc[r] = "deactivateSession" /\ pc'[r] \in {"uncacheSession", "respond"}
          /\ session'[loc[r].sess] = "inactive"
      BY <1>0, <1>a, <1>5 DEF DeactivateSession, Step, TypeOK
    <2> QED
      BY <1>a, <2>1 DEF ErasedRequest
  <1>6. CASE UncacheSession(r) \/ UncacheRefresh(r)
    <2>1. /\ pc[r] \in {"uncacheSession", "uncacheRefresh"}
          /\ pc'[r] \in {"uncacheRefresh", "respond"}
      BY <1>0, <1>6 DEF UncacheSession, UncacheRefresh, Step, TypeOK
    <2> QED
      BY <1>a, <2>1 DEF ErasedRequest
  <1> QED
    BY <1>1, <1>2, <1>3, <1>4, <1>5, <1>6 DEF LoggingOut

\* So does each statement of a LogoutAll.
LEMMA LogoutAllErases ==
  ASSUME Control, Aimed, [Next]_vars,
         NEW r \in Reqs, ErasedRequest(r), LoggingOutAll(r), Advance(r), loc[r].op = "logoutAll"
  PROVE  ErasedRequest(r)'
  <1> DEFINE P == loc[r].promise
  <1>0. TypeOK /\ loc[r] \in LocType
    BY ControlFacts
  <1>a. /\ loc'[r].op = "logoutAll" /\ loc'[r].promise = P
        /\ P \subseteq held /\ P \subseteq UserTokens(Owner(loc[r].tok))
        /\ P \cap rows = {} => P \cap rows' = {}
        /\ (\A t \in P : session[t.sess] = "inactive") => \A t \in P : session'[t.sess] = "inactive"
    BY <1>0, ErasureLasts, LogoutTokensHeld DEF Advance, SameRequest
  <1>1. CASE ListTokens(r) \/ BlacklistAll(r) \/ BlacklistAllFails(r)
    <2>1. pc'[r] \in {"blacklistAll", "deleteRows", "blacklistFailed"}
      BY <1>0, <1>1 DEF ListTokens, BlacklistAll, BlacklistAllFails, Step, TypeOK
    <2> QED
      BY <1>a, <2>1 DEF ErasedRequest
  <1>2. CASE DeleteRows(r)
    <2>1. pc'[r] = "deactivateAll" /\ P \cap rows' = {}
      BY <1>0, <1>a, <1>2 DEF DeleteRows, Step, TypeOK
    <2> QED
      BY <1>a, <2>1 DEF ErasedRequest
  <1>3. CASE DeactivateAll(r)
    <2>1. pc[r] = "deactivateAll" /\ pc'[r] \in {"scanTokens", "respond"}
      BY <1>0, <1>3 DEF DeactivateAll, Step, TypeOK
    <2>2. ASSUME NEW t \in P PROVE session'[t.sess] = "inactive"
      <3>1. t \in held /\ t.sess \in Sessions /\ UserOf[t.sess] = Owner(loc[r].tok)
        BY <1>a, ControlFacts DEF UserTokens, Owner, Token
      <3>2. session[t.sess] \in {"active", "inactive"}
        BY <1>0, <3>1 DEF Aimed, SessionsExist, TypeOK
      <3> QED
        BY <1>3, <3>1, <3>2 DEF DeactivateAll
    <2> QED
      BY <1>a, <2>1, <2>2 DEF ErasedRequest
  <1>4. CASE ScanTokens(r) \/ ScanTokensEnd(r) \/ ScanSessions(r)
    <2>1. pc[r] \in {"scanTokens", "scanSessions"} /\ pc'[r] \in {"scanTokens", "scanSessions", "respond"}
      BY <1>0, <1>4 DEF ScanTokens, ScanTokensEnd, ScanSessions, Step, TypeOK
    <2> QED
      BY <1>a, <2>1 DEF ErasedRequest
  <1> QED
    BY <1>1, <1>2, <1>3, <1>4 DEF LoggingOutAll

\* Every step keeps what has been erased so far.
LEMMA ErasedStep ==
  ASSUME Control, Aimed, Erased, StatementsComplete, [Next]_vars
  PROVE  Erased'
  <1>0. TypeOK /\ \A q \in Reqs : loc[q] \in LocType
    BY ControlFacts
  <1>1. ASSUME NEW q \in Reqs, pc'[q] = pc[q], loc'[q] = loc[q]
        PROVE  ErasedRequest(q)'
    <2>1. /\ loc[q].op = "logout" =>
               /\ loc[q].tok \notin rows => loc[q].tok \notin rows'
               /\ Refresh(loc[q].sess) \notin rows => Refresh(loc[q].sess) \notin rows'
               /\ session[loc[q].sess] = "inactive" => session'[loc[q].sess] = "inactive"
          /\ loc[q].op = "logoutAll" => \A t \in loc[q].promise :
               /\ t \notin rows => t \notin rows'
               /\ session[t.sess] = "inactive" => session'[t.sess] = "inactive"
      BY ErasureLasts, LogoutTokensHeld
    <2>2. ErasedRequest(q)
      BY DEF Erased
    <2> QED
      BY <1>1, <2>1, <2>2 DEF ErasedRequest
  <1>2. ASSUME NEW r \in Reqs, RequestStep(r) PROVE ErasedRequest(r)'
    <2>1. CASE Return(r)
      <3>1. loc'[r].op = "none"
        BY <1>0, <2>1, BlankIsIdle DEF Return, TypeOK
      <3> QED
        BY <3>1 DEF ErasedRequest
    <2>2. ASSUME NEW s \in Sessions, BeginLogin(r, s) PROVE ErasedRequest(r)'
      <3>1. loc'[r].op = "login"
        BY <1>0, <2>2 DEF BeginLogin, TypeOK, Blank
      <3> QED
        BY <3>1 DEF ErasedRequest
    <2>3. ASSUME NEW t \in Token, NEW op \in Ops, BeginRequest(r, t, op) PROVE ErasedRequest(r)'
      <3>1. pc'[r] \in AuthSteps
        BY <1>0, <2>3 DEF BeginRequest, Step, TypeOK, AuthSteps
      <3> QED
        BY <3>1 DEF ErasedRequest, AuthSteps
    <2>4. CASE MintAccess(r)
      <3>1. loc'[r].op = "refresh"
        BY <1>0, <2>4, LocalTokens DEF MintAccess, Step, TypeOK, LocType
      <3> QED
        BY <3>1 DEF ErasedRequest
    <2>5. CASE Advance(r) /\ loc[r].op \notin Logouts
      BY <2>5 DEF Advance, SameRequest, ErasedRequest, Logouts
    <2>6. CASE CheckBlacklist(r) \/ LookupToken(r)
      BY <2>1, <2>6, NothingErasedYet DEF ErasedRequest, AuthSteps
    <2>7. CASE LoggingOut(r) /\ loc[r].op = "logout"
      BY <2>7, LogoutErases, LoggingOutShape DEF Erased
    <2>8. CASE LoggingOutAll(r) /\ loc[r].op = "logoutAll"
      BY <2>8, LogoutAllErases, LoggingOutAllShape DEF Erased
    <2> QED
      BY <1>2, <2>1, <2>2, <2>3, <2>4, <2>5, <2>6, <2>7, <2>8, StepShape, LogoutPath, LogoutAllPath
         DEF Respond, Finish, Logouts
  <1>3. ASSUME NEW k \in Logouts, NEW t \in revoked'[k]
        PROVE  t \notin rows' /\ session'[t.sess] = "inactive"
    <2>1. CASE t \in revoked[k]
      BY <2>1, ErasureLasts DEF Aimed, Erased
    <2>2. ASSUME NEW r \in Reqs, Respond(r), t \notin revoked[k]
          PROVE  t \notin rows' /\ session'[t.sess] = "inactive"
      <3>1. t \in loc[r].promise /\ loc[r].op \in Logouts /\ pc[r] = "respond"
        BY <1>0, <1>3, <2>2 DEF Respond, TypeOK, Logouts
      <3>2. t \notin rows /\ session[t.sess] = "inactive"
        BY <3>1, LogoutTokensHeld DEF Erased, ErasedRequest, Logouts
      <3> QED
        BY <2>2, <3>2 DEF Respond, stores
    <2>3. revoked' = revoked \/ \E r \in Reqs : Respond(r)
      BY RevokedByAnswers DEF Next, Expire, vars, history
    <2> QED
      BY <1>3, <2>1, <2>2, <2>3
  <1>4. ASSUME NEW r \in Reqs, RequestStep(r) PROVE Erased'
    BY <1>1, <1>2, <1>3, <1>4, OthersKept DEF Erased
  <1>5. ASSUME pc' = pc, loc' = loc PROVE Erased'
    BY <1>1, <1>3, <1>5 DEF Erased
  <1> QED
    BY <1>4, <1>5 DEF Next, Expire, vars

\* Nothing has been revoked at the start.
LEMMA ErasedInit == Init => Erased
  <1> SUFFICES ASSUME Init PROVE Erased
    OBVIOUS
  <1>1. \A r \in Reqs : loc[r].op = "none"
    BY BlankIsIdle DEF Init
  <1> QED
    BY <1>1 DEF Init, Erased, ErasedRequest

\* RevokedIsErased for every instance in which the statements of Logout do not
\* fail, whatever happens to Redis and to the other operations: no token that a
\* logout has answered for has a row, or a session that is active, ever again.
THEOREM RevokedTokensAreErased ==
  ASSUME StatementsComplete
  PROVE  Spec => []RevokedIsErased
  <1>1. Erased => RevokedIsErased
    BY DEF Erased, RevokedIsErased, Logouts
  <1>2. Control /\ Aimed /\ Erased /\ [Next]_vars => Erased'
    BY ErasedStep
  <1> QED
    BY <1>1, <1>2, ControlInit, ControlStep, AimedInit, AimedStep, ErasedInit, PTL DEF Spec

-----------------------------------------------------------------------------
(***************************************************************************)
(* Logout                                                                  *)
(***************************************************************************)
\* The commands by which a Logout removes keys from Redis do not fail; a
\* failure of theirs is ignored, and the key stays.
CommandsComplete == RedisEnabled => "logout" \notin RedisFaults

\* What a Logout has already taken from Redis, and whether it knows the hash
\* of the refresh token that it is to remove.
UncachedRequest(r) ==
  loc[r].op = "logout" =>
    /\ pc[r] \in {"deleteRefreshRow", "deactivateSession", "uncacheSession", "uncacheRefresh", "respond"} =>
         loc[r].tok \notin cached
    /\ pc[r] \in {"deactivateSession", "uncacheSession", "uncacheRefresh"} =>
         loc[r].found = {Refresh(loc[r].sess)}
    /\ pc[r] = "respond" => Refresh(loc[r].sess) \notin cached

\* What Logouts have answered for is out of Redis, and those under way keep count.
Uncached ==
  /\ revoked["logout"] \cap cached = {}
  /\ \A r \in Reqs : UncachedRequest(r)

\* Each command of a Logout removes its key.
LEMMA LogoutUncaches ==
  ASSUME Control, Aimed, StatementsComplete, RedisEnabled, CommandsComplete, [Next]_vars,
         NEW r \in Reqs, UncachedRequest(r), LoggingOut(r), Advance(r), loc[r].op = "logout"
  PROVE  UncachedRequest(r)'
  <1>0. TypeOK /\ loc[r] \in LocType /\ ~DBFails(r) /\ ~RedisFails(r)
    BY ControlFacts DEF DBFails, RedisFails, StatementsComplete, CommandsComplete
  <1>a. /\ loc'[r].op = "logout" /\ loc'[r].tok = loc[r].tok /\ loc'[r].sess = loc[r].sess
        /\ loc[r].tok \notin cached => loc[r].tok \notin cached'
    BY <1>0, StoresShrink, LogoutTokensHeld DEF Advance, SameRequest
  <1>1. CASE CollectAccess(r) \/ CollectRefresh(r) \/ BlacklistPair(r) \/ DeleteAccessRow(r)
    <2>1. pc'[r] \in {"collectRefresh", "blacklistPair", "deleteAccessRow", "uncacheAccess"}
      BY <1>0, <1>1 DEF CollectAccess, CollectRefresh, Collect, BlacklistPair, DeleteAccessRow, Step, TypeOK
    <2> QED
      BY <1>a, <2>1 DEF UncachedRequest
  <1>2. CASE UncacheAccess(r)
    <2>1. pc'[r] = "deleteRefreshRow" /\ loc[r].tok \notin cached'
      BY <1>0, <1>2 DEF UncacheAccess, Step, TypeOK
    <2> QED
      BY <1>a, <2>1 DEF UncachedRequest
  <1>3. CASE DeleteRefreshRow(r)
    <2> DEFINE t == Refresh(loc[r].sess)
               l == [loc[r] EXCEPT !.found = {t}]
               d == t \in rows
    <2>1. pc[r] = "deleteRefreshRow" /\ pc'[r] = "deactivateSession"
      BY <1>0, <1>3 DEF DeleteRefreshRow, TypeOK
    <2>2. loc' = [loc EXCEPT ![r] = [l EXCEPT !.dropped = d]]
      BY <1>0, <1>3 DEF DeleteRefreshRow
    <2>3. [l EXCEPT !.dropped = d].found = {t}
      BY <1>0 DEF LocType
    <2> HIDE DEF l, d
    <2>4. loc'[r].found = {t}
      BY <1>0, <2>2, <2>3 DEF TypeOK
    <2> QED
      BY <1>a, <2>1, <2>4 DEF UncachedRequest
  <1>4. CASE DeactivateSession(r)
    <2>1. /\ pc[r] = "deactivateSession" /\ pc'[r] = "uncacheSession"
          /\ loc'[r].found = loc[r].found
      BY <1>0, <1>4 DEF DeactivateSession, Step, TypeOK, LocType
    <2> QED
      BY <1>a, <2>1 DEF UncachedRequest
  <1>5. CASE UncacheSession(r)
    <2>1. pc[r] = "uncacheSession" /\ pc'[r] = "uncacheRefresh" /\ loc' = loc
      BY <1>0, <1>5 DEF UncacheSession, Step, TypeOK
    <2> QED
      BY <1>a, <2>1 DEF UncachedRequest
  <1>6. CASE UncacheRefresh(r)
    <2>1. /\ pc[r] = "uncacheRefresh" /\ pc'[r] = "respond"
          /\ cached' = cached \ loc[r].found
      BY <1>0, <1>6 DEF UncacheRefresh, Step, TypeOK
    <2> QED
      BY <1>a, <2>1 DEF UncachedRequest
  <1> QED
    BY <1>1, <1>2, <1>3, <1>4, <1>5, <1>6 DEF LoggingOut

\* Every step keeps what logouts have removed so far.
LEMMA UncachedStep ==
  ASSUME Control, Aimed, Uncached, StatementsComplete, RedisEnabled, CommandsComplete, [Next]_vars
  PROVE  Uncached'
  <1>0. TypeOK /\ \A q \in Reqs : loc[q] \in LocType
    BY ControlFacts
  <1>1. ASSUME NEW q \in Reqs, pc'[q] = pc[q], loc'[q] = loc[q]
        PROVE  UncachedRequest(q)'
    <2>1. loc[q].op = "logout" =>
            /\ loc[q].tok \notin cached => loc[q].tok \notin cached'
            /\ Refresh(loc[q].sess) \notin cached => Refresh(loc[q].sess) \notin cached'
      BY StoresShrink, LogoutTokensHeld
    <2> QED
      BY <1>1, <2>1 DEF Uncached, UncachedRequest
  <1>2. ASSUME NEW r \in Reqs, RequestStep(r) PROVE UncachedRequest(r)'
    <2>1. CASE Return(r)
      <3>1. loc'[r].op = "none"
        BY <1>0, <2>1, BlankIsIdle DEF Return, TypeOK
      <3> QED
        BY <3>1 DEF UncachedRequest
    <2>2. ASSUME NEW s \in Sessions, BeginLogin(r, s) PROVE UncachedRequest(r)'
      <3>1. loc'[r].op = "login"
        BY <1>0, <2>2 DEF BeginLogin, TypeOK, Blank
      <3> QED
        BY <3>1 DEF UncachedRequest
    <2>3. ASSUME NEW t \in Token, NEW op \in Ops, BeginRequest(r, t, op) PROVE UncachedRequest(r)'
      <3>1. pc'[r] \in AuthSteps
        BY <1>0, <2>3 DEF BeginRequest, Step, TypeOK, AuthSteps
      <3> QED
        BY <3>1 DEF UncachedRequest, AuthSteps
    <2>4. CASE MintAccess(r)
      <3>1. loc'[r].op = "refresh"
        BY <1>0, <2>4, LocalTokens DEF MintAccess, Step, TypeOK, LocType
      <3> QED
        BY <3>1 DEF UncachedRequest
    <2>5. CASE Advance(r) /\ loc[r].op # "logout"
      BY <2>5 DEF Advance, SameRequest, UncachedRequest
    <2>6. CASE CheckBlacklist(r) \/ LookupToken(r)
      BY <2>1, <2>6, NothingErasedYet DEF UncachedRequest, AuthSteps
    <2>7. CASE LoggingOut(r) /\ loc[r].op = "logout"
      BY <2>7, LogoutUncaches, LoggingOutShape DEF Uncached
    <2> QED
      BY <1>2, <2>1, <2>2, <2>3, <2>4, <2>5, <2>6, <2>7, StepShape, LogoutPath DEF Respond, Finish
  <1>3. ASSUME NEW t \in revoked'["logout"] PROVE t \notin cached'
    <2>1. CASE t \in revoked["logout"]
      BY <2>1, StoresShrink DEF Aimed, Uncached, Logouts
    <2>2. ASSUME NEW r \in Reqs, Respond(r), t \notin revoked["logout"] PROVE t \notin cached'
      <3>1. t \in loc[r].promise /\ loc[r].op = "logout" /\ pc[r] = "respond"
        BY <1>0, <1>3, <2>2 DEF Respond, TypeOK, Logouts
      <3>2. t \notin cached
        BY <3>1, LogoutTokensHeld DEF Uncached, UncachedRequest
      <3> QED
        BY <2>2, <3>2 DEF Respond, stores
    <2>3. revoked' = revoked \/ \E r \in Reqs : Respond(r)
      BY RevokedByAnswers DEF Next, Expire, vars, history
    <2> QED
      BY <1>3, <2>1, <2>2, <2>3
  <1>4. ASSUME NEW r \in Reqs, RequestStep(r) PROVE Uncached'
    BY <1>1, <1>2, <1>3, <1>4, OthersKept DEF Uncached
  <1>5. ASSUME pc' = pc, loc' = loc PROVE Uncached'
    BY <1>1, <1>3, <1>5 DEF Uncached
  <1> QED
    BY <1>4, <1>5 DEF Next, Expire, vars

\* No Logout has answered in the beginning.
LEMMA UncachedInit == Init => Uncached
  <1> SUFFICES ASSUME Init PROVE Uncached
    OBVIOUS
  <1>1. \A r \in Reqs : loc[r].op = "none"
    BY BlankIsIdle DEF Init
  <1> QED
    BY <1>1 DEF Init, Uncached, UncachedRequest, Logouts

\* LogoutIsFinal for every instance in which neither the statements nor the
\* commands of Logout fail: once it has answered with success, neither the
\* token presented nor the refresh token of its session is ever valid again,
\* whatever logins, refreshes and other logouts ran in between.
THEOREM LogoutHolds ==
  ASSUME StatementsComplete, CommandsComplete
  PROVE  Spec => []LogoutIsFinal
  <1> DEFINE Gone == RedisEnabled => Uncached
  <1>1. Erased /\ Gone => LogoutIsFinal
    BY DEF Erased, Uncached, LogoutIsFinal, Usable, Logouts
  <1>2. Control /\ Aimed /\ Erased /\ [Next]_vars => Erased'
    BY ErasedStep
  <1>3. Control /\ Aimed /\ Gone /\ [Next]_vars => Gone'
    BY UncachedStep
  <1>4. Init => Gone
    BY UncachedInit
  <1> HIDE DEF Gone
  <1> QED
    BY <1>1, <1>2, <1>3, <1>4, ControlInit, ControlStep, AimedInit, AimedStep, ErasedInit, PTL DEF Spec

-----------------------------------------------------------------------------
(***************************************************************************)
(* The implementation of RevocableTokens                                   *)
(***************************************************************************)
\* The tokens of a request that are not in the last of their stores yet.
Storing(r) ==
  IF pc[r] \in {"createSession", "storeAccess", "cacheAccess"}
  THEN {loc[r].new} \cup (IF loc[r].op = "login" THEN {Refresh(loc[r].sess)} ELSE {})
  ELSE IF pc[r] \in {"storeRefresh", "cacheRefresh"} THEN {Refresh(loc[r].sess)} ELSE {}

\* The steps that are commands of Redis, or lead to one.
RedisSteps ==
  {"checkBlacklist", "collectAccess", "collectRefresh", "blacklistPair", "uncacheAccess",
   "uncacheSession", "uncacheRefresh", "listTokens", "blacklistAll", "blacklistFailed",
   "scanTokens", "scanSessions", "cacheAccess", "cacheRefresh", "cacheSession"}

\* The stores hold what has been minted, and what is still being stored is not
\* in the store that the middleware reads.
Stored ==
  /\ \A t \in rows \cup cached \cup blacklist : Minted(t)
  /\ expired \subseteq held
  /\ \A r \in Reqs : /\ Storing(r) \cap Live = {}
                     /\ \A t \in loc[r].found : Minted(t)
                     /\ loc[r].tok = None => ~loc[r].live
  /\ ~RedisEnabled => blacklist = {} /\ \A r \in Reqs : pc[r] \notin RedisSteps

-----------------------------------------------------------------------------
\* What a request stores is minted, and is held by nobody.
LEMMA StoringFacts ==
  ASSUME Control, NEW r \in Reqs
  PROVE  /\ Storing(r) \subseteq Token
         /\ \A t \in Storing(r) : Minted(t) /\ t \notin held
         /\ Storing(r) # {} => pc[r] \in StoreSteps
         /\ pc[r] \in StoreSteps => /\ loc[r].new # Refresh(loc[r].sess)
                                    /\ loc[r].new \in Token /\ loc[r].sess \in Sessions
                                    /\ 0 < loc[r].new.num /\ loc[r].new.num <= issued[loc[r].sess]
                                    /\ loc[r].new.sess = loc[r].sess
                                    /\ loc[r].op \in {"login", "refresh"}
                                    /\ pc[r] \notin {"storeAccess", "cacheAccess"} => loc[r].op = "login"
                                    /\ loc[r].op = "login" => loc[r].tok = None
  <1>0. /\ WellFormed(r) /\ TypeOK /\ loc[r] \in LocType
        /\ pc[r] \in StoreSteps => loc[r].sess \in Sessions /\ loc[r].new \in Token
        /\ Refresh(loc[r].sess).num = 0 /\ Refresh(loc[r].sess).sess = loc[r].sess
    BY ControlFacts, LocalTokens, RefreshOf
  <1>1. pc[r] \in StoreSteps =>
          /\ loc[r].op \in {"login", "refresh"}
          /\ pc[r] \notin {"storeAccess", "cacheAccess"} => loc[r].op = "login"
    BY <1>0 DEF WellFormed, StepsOf, LocType, Ops, Logouts, StoreSteps, AuthSteps, LogoutSteps, LogoutAllSteps
  <1>2. pc[r] \in StoreSteps =>
          /\ loc[r].new.sess = loc[r].sess
          /\ 0 < loc[r].new.num /\ loc[r].new.num <= issued[loc[r].sess]
          /\ loc[r].op = "login" => loc[r].tok = None
    BY <1>0, <1>1 DEF WellFormed, StoreSteps, AuthSteps
  <1>3. Storing(r) # {} => pc[r] \in StoreSteps
    BY DEF Storing, StoreSteps
  <1>4. Storing(r) \subseteq {loc[r].new, Refresh(loc[r].sess)} /\ (Refresh(loc[r].sess) \in Storing(r) /\ pc[r] \in StoreSteps =>
          loc[r].op = "login" \/ Refresh(loc[r].sess) = loc[r].new)
    BY <1>1 DEF Storing, StoreSteps
  <1>5. pc[r] \in StoreSteps => loc[r].new # Refresh(loc[r].sess)
    BY <1>0, <1>2
  <1>6. pc[r] \in StoreSteps =>
          /\ Minted(loc[r].new) /\ Minted(Refresh(loc[r].sess))
          /\ Refresh(loc[r].sess) \in Token
    <2>1. pc[r] \in StoreSteps => loc[r].new.num \in Nat /\ issued[loc[r].sess] \in Nat
      BY <1>0, ConstantsAssumption DEF Token, TypeOK
    <2> QED
      BY <1>0, <1>2, <2>1, LocalTokens DEF Minted
  <1>7. pc[r] \in StoreSteps => loc[r].new \notin held /\ (loc[r].op = "login" => Refresh(loc[r].sess) \notin held)
    BY <1>0, ConstantsAssumption DEF Control, Fresh, Token
  <1> QED
    BY <1>0, <1>1, <1>2, <1>3, <1>4, <1>5, <1>6, <1>7

\* No two requests store the same token.
LEMMA StoringApart ==
  ASSUME Control, NEW r \in Reqs, NEW q \in Reqs, r # q
  PROVE  Storing(r) \cap Storing(q) = {}
  <1> SUFFICES ASSUME NEW t \in Storing(r), t \in Storing(q) PROVE FALSE
    OBVIOUS
  <1>1. /\ pc[r] \in StoreSteps /\ pc[q] \in StoreSteps
    BY StoringFacts
  <1>2. /\ t = loc[r].new \/ (t = Refresh(loc[r].sess) /\ loc[r].op = "login")
        /\ t = loc[q].new \/ (t = Refresh(loc[q].sess) /\ loc[q].op = "login")
    BY <1>1, StoringFacts DEF Storing
  <1>3. /\ loc[r].new # loc[q].new
        /\ loc[r].op = "login" /\ loc[q].op = "login" => loc[r].sess # loc[q].sess
    BY <1>1, StoringFacts, ConstantsAssumption DEF Control, Fresh, Token
  <1>4. /\ loc[r].new.num > 0 /\ loc[q].new.num > 0
    BY <1>1, StoringFacts, ConstantsAssumption DEF Token
  <1> QED
    BY <1>2, <1>3, <1>4, RefreshOf

\* InFlight, as the refinement mapping has it, is about what is being stored.
LEMMA InFlightIsStoring == \A t : InFlight(t) <=> \E r \in Reqs : t \in Storing(r)
  <1> TAKE t
  <1>1. ASSUME NEW r \in Reqs
        PROVE  (t \in Storing(r)) <=>
                 \/ /\ pc[r] \in {"createSession", "storeAccess", "cacheAccess"}
                    /\ t \in {loc[r].new} \cup (IF loc[r].op = "login" THEN {Refresh(loc[r].sess)} ELSE {})
                 \/ /\ pc[r] \in {"storeRefresh", "cacheRefresh"}
                    /\ t = Refresh(loc[r].sess)
    BY DEF Storing
  <1> QED
    BY <1>1 DEF InFlight

-----------------------------------------------------------------------------
\* The six steps that store tokens.
StoreStep(r) == \/ CreateSession(r) \/ StoreAccess(r) \/ CacheAccess(r)
                \/ StoreRefresh(r) \/ CacheRefresh(r) \/ CacheSession(r)

\* Such a step puts one of the request's tokens into the last of its stores,
\* or none.
LEMMA StoreEffect ==
  ASSUME Control, Stored, NEW r \in Reqs, StoreStep(r)
  PROVE  /\ loc' = loc /\ issued' = issued /\ expired' = expired /\ blacklist' = blacklist /\ held' = held
         /\ pc[r] \in StoreSteps /\ pc'[r] \in StoreSteps \cup {"respond"}
         /\ rows' \subseteq rows \cup {loc[r].new, Refresh(loc[r].sess)}
         /\ cached' \subseteq cached \cup {loc[r].new, Refresh(loc[r].sess)}
         /\ \/ Live' = Live /\ Storing(r)' = Storing(r)
            \/ \E t \in Storing(r) : Live' = Live \cup {t} /\ Storing(r)' = Storing(r) \ {t}
  <1>0. TypeOK /\ pc[r] \in StoreSteps
    BY ControlFacts DEF StoreStep, CreateSession, StoreAccess, CacheAccess, StoreRefresh, CacheRefresh,
       CacheSession, Step, StoreSteps
  <1>a. /\ loc[r].new # Refresh(loc[r].sess)
        /\ loc[r].op \in {"login", "refresh"}
        /\ pc[r] \notin {"storeAccess", "cacheAccess"} => loc[r].op = "login"
        /\ pc[r] \in {"cacheAccess", "cacheRefresh", "cacheSession"} => RedisEnabled
    BY <1>0, StoringFacts DEF Stored, RedisSteps
  <1>1. CASE CreateSession(r)
    BY <1>0, <1>a, <1>1 DEF CreateSession, Step, TypeOK, StoreSteps, Storing, Live, history
  <1>2. CASE StoreAccess(r)
    BY <1>0, <1>a, <1>2 DEF StoreAccess, AfterAccess, Step, TypeOK, StoreSteps, Storing, Live, history
  <1>3. CASE CacheAccess(r)
    BY <1>0, <1>a, <1>3 DEF CacheAccess, AfterAccess, Step, TypeOK, StoreSteps, Storing, Live, history
  <1>4. CASE StoreRefresh(r)
    BY <1>0, <1>a, <1>4 DEF StoreRefresh, Step, TypeOK, StoreSteps, Storing, Live, history
  <1>5. CASE CacheRefresh(r)
    BY <1>0, <1>a, <1>5 DEF CacheRefresh, Step, TypeOK, StoreSteps, Storing, Live, history
  <1>6. CASE CacheSession(r)
    BY <1>0, <1>a, <1>6 DEF CacheSession, Step, TypeOK, StoreSteps, Storing, Live, history
  <1> QED
    BY <1>1, <1>2, <1>3, <1>4, <1>5, <1>6 DEF StoreStep

\* A step of a logout only takes tokens out, or blacklists what it has found.
LEMMA LogoutEffect ==
  ASSUME Control, Aimed, NEW r \in Reqs, LoggingOut(r) \/ LoggingOutAll(r)
  PROVE  /\ issued' = issued /\ expired' = expired /\ held' = held
         /\ rows' \subseteq rows /\ cached' \subseteq cached
         /\ blacklist \subseteq blacklist' /\ blacklist' \subseteq blacklist \cup loc[r].found
         /\ loc'[r].found \subseteq loc[r].found \cup rows \cup cached \cup held
         /\ SameRequest(r)
         /\ pc[r] \in LogoutSteps \cup LogoutAllSteps
         /\ pc'[r] \in LogoutSteps \cup LogoutAllSteps \cup {"respond"}
         /\ Storing(r) = {} /\ Storing(r)' = {}
  <1>0. TypeOK /\ loc[r] \in LocType
    BY ControlFacts
  <1>1. /\ pc[r] \in LogoutSteps \cup LogoutAllSteps
        /\ pc'[r] \in LogoutSteps \cup LogoutAllSteps \cup {"respond"}
    <2>1. CASE LoggingOut(r)
      BY <1>0, <2>1 DEF LoggingOut, Collect, CollectAccess, CollectRefresh, Step,
         BlacklistPair, DeleteAccessRow, UncacheAccess, DeleteRefreshRow,
         DeactivateSession, UncacheSession, UncacheRefresh, LogoutSteps, TypeOK
    <2>2. CASE LoggingOutAll(r)
      BY <1>0, <2>2 DEF LoggingOutAll, ListTokens, BlacklistAll, BlacklistAllFails, Step,
         DeleteRows, DeactivateAll, ScanTokens, ScanTokensEnd, ScanSessions, LogoutAllSteps, TypeOK
    <2> QED
      BY <2>1, <2>2
  <1>2. SameRequest(r) /\ held' = held /\ issued' = issued
    BY LoggingOutShape, LoggingOutAllShape DEF Advance
  <1>3. Storing(r) = {} /\ Storing(r)' = {}
    BY <1>1 DEF Storing, LogoutSteps, LogoutAllSteps
  <1>4. CASE LoggingOut(r)
    <2>1. loc[r].op = "logout"
      BY <1>4, LocalTokens DEF LoggingOut, CollectAccess, CollectRefresh, BlacklistPair, DeleteAccessRow,
         UncacheAccess, DeleteRefreshRow, DeactivateSession, UncacheSession, UncacheRefresh, Step, LogoutSteps
    <2>2. AimedRequest(r)' /\ loc'[r].op = "logout"
      BY <1>2, <1>4, <2>1, AimedRequestStep DEF RequestStep, SameRequest
    <2>3. loc'[r].found \subseteq held
      BY <1>2, <2>1, <2>2, LogoutTokensHeld DEF AimedRequest, SameRequest
    <2> QED
      BY <1>1, <1>2, <1>3, <1>4, <2>3 DEF LoggingOut, Collect, CollectAccess, CollectRefresh, BlacklistPair,
         DeleteAccessRow, UncacheAccess, DeleteRefreshRow, DeactivateSession, UncacheSession, UncacheRefresh, stores
  <1>5. CASE LoggingOutAll(r)
    <2>1. loc'[r].found \subseteq loc[r].found \cup rows \cup cached
      BY <1>0, <1>5 DEF LoggingOutAll, ListTokens, BlacklistAll, BlacklistAllFails, DeleteRows,
         DeactivateAll, ScanTokens, ScanTokensEnd, ScanSessions, TypeOK, LocType
    <2> QED
      BY <1>1, <1>2, <1>3, <1>5, <2>1 DEF LoggingOutAll, ListTokens, BlacklistAll, BlacklistAllFails, DeleteRows,
         DeactivateAll, ScanTokens, ScanTokensEnd, ScanSessions, stores
  <1> QED
    BY <1>4, <1>5

\* The remaining steps of a request write to no store but the counter of minted
\* tokens.
LEMMA OtherEffect ==
  ASSUME NEW r \in Reqs, RequestStep(r), ~StoreStep(r), ~LoggingOut(r), ~LoggingOutAll(r)
  PROVE  /\ UNCHANGED <<rows, cached, blacklist, expired>>
         /\ \/ \E s \in Sessions : BeginLogin(r, s)
            \/ MintAccess(r)
            \/ issued' = issued /\ \E t \in Token, op \in Ops : BeginRequest(r, t, op)
            \/ issued' = issued /\ (CheckBlacklist(r) \/ LookupToken(r))
            \/ issued' = issued /\ Return(r)
  BY DEF RequestStep, Minting, StoreStep, BeginLogin, MintAccess, RejectRefresh, Authenticating, BeginRequest,
     CheckBlacklist, LookupToken, FinishUse, Respond, ReturnError, stores

\* Without Redis, no request comes to a step that is a command of Redis.
LEMMA RedisOffStep ==
  ASSUME Control, Stored, ~RedisEnabled, NEW r \in Reqs, RequestStep(r)
  PROVE  blacklist' = {} /\ pc'[r] \notin RedisSteps
  <1>0. TypeOK /\ pc[r] \notin RedisSteps /\ blacklist = {} /\ loc[r] \in LocType
    BY ControlFacts DEF Stored
  <1>1. CASE Minting(r)
    BY <1>0, <1>1 DEF Minting, BeginLogin, CreateSession, StoreAccess, CacheAccess, AfterAccess,
       StoreRefresh, CacheRefresh, CacheSession, MintAccess, RejectRefresh, Step, Return, TypeOK,
       RedisSteps, stores
  <1>2. CASE Authenticating(r)
    <2>1. LookupToken(r) => loc[r].op \in {"refresh", "use", "logout", "logoutAll"}
      BY <1>0, LocalTokens DEF LookupToken, AuthSteps, LocType, Ops, Logouts
    <2> QED
      BY <1>0, <1>2, <2>1 DEF Authenticating, BeginRequest, CheckBlacklist, LookupToken, FinishUse, HandlerOf,
         Step, Return, TypeOK, RedisSteps, stores
  <1>3. CASE LoggingOut(r)
    BY <1>0, <1>3 DEF LoggingOut, Collect, CollectAccess, CollectRefresh, BlacklistPair, DeleteAccessRow,
       UncacheAccess, DeleteRefreshRow, DeactivateSession, UncacheSession, UncacheRefresh, Step, TypeOK,
       RedisSteps, stores
  <1>4. CASE LoggingOutAll(r)
    BY <1>0, <1>4 DEF LoggingOutAll, ListTokens, BlacklistAll, BlacklistAllFails, DeleteRows,
       DeactivateAll, ScanTokens, ScanTokensEnd, ScanSessions, Step, TypeOK, RedisSteps, stores
  <1>5. CASE Respond(r) \/ ReturnError(r)
    BY <1>0, <1>5 DEF Respond, ReturnError, Return, TypeOK, RedisSteps, stores
  <1> QED
    BY <1>1, <1>2, <1>3, <1>4, <1>5 DEF RequestStep

\* A token once minted stays minted.
LEMMA MintedLasts ==
  ASSUME Control, NEW r \in Reqs, RequestStep(r), NEW t \in Token, Minted(t)
  PROVE  Minted(t)'
  <1>1. /\ t.sess \in Sessions /\ t.num \in Nat
        /\ issued[t.sess] \in Nat /\ issued'[t.sess] \in Nat
        /\ issued[t.sess] <= issued'[t.sess]
    BY Monotone, ControlFacts, TypesPreserved, ConstantsAssumption DEF Token, TypeOK, Next
  <1> QED
    BY <1>1 DEF Minted

\* What clients hold is minted.
LEMMA HeldIsMinted ==
  ASSUME Control, NEW t \in held
  PROVE  Minted(t) /\ t \in Token
  <1>1. t \in Token /\ 0 < issued[t.sess] /\ t.num <= issued[t.sess]
    BY ControlFacts DEF Control, Fresh
  <1> QED
    BY <1>1 DEF Minted

\* The tokens of a login, or of a refresh, are new when it begins to store them.
LEMMA MintEffect ==
  ASSUME Control, NEW r \in Reqs, (\E s \in Sessions : BeginLogin(r, s)) \/ MintAccess(r)
  PROVE  /\ Storing(r) = {}
         /\ loc'[r].found = loc[r].found /\ loc'[r].tok = loc[r].tok /\ loc'[r].live = loc[r].live
         /\ pc[r] \notin AuthSteps /\ pc'[r] \notin AuthSteps
         /\ \A t \in Storing(r)' : t \in Token /\ ~Minted(t) /\ Minted(t)'
         /\ \A t \in Token \ Storing(r)' : (Minted(t)' <=> Minted(t))
  <1>0. /\ TypeOK /\ loc[r] \in LocType /\ WellFormed(r)
        /\ \A t \in Token : t.sess \in Sessions /\ t.num \in 0..MaxAccess /\ t = [sess |-> t.sess, num |-> t.num]
        /\ \A s \in Sessions : issued[s] \in Nat
    BY ControlFacts, ConstantsAssumption DEF Token, TypeOK
  <1>1. ASSUME NEW s \in Sessions, BeginLogin(r, s)
        PROVE  /\ pc[r] = "idle" /\ pc'[r] = "createSession" /\ loc[r] = Blank
               /\ loc'[r].op = "login" /\ loc'[r].sess = s /\ loc'[r].new = Access(s, 1)
               /\ loc'[r].found = {} /\ loc'[r].tok = None /\ loc'[r].live = FALSE
               /\ issued[s] = 0 /\ issued' = [issued EXCEPT ![s] = 1] /\ MaxAccess > 0
    <2>1. loc[r].op = "none"
      BY <1>0, <1>1 DEF BeginLogin, Step, WellFormed, StepsOf, LocType, Ops, Logouts, StoreSteps, AuthSteps,
         LogoutSteps, LogoutAllSteps
    <2>2. loc'[r] = [Blank EXCEPT !.op = "login", !.sess = s, !.new = Access(s, 1)]
      BY <1>0, <1>1 DEF BeginLogin, TypeOK
    <2>3. /\ loc'[r].op = "login" /\ loc'[r].sess = s /\ loc'[r].new = Access(s, 1)
          /\ loc'[r].found = {} /\ loc'[r].tok = None /\ loc'[r].live = FALSE
      BY <2>2 DEF Blank
    <2> QED
      BY <1>0, <1>1, <2>1, <2>3 DEF BeginLogin, Step, WellFormed, TypeOK
  <1>3. CASE \E s \in Sessions : BeginLogin(r, s)
    <2>1. PICK s \in Sessions : BeginLogin(r, s)
      BY <1>3
    <2>a. /\ pc[r] = "idle" /\ pc'[r] = "createSession" /\ loc[r] = Blank
          /\ loc'[r].op = "login" /\ loc'[r].sess = s /\ loc'[r].new = Access(s, 1)
          /\ loc'[r].found = {} /\ loc'[r].tok = None /\ loc'[r].live = FALSE
          /\ issued[s] = 0 /\ issued' = [issued EXCEPT ![s] = 1] /\ MaxAccess > 0
      BY <1>1, <2>1
    <2>b. Storing(r) = {} /\ Storing(r)' = {Access(s, 1), Refresh(s)}
      BY <2>a DEF Storing
    <2>2. loc'[r].found = loc[r].found /\ loc'[r].tok = loc[r].tok /\ loc'[r].live = loc[r].live
      BY <2>a, BlankIsIdle
    <2>c. issued'[s] = 1
      BY <1>0, <2>a DEF TypeOK
    <2>3. /\ Access(s, 1) \in Token /\ ~Minted(Access(s, 1)) /\ Minted(Access(s, 1))'
          /\ Refresh(s) \in Token /\ ~Minted(Refresh(s)) /\ Minted(Refresh(s))'
      <3>1. 1 \in 0..MaxAccess /\ 0 \in 0..MaxAccess
        BY <2>a, ConstantsAssumption
      <3>2. Access(s, 1) \in Token /\ Refresh(s) \in Token
        BY <3>1 DEF Access, Refresh, Token
      <3>3. ~Minted(Access(s, 1)) /\ ~Minted(Refresh(s))
        BY <2>a DEF Access, Refresh, Minted
      <3>4. Minted(Access(s, 1))' /\ Minted(Refresh(s))'
        BY <2>c DEF Access, Refresh, Minted
      <3> QED
        BY <3>2, <3>3, <3>4
    <2>4. ASSUME NEW t \in Token \ Storing(r)' PROVE Minted(t)' <=> Minted(t)
      <3>1. t.sess = s => t.num # 0 /\ t.num # 1
        BY <1>0, <2>b DEF Access, Refresh
      <3>2. issued'[t.sess] = IF t.sess = s THEN 1 ELSE issued[t.sess]
        BY <1>0, <2>a DEF TypeOK
      <3>3. t.num \in Nat
        BY <1>0, ConstantsAssumption
      <3> QED
        BY <2>a, <3>1, <3>2, <3>3 DEF Minted
    <2> QED
      BY <2>a, <2>b, <2>2, <2>3, <2>4 DEF AuthSteps
  <1>4. ASSUME NEW s \in Sessions, NEW n \in Nat, MintAccess(r), s = loc[r].sess, n = issued[s] + 1
        PROVE  /\ Storing(r) = {}
               /\ loc'[r].found = loc[r].found /\ loc'[r].tok = loc[r].tok /\ loc'[r].live = loc[r].live
               /\ pc[r] \notin AuthSteps /\ pc'[r] \notin AuthSteps
               /\ \A t \in Storing(r)' : t \in Token /\ ~Minted(t) /\ Minted(t)'
               /\ \A t \in Token \ Storing(r)' : (Minted(t)' <=> Minted(t))
    <2>1. /\ pc[r] = "mint" /\ pc'[r] = "storeAccess" /\ loc[r].op = "refresh"
          /\ loc'[r] = [loc[r] EXCEPT !.new = Access(s, n)]
          /\ issued[s] < MaxAccess /\ issued' = [issued EXCEPT ![s] = n]
      BY <1>0, <1>4, LocalTokens DEF MintAccess, Step, TypeOK
    <2>2. /\ loc'[r].op = "refresh" /\ loc'[r].new = Access(s, n)
          /\ loc'[r].found = loc[r].found /\ loc'[r].tok = loc[r].tok /\ loc'[r].live = loc[r].live
      BY <1>0, <2>1 DEF LocType
    <2>3. Storing(r) = {} /\ Storing(r)' = {Access(s, n)}
      BY <2>1, <2>2 DEF Storing
    <2>4. n \in 0..MaxAccess /\ n # 0 /\ ~(n <= issued[s]) /\ n <= n
      BY <1>0, <1>4, <2>1, ConstantsAssumption
    <2>5. \A x \in Sessions : issued'[x] = IF x = s THEN n ELSE issued[x]
      BY <1>0, <2>1 DEF TypeOK
    <2>6. Access(s, n) \in Token /\ ~Minted(Access(s, n)) /\ Minted(Access(s, n))'
      <3>1. Access(s, n).sess = s /\ Access(s, n).num = n
        BY DEF Access
      <3>2. Access(s, n) \in Token
        BY <2>4 DEF Access, Token
      <3> QED
        BY <2>4, <2>5, <3>1, <3>2 DEF Minted
    <2>7. ASSUME NEW t \in Token \ Storing(r)' PROVE Minted(t)' <=> Minted(t)
      <3>1. t.sess = s => t.num # n
        BY <1>0, <2>3 DEF Access
      <3>2. t.num \in Nat /\ issued[s] \in Nat /\ t.sess \in Sessions
        BY <1>0, ConstantsAssumption
      <3>3. issued[s] > 0
        BY <1>0, <1>4, <2>1 DEF WellFormed, Control, Fresh
      <3>4. t.num # n => (t.num <= n <=> t.num <= issued[s])
        BY <1>4, <3>2
      <3>5. n > 0
        BY <2>4
      <3>6. issued'[t.sess] = IF t.sess = s THEN n ELSE issued[t.sess]
        BY <2>5, <3>2
      <3> QED
        BY <3>1, <3>3, <3>4, <3>5, <3>6 DEF Minted
    <2> QED
      BY <2>1, <2>2, <2>3, <2>6, <2>7 DEF AuthSteps
  <1>5. CASE MintAccess(r)
    <2>1. loc[r].sess \in Sessions /\ issued[loc[r].sess] + 1 \in Nat
      BY <1>0, <1>5, LocalTokens DEF MintAccess, Step
    <2>2. \E s \in Sessions : \E n \in Nat : s = loc[r].sess /\ n = issued[s] + 1
      BY <2>1
    <2> QED
      BY <1>4, <1>5, <2>2
  <1> QED
    BY <1>3, <1>5

\* A request stores nothing before its handler begins, nor after it has ended.
LEMMA QuietEffect ==
  ASSUME Control, NEW r \in Reqs,
         (\E t \in Token, op \in Ops : BeginRequest(r, t, op)) \/ CheckBlacklist(r) \/ LookupToken(r) \/ Return(r)
  PROVE  /\ Storing(r)' = {}
         /\ loc'[r].found \subseteq loc[r].found
         /\ loc'[r] = loc[r] \/ loc'[r] = Blank \/ loc'[r].tok # None
  <1>0. TypeOK /\ loc[r] \in LocType
    BY ControlFacts
  <1>1. CASE Return(r)
    <2>1. pc'[r] = "idle" /\ loc'[r] = Blank
      BY <1>0, <1>1 DEF Return, TypeOK
    <2> QED
      BY <2>1, BlankIsIdle DEF Storing
  <1>2. ASSUME NEW t \in Token, NEW op \in Ops, BeginRequest(r, t, op)
        PROVE  Storing(r)' = {} /\ loc'[r].found = {} /\ loc'[r].tok # None
    <2>1. pc'[r] \in AuthSteps /\ loc'[r].tok = t /\ loc'[r].found = {}
      BY <1>0, <1>2 DEF BeginRequest, Step, TypeOK, Blank, AuthSteps
    <2> QED
      BY <2>1, ConstantsAssumption DEF Storing, AuthSteps, Token
  <1>3. CASE CheckBlacklist(r) \/ LookupToken(r)
    <2>1. CASE loc' = loc /\ pc'[r] \in AuthSteps \cup
                {"mint", "accepted", "collectAccess", "deleteAccessRow", "listTokens", "deleteRows"}
      BY <2>1 DEF Storing, AuthSteps
    <2> QED
      BY <1>1, <1>3, <2>1, NothingErasedYet
  <1> QED
    BY <1>1, <1>2, <1>3

\* Nothing is stored when no request has begun.
LEMMA StoredInit == Init => Stored
  <1> SUFFICES ASSUME Init PROVE Stored
    OBVIOUS
  <1>1. \A r \in Reqs : pc[r] = "idle" /\ loc[r] = Blank
    BY DEF Init
  <1>2. \A r \in Reqs : Storing(r) = {} /\ pc[r] \notin RedisSteps
    BY <1>1 DEF Storing, RedisSteps
  <1> QED
    BY <1>1, <1>2, BlankIsIdle DEF Init, Stored

\* What a step of a request does to the stores, and to what it is storing.
LEMMA StoringStep ==
  ASSUME Control, Aimed, Stored, NEW r \in Reqs, RequestStep(r)
  PROVE  /\ Live' \subseteq Live \cup Storing(r)
         /\ Storing(r)' \cap Live' = {}
         /\ \A t \in rows' \cup cached' \cup blacklist' : Minted(t)'
         /\ \A t \in loc'[r].found : Minted(t)'
         /\ loc'[r].tok = None => ~loc'[r].live
  <1>0. /\ TypeOK /\ loc[r] \in LocType
        /\ \A t \in rows \cup cached \cup blacklist \cup held \cup loc[r].found : t \in Token /\ Minted(t)
        /\ \A t \in Token : Minted(t) => Minted(t)'
        /\ Live \subseteq rows \cup cached
        /\ Storing(r) \cap Live = {} /\ (loc[r].tok = None => ~loc[r].live)
    BY ControlFacts, HeldIsMinted, MintedLasts DEF Stored, TypeOK, LocType, Live
  <1>1. CASE StoreStep(r)
    <2>1. \A t \in {loc[r].new, Refresh(loc[r].sess)} : t \in Token /\ Minted(t)
      <3>1. pc[r] \in StoreSteps /\ loc'[r] = loc[r]
        BY <1>1, StoreEffect
      <3>2. \A s \in Sessions : Refresh(s) \in Token /\ (issued[s] > 0 => Minted(Refresh(s)))
        BY RefreshOf, ConstantsAssumption DEF Token, Refresh, Minted
      <3>3. /\ loc[r].new \in Token /\ loc[r].sess \in Sessions
            /\ 0 < loc[r].new.num /\ loc[r].new.num <= issued[loc[r].sess]
            /\ loc[r].new.sess = loc[r].sess
        BY <3>1, StoringFacts
      <3>4. loc[r].new.num \in Nat /\ issued[loc[r].sess] \in Nat
        BY <1>0, <3>3, ConstantsAssumption DEF Token, TypeOK
      <3> QED
        BY <3>2, <3>3, <3>4 DEF Minted
    <2>2. /\ rows' \subseteq rows \cup {loc[r].new, Refresh(loc[r].sess)}
          /\ cached' \subseteq cached \cup {loc[r].new, Refresh(loc[r].sess)}
          /\ blacklist' = blacklist /\ loc' = loc
      BY <1>1, StoreEffect
    <2>3. \/ Live' = Live /\ Storing(r)' = Storing(r)
          \/ \E t \in Storing(r) : Live' = Live \cup {t} /\ Storing(r)' = Storing(r) \ {t}
      BY <1>1, StoreEffect
    <2>4. Live' \subseteq Live \cup Storing(r) /\ Storing(r)' \cap Live' = {}
      BY <1>0, <2>3
    <2> QED
      BY <1>0, <2>1, <2>2, <2>4
  <1>2. CASE LoggingOut(r) \/ LoggingOutAll(r)
    <2>1. /\ rows' \subseteq rows /\ cached' \subseteq cached
          /\ blacklist' \subseteq blacklist \cup loc[r].found
          /\ loc'[r].found \subseteq loc[r].found \cup rows \cup cached \cup held
          /\ SameRequest(r) /\ Storing(r)' = {}
      BY <1>2, LogoutEffect
    <2>2. Live' \subseteq Live
      BY <2>1 DEF Live
    <2>3. loc'[r].tok = loc[r].tok /\ loc'[r].live = loc[r].live
      BY <2>1 DEF SameRequest
    <2> QED
      BY <1>0, <2>1, <2>2, <2>3
  <1>3. CASE ~StoreStep(r) /\ ~LoggingOut(r) /\ ~LoggingOutAll(r)
    <2>1. rows' = rows /\ cached' = cached /\ blacklist' = blacklist /\ Live' = Live
      BY <1>3, OtherEffect DEF Live
    <2>2. CASE (\E s \in Sessions : BeginLogin(r, s)) \/ MintAccess(r)
      <3>1. /\ loc'[r].found = loc[r].found /\ loc'[r].tok = loc[r].tok /\ loc'[r].live = loc[r].live
            /\ \A t \in Storing(r)' : ~Minted(t)
        BY <2>2, MintEffect
      <3> QED
        BY <1>0, <2>1, <3>1
    <2>3. CASE (\E t \in Token, op \in Ops : BeginRequest(r, t, op)) \/ CheckBlacklist(r) \/ LookupToken(r) \/ Return(r)
      BY <1>0, <2>1, <2>3, QuietEffect, BlankIsIdle
    <2> QED
      BY <1>3, <2>2, <2>3, OtherEffect
  <1> QED
    BY <1>1, <1>2, <1>3

\* What is stored stays minted, and nothing in flight can be seen, whatever
\* the other requests do.
LEMMA StoredStep ==
  ASSUME Control, Aimed, Stored, [Next]_vars
  PROVE  Stored'
  <1>1. ASSUME NEW r \in Reqs, RequestStep(r) PROVE Stored'
    <2>1. /\ Live' \subseteq Live \cup Storing(r)
          /\ Storing(r)' \cap Live' = {}
          /\ \A t \in rows' \cup cached' \cup blacklist' : Minted(t)'
          /\ \A t \in loc'[r].found : Minted(t)'
          /\ loc'[r].tok = None => ~loc'[r].live
      BY <1>1, StoringStep
    <2>2. expired' \subseteq held'
      BY <1>1, ExpiredKept, Monotone DEF Stored
    <2>3. ASSUME NEW q \in Reqs \ {r}
          PROVE  /\ Storing(q)' \cap Live' = {}
                 /\ \A t \in loc'[q].found : Minted(t)'
                 /\ loc'[q].tok = None => ~loc'[q].live
                 /\ pc'[q] = pc[q]
      <3>1. pc'[q] = pc[q] /\ loc'[q] = loc[q]
        BY <1>1, OthersKept
      <3>2. Storing(q)' = Storing(q)
        BY <3>1 DEF Storing
      <3>3. Storing(q) \cap Storing(r) = {} /\ Storing(q) \cap Live = {}
        BY StoringApart DEF Stored
      <3>4. \A t \in loc[q].found : t \in Token /\ Minted(t) /\ Minted(t)'
        BY <1>1, ControlFacts, MintedLasts DEF Stored, LocType
      <3> QED
        BY <2>1, <3>1, <3>2, <3>3, <3>4 DEF Stored
    <2>4. ~RedisEnabled => blacklist' = {} /\ \A q \in Reqs : pc'[q] \notin RedisSteps
      BY <1>1, <2>3, RedisOffStep DEF Stored
    <2> QED
      BY <2>1, <2>2, <2>3, <2>4 DEF Stored
  <1>2. ASSUME NEW t \in Token, Expire(t) PROVE Stored'
    <2>1. /\ pc' = pc /\ loc' = loc /\ issued' = issued /\ held' = held
          /\ rows' = rows /\ cached' \subseteq cached /\ blacklist' \subseteq blacklist
          /\ expired' \subseteq held
      BY <1>2 DEF Expire, Stored, history
    <2>2. Live' \subseteq Live /\ \A q \in Reqs : Storing(q)' = Storing(q)
      BY <2>1 DEF Live, Storing
    <2>3. \A x : Minted(x)' <=> Minted(x)
      BY <2>1 DEF Minted
    <2> QED
      BY <2>1, <2>2, <2>3 DEF Stored
  <1>3. ASSUME UNCHANGED vars PROVE Stored'
    <2>1. /\ pc' = pc /\ loc' = loc /\ issued' = issued /\ held' = held
          /\ rows' = rows /\ cached' = cached /\ blacklist' = blacklist /\ expired' = expired
      BY <1>3 DEF vars, stores, history
    <2>2. Live' = Live /\ \A q \in Reqs : Storing(q)' = Storing(q)
      BY <2>1 DEF Live, Storing
    <2>3. \A x : Minted(x)' <=> Minted(x)
      BY <2>1 DEF Minted
    <2> QED
      BY <2>1, <2>2, <2>3 DEF Stored
  <1> QED
    BY <1>1, <1>2, <1>3 DEF Next

\* A step shows nothing of itself when neither tokens nor requests change.
LEMMA StutterSeen ==
  ASSUME \A t \in Token : Status(t)' = Status(t),
         \A r \in Reqs : Phase(r)' = Phase(r) /\ loc'[r].live = loc[r].live
  PROVE  UNCHANGED Promised!vars
  BY DEF Promised!vars

\* A token goes live.
LEMMA IssueSeen ==
  ASSUME NEW x \in Token, Status(x) = "new", Status(x)' = "live",
         \A t \in Token \ {x} : Status(t)' = Status(t),
         \A r \in Reqs : Phase(r)' = Phase(r) /\ loc'[r].live = loc[r].live
  PROVE  Promised!Next
  <1>1. Promised!Issue(x)
    BY DEF Promised!Issue
  <1> QED
    BY <1>1 DEF Promised!Next

\* Tokens die.
LEMMA WithdrawSeen ==
  ASSUME \A t \in Token : Status(t)' = Status(t) \/ Status(t)' = "dead",
         \A r \in Reqs : Phase(r)' = Phase(r) /\ loc'[r].live = loc[r].live
  PROVE  Promised!Next
  <1> DEFINE S == {t \in Token : Status(t)' = "dead"}
  <1>1. Promised!Withdraw(S)
    BY DEF Promised!Withdraw, Promised!Kill
  <1> QED
    BY <1>1 DEF Promised!Next

\* A request comes in with a token that was issued.
LEMMA ArriveSeen ==
  ASSUME NEW r \in Reqs, NEW x \in Token,
         Phase(r) = "idle", Status(x) # "new", Phase(r)' = "asking",
         loc'[r].live = (Status(x) = "live"),
         \A t \in Token : Status(t)' = Status(t),
         \A q \in Reqs \ {r} : Phase(q)' = Phase(q) /\ loc'[q].live = loc[q].live
  PROVE  Promised!Next
  <1>1. Promised!Arrive(r, x)
    BY DEF Promised!Arrive
  <1> QED
    BY <1>1 DEF Promised!Next

\* A request whose token was live when it came in is granted.
LEMMA GrantSeen ==
  ASSUME NEW r \in Reqs, Phase(r) = "asking", Phase(r)' = "granted",
         loc[r].live, loc'[r].live = loc[r].live,
         \A t \in Token : Status(t)' = Status(t),
         \A q \in Reqs \ {r} : Phase(q)' = Phase(q) /\ loc'[q].live = loc[q].live
  PROVE  Promised!Next
  <1>1. Promised!Grant(r)
    BY DEF Promised!Grant
  <1> QED
    BY <1>1 DEF Promised!Next

\* A request ends, and the tokens it has not issued yet with it.
LEMMA CloseSeen ==
  ASSUME NEW r \in Reqs, Phase(r) # "idle", Phase(r)' = "idle", loc'[r].live = FALSE,
         \A t \in Token : Status(t)' = Status(t) \/ (Status(t) = "new" /\ Status(t)' = "dead"),
         \A q \in Reqs \ {r} : Phase(q)' = Phase(q) /\ loc'[q].live = loc[q].live
  PROVE  Promised!Next
  <1> DEFINE S == {t \in Token : Status(t) = "new" /\ Status(t)' = "dead"}
  <1> DEFINE old == [t \in Token |-> Status(t)]
             new == [t \in Token |-> Status(t)']
  <1>1. S \in SUBSET {t \in Token : old[t] = "new"}
    OBVIOUS
  <1>2. new = [t \in Token |-> IF t \in S THEN "dead" ELSE old[t]]
    <2>1. ASSUME NEW t \in Token PROVE new[t] = IF t \in S THEN "dead" ELSE old[t]
      OBVIOUS
    <2> QED
      BY <2>1
  <1>3. /\ [q \in Reqs |-> Phase(q)]' = [[q \in Reqs |-> Phase(q)] EXCEPT ![r] = "idle"]
        /\ [q \in Reqs |-> loc[q].live]' = [[q \in Reqs |-> loc[q].live] EXCEPT ![r] = FALSE]
    OBVIOUS
  <1>4. Promised!Close(r)
    BY <1>1, <1>2, <1>3 DEF Promised!Close, Promised!Kill
  <1> QED
    BY <1>4 DEF Promised!Next

-----------------------------------------------------------------------------
\* The status of a token, read off the stores.
StatusIn(live, young, barred) ==
  IF live /\ ~barred THEN "live" ELSE IF young /\ ~barred THEN "new" ELSE "dead"

\* Not minted, or not in the last of its stores yet.
Young(t) == ~Minted(t) \/ \E r \in Reqs : t \in Storing(r)

\* Both sides of a step see the status that the stores give.
LEMMA StatusRead ==
  ASSUME Stored, Stored', NEW t \in Token
  PROVE  /\ Status(t) = StatusIn(t \in Live \ expired, Young(t), t \in blacklist)
         /\ Status(t)' = StatusIn(t \in Live' \ expired', Young(t)', t \in blacklist')
  <1>1. Young(t) <=> ~Minted(t) \/ InFlight(t)
    BY InFlightIsStoring DEF Young
  <1>2. Young(t)' <=> ~Minted(t)' \/ InFlight(t)'
    <2>1. InFlight(t)' <=> \E r \in Reqs : t \in Storing(r)'
      <3>1. ASSUME NEW r \in Reqs
            PROVE  (t \in Storing(r)') <=>
                     \/ /\ pc'[r] \in {"createSession", "storeAccess", "cacheAccess"}
                        /\ t \in {loc'[r].new} \cup (IF loc'[r].op = "login" THEN {Refresh(loc'[r].sess)} ELSE {})
                     \/ /\ pc'[r] \in {"storeRefresh", "cacheRefresh"}
                        /\ t = Refresh(loc'[r].sess)
        BY DEF Storing
      <3> QED
        BY <3>1 DEF InFlight
    <2> QED
      BY <2>1 DEF Young
  <1>3. (Usable(t) <=> t \in Live \ expired /\ t \notin blacklist)
    BY DEF Usable, Live, Stored
  <1>4. (Usable(t)' <=> t \in Live' \ expired' /\ t \notin blacklist')
    BY DEF Usable, Live, Stored
  <1>5. Status(t) = StatusIn(t \in Live \ expired, Young(t), t \in blacklist)
    BY <1>1, <1>3 DEF Status, StatusIn
  <1>6. Status(t)' = StatusIn(t \in Live' \ expired', Young(t)', t \in blacklist')
    BY <1>2, <1>4 DEF Status, StatusIn
  <1> QED
    BY <1>5, <1>6

\* The phase of a request depends on its own step and token alone.
LEMMA PhaseKept ==
  ASSUME NEW q \in Reqs, loc'[q].tok = loc[q].tok,
         (pc'[q] \in AuthSteps) = (pc[q] \in AuthSteps)
  PROVE  Phase(q)' = Phase(q)
  BY DEF Phase

\* The requests whose turn it is not keep theirs, and what they store.
LEMMA OthersSeen ==
  ASSUME Control, NEW r \in Reqs, RequestStep(r), NEW q \in Reqs \ {r}
  PROVE  Phase(q)' = Phase(q) /\ loc'[q].live = loc[q].live /\ Storing(q)' = Storing(q)
  <1>1. pc'[q] = pc[q] /\ loc'[q] = loc[q]
    BY OthersKept
  <1> QED
    BY <1>1 DEF Phase, Storing

\* A step that changes no store leaves a token as it is, unless the request
\* gives it up or has only just minted it.
LEMMA StatusKept ==
  ASSUME Control, Stored, Stored', NEW r \in Reqs, RequestStep(r), NEW t \in Token,
         t \in Live' <=> t \in Live, t \in blacklist' <=> t \in blacklist, expired' = expired,
         \/ Minted(t)' = Minted(t) /\ (t \in Storing(r)' <=> t \in Storing(r))
         \/ ~Minted(t) /\ t \in Storing(r)'
  PROVE  Status(t)' = Status(t)
  <1>1. Young(t)' = Young(t)
    <2>1. \A q \in Reqs \ {r} : Storing(q)' = Storing(q)
      BY OthersSeen
    <2> QED
      BY <2>1 DEF Young
  <1> QED
    BY <1>1, StatusRead

-----------------------------------------------------------------------------
\* Minting shows nothing: a token is new until it is in the last store.
LEMMA MintSeen ==
  ASSUME Control, Stored, Stored', NEW r \in Reqs, RequestStep(r),
         (\E s \in Sessions : BeginLogin(r, s)) \/ MintAccess(r)
  PROVE  UNCHANGED Promised!vars
  <1>1. /\ Storing(r) = {}
        /\ loc'[r].tok = loc[r].tok /\ loc'[r].live = loc[r].live
        /\ pc[r] \notin AuthSteps /\ pc'[r] \notin AuthSteps
        /\ \A t \in Storing(r)' : ~Minted(t)
        /\ \A t \in Token \ Storing(r)' : (Minted(t)' <=> Minted(t))
    BY MintEffect
  <1>2. Live' = Live /\ blacklist' = blacklist /\ expired' = expired
    BY DEF BeginLogin, MintAccess, Live
  <1>3. ASSUME NEW t \in Token PROVE Status(t)' = Status(t)
    <2>1. CASE t \in Storing(r)'
      BY <1>1, <1>2, <2>1, StatusKept
    <2>2. CASE t \notin Storing(r)'
      <3>1. Minted(t)' = Minted(t)
        BY <1>1, <2>2 DEF Minted
      <3> QED
        BY <1>1, <1>2, <2>2, <3>1, StatusKept
    <2> QED
      BY <2>1, <2>2
  <1>4. Phase(r)' = Phase(r)
    BY <1>1, PhaseKept
  <1> QED
    BY <1>1, <1>3, <1>4, OthersSeen, StutterSeen

\* Storing a token in the last of its stores issues it.
LEMMA StoreSeen ==
  ASSUME Control, Stored, Stored', NEW r \in Reqs, RequestStep(r), StoreStep(r)
  PROVE  Promised!Next \/ UNCHANGED Promised!vars
  <1>1. /\ loc' = loc /\ issued' = issued /\ expired' = expired /\ blacklist' = blacklist
        /\ pc[r] \in StoreSteps /\ pc'[r] \in StoreSteps \cup {"respond"}
        /\ \/ Live' = Live /\ Storing(r)' = Storing(r)
           \/ \E t \in Storing(r) : Live' = Live \cup {t} /\ Storing(r)' = Storing(r) \ {t}
    BY StoreEffect
  <1>2. \A t \in Token : Minted(t)' = Minted(t)
    BY <1>1 DEF Minted
  <1>3. Phase(r)' = Phase(r)
    BY <1>1, PhaseKept DEF StoreSteps, AuthSteps
  <1>4. \A q \in Reqs : Phase(q)' = Phase(q) /\ loc'[q].live = loc[q].live
    BY <1>1, <1>3, OthersSeen
  <1>5. CASE Live' = Live /\ Storing(r)' = Storing(r)
    <2>1. \A t \in Token : Status(t)' = Status(t)
      BY <1>1, <1>2, <1>5, StatusKept
    <2> QED
      BY <1>4, <2>1, StutterSeen
  <1>6. ASSUME NEW x \in Storing(r), Live' = Live \cup {x}, Storing(r)' = Storing(r) \ {x}
        PROVE  Promised!Next \/ UNCHANGED Promised!vars
    <2>1. \A t \in Token \ {x} : Status(t)' = Status(t)
      BY <1>1, <1>2, <1>6, StatusKept
    <2>2. x \in Token /\ x \notin expired /\ x \notin Live /\ Minted(x) /\ Minted(x)'
      BY <1>2, <1>6, StoringFacts DEF Stored
    <2>3. Young(x)
      BY <1>6 DEF Young
    <2>4. ~Young(x)'
      <3>1. \A q \in Reqs \ {r} : x \notin Storing(q)'
        BY <1>6, StoringApart, OthersSeen
      <3>2. x \notin Storing(r)'
        BY <1>6
      <3> QED
        BY <2>2, <3>1, <3>2 DEF Young
    <2>5. /\ Status(x) = IF x \in blacklist THEN "dead" ELSE "new"
          /\ Status(x)' = IF x \in blacklist THEN "dead" ELSE "live"
      BY <1>1, <1>6, <2>2, <2>3, <2>4, StatusRead DEF StatusIn
    <2>6. CASE x \in blacklist
      <3>1. \A t \in Token : Status(t)' = Status(t)
        BY <2>1, <2>5, <2>6
      <3> QED
        BY <1>4, <3>1, StutterSeen
    <2>7. CASE x \notin blacklist
      <3>1. Status(x) = "new" /\ Status(x)' = "live"
        BY <2>5, <2>7
      <3> QED
        BY <1>4, <2>1, <2>2, <3>1, IssueSeen
    <2> QED
      BY <2>6, <2>7
  <1> QED
    BY <1>1, <1>5, <1>6

\* A logout only withdraws tokens.
LEMMA LogoutSeen ==
  ASSUME Control, Aimed, Stored, Stored', NEW r \in Reqs, RequestStep(r), LoggingOut(r) \/ LoggingOutAll(r)
  PROVE  Promised!Next
  <1>1. /\ issued' = issued /\ expired' = expired
        /\ rows' \subseteq rows /\ cached' \subseteq cached /\ blacklist \subseteq blacklist'
        /\ SameRequest(r)
        /\ pc[r] \in LogoutSteps \cup LogoutAllSteps
        /\ pc'[r] \in LogoutSteps \cup LogoutAllSteps \cup {"respond"}
        /\ Storing(r) = {} /\ Storing(r)' = {}
    BY LogoutEffect
  <1>2. Phase(r)' = Phase(r) /\ loc'[r].live = loc[r].live
    BY <1>1, PhaseKept DEF SameRequest, AuthSteps, LogoutSteps, LogoutAllSteps
  <1>3. Live' \subseteq Live
    BY <1>1 DEF Live
  <1>4. ASSUME NEW t \in Token PROVE Status(t)' = Status(t) \/ Status(t)' = "dead"
    <2>1. Minted(t)' = Minted(t)
      BY <1>1 DEF Minted
    <2>2. Young(t)' = Young(t)
      BY <1>1, <2>1, OthersSeen DEF Young
    <2>3. t \in Live => ~Young(t)
      BY DEF Young, Stored, Live
    <2> QED
      BY <1>1, <1>3, <2>2, <2>3, StatusRead DEF StatusIn
  <1> QED
    BY <1>2, <1>4, OthersSeen, WithdrawSeen

-----------------------------------------------------------------------------
\* The end of a request gives up what it has not issued.
LEMMA ReturnSeen ==
  ASSUME Control, Stored, Stored', NEW r \in Reqs, RequestStep(r), Return(r),
         rows' = rows, cached' = cached, blacklist' = blacklist, expired' = expired, issued' = issued
  PROVE  Promised!Next
  <1>0. TypeOK /\ loc[r] \in LocType
    BY ControlFacts
  <1>1. pc'[r] = "idle" /\ loc'[r] = Blank
    BY <1>0 DEF Return, TypeOK
  <1>2. Phase(r)' = "idle" /\ loc'[r].live = FALSE /\ Storing(r)' = {}
    BY <1>1, BlankIsIdle, QuietEffect DEF Phase
  <1>3. ASSUME NEW t \in Token
        PROVE  Status(t)' = Status(t) \/ (Status(t) = "new" /\ Status(t)' = "dead")
    <2>1. Live' = Live /\ Minted(t)' = Minted(t)
      BY DEF Live, Minted
    <2>2. Young(t)' => Young(t)
      BY <1>2, <2>1, OthersSeen DEF Young
    <2> QED
      BY <2>1, <2>2, StatusRead DEF StatusIn
  <1>4. CASE Phase(r) = "idle"
    <2>1. loc[r].live = FALSE
      BY <1>0, <1>4 DEF Phase, Stored, LocType
    <2> QED
      BY <1>2, <1>3, <1>4, <2>1, OthersSeen, WithdrawSeen
  <1>5. CASE Phase(r) # "idle"
    BY <1>2, <1>3, <1>5, OthersSeen, CloseSeen
  <1> QED
    BY <1>4, <1>5

\* A request comes in only with a token that was issued, and remembers
\* whether it was live.
LEMMA BeginSeen ==
  ASSUME Control, Stored, Stored', NEW r \in Reqs, RequestStep(r),
         NEW x \in Token, NEW op \in Ops, BeginRequest(r, x, op)
  PROVE  Promised!Next
  <1>0. TypeOK /\ loc[r] \in LocType /\ WellFormed(r)
    BY ControlFacts
  <1>1. /\ pc[r] = "idle" /\ pc'[r] \in AuthSteps
        /\ loc'[r].tok = x /\ loc'[r].live = Usable(x)
        /\ x \in held
        /\ rows' = rows /\ cached' = cached /\ blacklist' = blacklist /\ expired' = expired /\ issued' = issued
    BY <1>0 DEF BeginRequest, Step, TypeOK, Blank, AuthSteps, stores
  <1>2. loc[r].op = "none"
    BY <1>0, <1>1 DEF WellFormed, StepsOf, LocType, Ops, Logouts, StoreSteps, AuthSteps, LogoutSteps, LogoutAllSteps
  <1>3. Phase(r) = "idle" /\ Phase(r)' = "asking"
    <2>1. loc[r].tok = None /\ x # None
      BY <1>0, <1>2, BlankIsIdle, ConstantsAssumption DEF WellFormed, Token
    <2> QED
      BY <1>1, <2>1 DEF Phase
  <1>4. Storing(r) = {} /\ Storing(r)' = {}
    BY <1>1 DEF Storing, AuthSteps
  <1>5. \A t \in Token : Status(t)' = Status(t)
    <2>1. Live' = Live /\ \A t \in Token : Minted(t)' = Minted(t)
      BY <1>1 DEF Live, Minted
    <2> QED
      BY <1>1, <1>4, <2>1, StatusKept
  <1>6. Status(x) # "new"
    <2>1. ~Young(x)
      BY <1>1, HeldIsMinted, StoringFacts DEF Young
    <2> QED
      BY <2>1, StatusRead DEF StatusIn
  <1>7. loc'[r].live = (Status(x) = "live")
    <2>1. Usable(x) <=> Status(x) = "live"
      BY DEF Status
    <2>2. Usable(x) \in BOOLEAN
      BY DEF Usable
    <2> QED
      BY <1>1, <2>1, <2>2
  <1> QED
    BY <1>3, <1>5, <1>6, <1>7, OthersSeen, ArriveSeen

\* The two look-ups of the middleware grant what was live on arrival, and
\* refuse the rest.
LEMMA LookupSeen ==
  ASSUME Control, Vetted, Stored, Stored', NEW r \in Reqs, RequestStep(r), CheckBlacklist(r) \/ LookupToken(r)
  PROVE  Promised!Next \/ UNCHANGED Promised!vars
  <1>0. TypeOK /\ loc[r] \in LocType
    BY ControlFacts
  <1>1. /\ rows' = rows /\ cached' = cached /\ blacklist' = blacklist /\ expired' = expired /\ issued' = issued
        /\ pc[r] \in AuthSteps
    BY DEF CheckBlacklist, LookupToken, AuthSteps, stores
  <1>2. loc[r].tok # None /\ Phase(r) = "asking" /\ loc[r].op \in {"refresh", "use", "logout", "logoutAll"}
    <2>1. loc[r].tok \in Token /\ loc[r].op \in {"refresh", "use", "logout", "logoutAll"}
      BY <1>0, <1>1, LocalTokens DEF LocType, Ops, Logouts
    <2> QED
      BY <1>1, <2>1, ConstantsAssumption DEF Phase, Token
  <1>3. CASE Return(r)
    BY <1>1, <1>3, ReturnSeen
  <1>4. CASE loc' = loc /\ ~Return(r)
    <2>1. Storing(r) = {} /\ Storing(r)' = {}
      BY <1>1, QuietEffect DEF Storing, AuthSteps
    <2>2. \A t \in Token : Status(t)' = Status(t)
      <3>1. Live' = Live /\ \A t \in Token : Minted(t)' = Minted(t)
        BY <1>1 DEF Live, Minted
      <3> QED
        BY <1>1, <2>1, <3>1, StatusKept
    <2>3. CASE pc'[r] \in AuthSteps
      <3>1. Phase(r)' = Phase(r)
        BY <1>1, <1>4, <2>3, PhaseKept
      <3> QED
        BY <1>4, <2>2, <3>1, OthersSeen, StutterSeen
    <2>4. CASE pc'[r] \notin AuthSteps
      <3>1. LookupToken(r) /\ pc[r] = "lookup"
        BY <1>0, <1>4, <2>4 DEF CheckBlacklist, LookupToken, Step, AuthSteps, TypeOK
      <3>2. CASE loc[r].tok \in Live
        <4>1. loc[r].live
          BY <1>2, <3>1, <3>2 DEF Vetted, VettedRequest
        <4>2. Phase(r)' = "granted"
          BY <1>2, <1>4, <2>4 DEF Phase
        <4> QED
          BY <1>2, <1>4, <2>2, <4>1, <4>2, OthersSeen, GrantSeen
      <3>3. CASE loc[r].tok \notin Live
        BY <1>1, <1>3, <3>1, <3>3 DEF LookupToken, Found, Live
      <3> QED
        BY <3>2, <3>3
    <2> QED
      BY <2>3, <2>4
  <1> QED
    BY <1>3, <1>4 DEF CheckBlacklist, LookupToken

\* A token that expires dies.
LEMMA ExpirySeen ==
  ASSUME Control, Stored, Stored', NEW x \in Token, Expire(x)
  PROVE  Promised!Next
  <1>1. /\ pc' = pc /\ loc' = loc /\ issued' = issued /\ rows' = rows
        /\ x \in held /\ expired' = expired \cup {x}
        /\ cached' = cached \ {x} /\ blacklist' = blacklist \ {x}
    BY DEF Expire
  <1>2. \A q \in Reqs : Phase(q)' = Phase(q) /\ loc'[q].live = loc[q].live
    BY <1>1 DEF Phase
  <1>3. \A t \in Token : Young(t)' = Young(t)
    BY <1>1 DEF Young, Minted, Storing
  <1>4. ~Young(x)
    BY <1>1, HeldIsMinted, StoringFacts DEF Young
  <1>5. Status(x)' = "dead"
    BY <1>1, <1>3, <1>4, StatusRead DEF StatusIn
  <1>6. \A t \in Token \ {x} : Status(t)' = Status(t)
    <2>1. ASSUME NEW t \in Token \ {x}
          PROVE  (t \in Live' <=> t \in Live) /\ (t \in blacklist' <=> t \in blacklist) /\ (t \in expired' <=> t \in expired)
      BY <1>1, <2>1 DEF Live
    <2> QED
      BY <1>3, <2>1, StatusRead DEF StatusIn
  <1> QED
    BY <1>2, <1>5, <1>6, WithdrawSeen

-----------------------------------------------------------------------------
\* Every step of the machinery is one of the promised steps, or none.
LEMMA StepSeen ==
  ASSUME Control, Aimed, Vetted, Stored, Stored', [Next]_vars
  PROVE  [Promised!Next]_(Promised!vars)
  <1>1. ASSUME NEW r \in Reqs, RequestStep(r) PROVE Promised!Next \/ UNCHANGED Promised!vars
    <2>1. CASE StoreStep(r)
      BY <1>1, <2>1, StoreSeen
    <2>2. CASE LoggingOut(r) \/ LoggingOutAll(r)
      BY <1>1, <2>2, LogoutSeen
    <2>3. CASE ~StoreStep(r) /\ ~LoggingOut(r) /\ ~LoggingOutAll(r)
      BY <1>1, <2>3, OtherEffect, MintSeen, BeginSeen, LookupSeen, ReturnSeen
    <2> QED
      BY <2>1, <2>2, <2>3
  <1>2. ASSUME UNCHANGED vars PROVE UNCHANGED Promised!vars
    <2>1. \A t \in Token : Status(t)' = Status(t)
      BY <1>2 DEF vars, stores, Status, Usable, Minted, InFlight
    <2>2. \A r \in Reqs : Phase(r)' = Phase(r) /\ loc'[r].live = loc[r].live
      BY <1>2 DEF vars, Phase
    <2> QED
      BY <2>1, <2>2, StutterSeen
  <1> QED
    BY <1>1, <1>2, ExpirySeen DEF Next

\* In the beginning every token is new and every request is idle.
LEMMA InitSeen == Init => Promised!Init
  <1> SUFFICES ASSUME Init PROVE Promised!Init
    OBVIOUS
  <1>1. ASSUME NEW t \in Token PROVE Status(t) = "new"
    <2>1. t.sess \in Sessions /\ t.num \in Nat /\ issued[t.sess] = 0
      BY ConstantsAssumption DEF Init, Token
    <2>2. ~Minted(t) /\ ~Usable(t) /\ t \notin blacklist
      BY <2>1 DEF Init, Minted, Usable
    <2> QED
      BY <2>2 DEF Status
  <1>2. ASSUME NEW r \in Reqs PROVE Phase(r) = "idle" /\ loc[r].live = FALSE
    BY BlankIsIdle DEF Init, Phase
  <1> QED
    BY <1>1, <1>2 DEF Promised!Init

\* ImplementsRevocableTokens for every instance, with Redis on or off and
\* whatever fails.
THEOREM Implementation == Spec => ImplementsRevocableTokens
  <1>1. Control /\ Aimed /\ Stored /\ [Next]_vars => Stored'
    BY StoredStep
  <1>2. Control /\ Aimed /\ Vetted /\ Stored /\ Stored' /\ [Next]_vars => [Promised!Next]_(Promised!vars)
    BY StepSeen
  <1>3. Control /\ Vetted /\ [Next]_vars => Vetted'
    BY VettedStep
  <1> QED
    BY <1>1, <1>2, <1>3, InitSeen, ControlInit, ControlStep, AimedInit, AimedStep, VettedInit, StoredInit,
       PTL DEF Spec, ImplementsRevocableTokens, Promised!Spec
=============================================================================
