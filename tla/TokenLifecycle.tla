--------------------------- MODULE TokenLifecycle ---------------------------
(***************************************************************************)
(* The life of access and refresh tokens: Login and RefreshToken mint and  *)
(* store them, the authentication middleware accepts or rejects them, and  *)
(* Logout and LogoutAll revoke them.  Every request is a process whose     *)
(* steps are the individual PostgreSQL statements and Redis commands of    *)
(* the handler, so requests interleave wherever the code lets them.        *)
(*                                                                         *)
(* Three stores are involved: the table user_tokens (rows), the table      *)
(* user_sessions (session), and Redis, which keeps a copy of the tokens    *)
(* (cached) and a blacklist.  With Redis on, the middleware asks only      *)
(* Redis; with Redis off, it asks only user_tokens.                        *)
(*                                                                         *)
(* Left out: passwords and account locks (AccountLockout), permissions     *)
(* (PermissionCache), device data, and the used_at audit column, which is  *)
(* written by a background goroutine and read by no decision.              *)
(***************************************************************************)
EXTENDS Naturals

CONSTANTS
  Reqs,          \* request slots: how many requests are in progress at once
  Users,
  Sessions,      \* session ids; a Login uses one that was never used
  UserOf,        \* the user that each session id would belong to
  MaxAccess,     \* bound: access tokens ever minted for one session
  RedisEnabled,  \* CacheService.enabled
  RedisFaults,   \* the operations whose Redis commands may return an error
  DBFaults,      \* the operations whose PostgreSQL statements may
  MayExpire,     \* tokens may reach ExpiresAt during the behaviour
  None           \* the value of a request's local that is not set

ASSUME ConstantsAssumption ==
  /\ UserOf \in [Sessions -> Users]
  /\ MaxAccess \in Nat
  /\ RedisEnabled \in BOOLEAN /\ MayExpire \in BOOLEAN
  /\ None \notin Sessions /\ None \notin [sess : Sessions, num : 0..MaxAccess]

\* Token 0 of a session is its refresh token, the others are access tokens.
Token == [sess : Sessions, num : 0..MaxAccess]

Refresh(s) == [sess |-> s, num |-> 0]
Access(s, n) == [sess |-> s, num |-> n]
Owner(t) == UserOf[t.sess]
UserTokens(u) == {t \in Token : Owner(t) = u}

VARIABLES
  issued,    \* [Sessions -> Nat]: access tokens minted for the session, 0: unused
  expired,   \* tokens whose ExpiresAt has passed
  rows,      \* tokens with a row in user_tokens
  session,   \* [Sessions -> status of the row in user_sessions]
  cached,    \* tokens with a key token:<hash> in Redis
  sessCache, \* sessions with a key session:<id> in Redis
  blacklist, \* tokens with a key blacklist:<hash> in Redis
  pc,        \* [Reqs -> the next step of the request]
  loc,       \* [Reqs -> the locals of the request]
  held,      \* history: tokens a response has handed to a client
  revoked    \* history: tokens that successful logouts answered for, by kind

stores == <<issued, expired, rows, session, cached, sessCache, blacklist>>
history == <<held, revoked>>
vars == <<stores, pc, loc, history>>

Logouts == {"logout", "logoutAll"}
Ops == {"login", "refresh", "use"} \cup Logouts

\* The steps of a request that has not passed authentication yet ...
AuthSteps == {"checkBlacklist", "lookup"}
\* ... the steps of one that has ...
LogoutSteps ==
  {"collectAccess", "collectRefresh", "blacklistPair", "deleteAccessRow",
   "uncacheAccess", "deleteRefreshRow", "deactivateSession",
   "uncacheSession", "uncacheRefresh"}
LogoutAllSteps ==
  {"listTokens", "blacklistAll", "blacklistFailed", "deleteRows",
   "deactivateAll", "scanTokens", "scanSessions"}
StoreSteps ==
  {"createSession", "storeAccess", "cacheAccess", "storeRefresh",
   "cacheRefresh", "cacheSession"}
\* ... and all of them.
PC == {"idle", "mint", "accepted", "respond"}
        \cup AuthSteps \cup LogoutSteps \cup LogoutAllSteps \cup StoreSteps

Blank == [op |-> "none", tok |-> None, sess |-> None, new |-> None,
          found |-> {}, promise |-> {}, live |-> FALSE,
          ok |-> FALSE, dropped |-> FALSE]

Init ==
  /\ issued = [s \in Sessions |-> 0]
  /\ session = [s \in Sessions |-> "none"]
  /\ expired = {} /\ rows = {} /\ cached = {}
  /\ sessCache = {} /\ blacklist = {}
  /\ pc = [r \in Reqs |-> "idle"]
  /\ loc = [r \in Reqs |-> Blank]
  /\ held = {}
  /\ revoked = [k \in Logouts |-> {}]

-----------------------------------------------------------------------------
(***************************************************************************)
(* Helpers                                                                 *)
(***************************************************************************)
RedisFails(r) == loc[r].op \in RedisFaults
DBFails(r) == loc[r].op \in DBFaults

Step(r, from, to) == pc[r] = from /\ pc' = [pc EXCEPT ![r] = to]

\* The handler returns: its locals are gone.
Return(r) == /\ pc' = [pc EXCEPT ![r] = "idle"]
             /\ loc' = [loc EXCEPT ![r] = Blank]

\* What the middleware takes for valid, once the JWT itself is not expired.
Usable(t) ==
  /\ t \notin expired
  /\ IF RedisEnabled THEN t \in cached /\ t \notin blacklist
                     ELSE t \in rows

-----------------------------------------------------------------------------
(***************************************************************************)
(* Mistakes that the properties must notice; the specification uses none.  *)
(***************************************************************************)
\* A row that is deleted only for the access token.
KeepRefreshRow(r) ==
  /\ Step(r, "deleteRefreshRow", "deactivateSession")
  /\ loc' = [loc EXCEPT ![r].found = {Refresh(loc[r].sess)}, ![r].dropped = TRUE]
  /\ UNCHANGED <<issued, expired, rows, session, cached, sessCache, blacklist, history>>

\* Sessions that are left active.
DeactivateNone(r) ==
  /\ Step(r, "deactivateAll", IF RedisEnabled THEN "scanTokens" ELSE "respond")
  /\ loc' = [loc EXCEPT ![r].found =
               IF RedisEnabled THEN cached \cap UserTokens(Owner(loc[r].tok)) ELSE {}]
  /\ UNCHANGED <<issued, expired, rows, session, cached, sessCache, blacklist, history>>

\* A sweep that stops at the first page of SCAN.
ScanTokensFirstPage(r) ==
  /\ Step(r, "scanTokens", "scanSessions")
  /\ loc' = [loc EXCEPT ![r].found = {}]
  /\ UNCHANGED <<stores, history>>

\* A blacklist that the middleware does not ask.
SkipBlacklist(r) ==
  /\ Step(r, "checkBlacklist", "lookup")
  /\ UNCHANGED <<stores, loc, history>>

\* A sweep that deletes every key without a look at the user in its value.
ScanTokensOfAll(r) ==
  /\ pc[r] = "scanTokens"
  /\ \E t \in cached : /\ cached' = cached \ {t}
                       /\ loc' = [loc EXCEPT ![r].found = @ \ {t}]
  /\ UNCHANGED <<issued, expired, rows, session, sessCache, blacklist, pc, history>>

\* One lifetime for all the blacklist keys, the shortest.
ExpireBlacklist(t) ==
  /\ MayExpire
  /\ t \in held \ expired
  /\ expired' = expired \cup {t}
  /\ cached' = cached \ {t}
  /\ blacklist' = {}
  /\ UNCHANGED <<issued, rows, session, sessCache, pc, loc, history>>

-----------------------------------------------------------------------------
(***************************************************************************)
(* Login, after ValidateUserForLogin accepted the credentials.             *)
(***************************************************************************)
BeginLogin(r, s) ==
  /\ issued[s] = 0
  /\ MaxAccess > 0
  /\ Step(r, "idle", "createSession")
  /\ issued' = [issued EXCEPT ![s] = 1]
  /\ loc' = [loc EXCEPT ![r] = [Blank EXCEPT !.op = "login", !.sess = s,
                                             !.new = Access(s, 1)]]
  /\ UNCHANGED <<expired, rows, session, cached, sessCache, blacklist, history>>

CreateSession(r) ==
  /\ Step(r, "createSession", "storeAccess")
  /\ session' = [session EXCEPT ![loc[r].sess] = "active"]
  /\ UNCHANGED <<issued, expired, rows, cached, sessCache, blacklist, loc, history>>

\* The step after the access token is in its last store.
AfterAccess(r) == IF loc[r].op = "login" THEN "storeRefresh" ELSE "respond"

StoreAccess(r) ==
  /\ Step(r, "storeAccess", IF RedisEnabled THEN "cacheAccess" ELSE AfterAccess(r))
  /\ rows' = rows \cup {loc[r].new}
  /\ UNCHANGED <<issued, expired, session, cached, sessCache, blacklist, loc, history>>

CacheAccess(r) ==
  /\ Step(r, "cacheAccess", AfterAccess(r))
  /\ cached' = cached \cup {loc[r].new}
  /\ UNCHANGED <<issued, expired, rows, session, sessCache, blacklist, loc, history>>

StoreRefresh(r) ==
  /\ Step(r, "storeRefresh", IF RedisEnabled THEN "cacheRefresh" ELSE "respond")
  /\ rows' = rows \cup {Refresh(loc[r].sess)}
  /\ UNCHANGED <<issued, expired, session, cached, sessCache, blacklist, loc, history>>

CacheRefresh(r) ==
  /\ Step(r, "cacheRefresh", "cacheSession")
  /\ cached' = cached \cup {Refresh(loc[r].sess)}
  /\ UNCHANGED <<issued, expired, rows, session, sessCache, blacklist, loc, history>>

CacheSession(r) ==
  /\ Step(r, "cacheSession", "respond")
  /\ sessCache' = sessCache \cup {loc[r].sess}
  /\ UNCHANGED <<issued, expired, rows, session, cached, blacklist, loc, history>>

-----------------------------------------------------------------------------
(***************************************************************************)
(* Authentication: a client presents a token it was given, for an          *)
(* operation that takes this type of token.                                *)
(***************************************************************************)
OpsOf(t) == IF t.num = 0 THEN {"refresh"} ELSE {"use"} \cup Logouts

\* The tokens a logout is to revoke: all those that clients of the user hold,
\* or the token presented and the refresh token of its session.
Promise(t, op) ==
  CASE op = "logoutAll" -> held \cap UserTokens(Owner(t))
    [] op = "logout"    -> {t, Refresh(t.sess)}
    [] OTHER            -> {}

BeginRequest(r, t, op) ==
  /\ t \in held \ expired      \* the JWT is validated first, its exp included
  /\ op \in OpsOf(t)
  /\ Step(r, "idle", IF RedisEnabled THEN "checkBlacklist" ELSE "lookup")
  /\ loc' = [loc EXCEPT ![r] =
       [Blank EXCEPT !.op = op, !.tok = t, !.sess = t.sess,
                     !.promise = Promise(t, op), !.live = Usable(t)]]
  /\ UNCHANGED <<stores, history>>

CheckBlacklist(r) ==
  /\ pc[r] = "checkBlacklist"
  /\ IF loc[r].tok \in blacklist
     THEN Return(r)
     ELSE Step(r, "checkBlacklist", "lookup") /\ UNCHANGED loc
  /\ UNCHANGED <<stores, history>>

\* verifyTokenValidity reads Redis alone when Redis is on.
Found(t) == IF RedisEnabled THEN t \in cached ELSE t \in rows \ expired

\* The first step of the handler behind the middleware.  Without Redis the
\* lookups for the blacklist change nothing and are skipped.
HandlerOf(op) ==
  CASE op = "use"       -> "accepted"
    [] op = "refresh"   -> "mint"
    [] op = "logout"    -> IF RedisEnabled THEN "collectAccess" ELSE "deleteAccessRow"
    [] op = "logoutAll" -> IF RedisEnabled THEN "listTokens" ELSE "deleteRows"

LookupToken(r) ==
  /\ pc[r] = "lookup"
  /\ IF Found(loc[r].tok)
     THEN /\ Step(r, "lookup", HandlerOf(loc[r].op))
          /\ UNCHANGED loc
     ELSE Return(r)
  /\ UNCHANGED <<stores, history>>

\* An authenticated request other than refresh and the logouts runs and ends.
FinishUse(r) ==
  /\ pc[r] = "accepted"
  /\ Return(r)
  /\ UNCHANGED <<stores, history>>

\* RefreshToken: ValidateUserForRefresh let the user pass, a new access token
\* with a fresh JTI is signed.
MintAccess(r) ==
  LET s == loc[r].sess IN
  /\ Step(r, "mint", "storeAccess")
  /\ issued[s] < MaxAccess
  /\ issued' = [issued EXCEPT ![s] = @ + 1]
  /\ loc' = [loc EXCEPT ![r].new = Access(s, issued[s] + 1)]
  /\ UNCHANGED <<expired, rows, session, cached, sessCache, blacklist, history>>

\* ValidateUserForRefresh rejects an inactive or deleted user.
RejectRefresh(r) ==
  /\ pc[r] = "mint"
  /\ Return(r)
  /\ UNCHANGED <<stores, history>>

-----------------------------------------------------------------------------
(***************************************************************************)
(* Logout: DeleteTokens(tokenHash, userID, sessionID).                     *)
(***************************************************************************)
Collect(r, t, next) ==
  /\ pc' = [pc EXCEPT ![r] = next]
  /\ \/ loc' = [loc EXCEPT ![r].found = @ \cup ({t} \cap (rows \ expired))]
     \/ DBFails(r) /\ UNCHANGED loc      \* a failed lookup is skipped silently
  /\ UNCHANGED <<stores, history>>

CollectAccess(r) ==
  pc[r] = "collectAccess" /\ Collect(r, loc[r].tok, "collectRefresh")

CollectRefresh(r) ==
  pc[r] = "collectRefresh" /\ Collect(r, Refresh(loc[r].sess), "blacklistPair")

\* The pipeline is no transaction: when it fails, any part may have been applied.
BlacklistPair(r) ==
  /\ Step(r, "blacklistPair", "deleteAccessRow")
  /\ \/ blacklist' = blacklist \cup loc[r].found
     \/ RedisFails(r) /\ \E part \in SUBSET loc[r].found :
                           blacklist' = blacklist \cup part
  /\ UNCHANGED <<issued, expired, rows, session, cached, sessCache, loc, history>>

DeleteAccessRow(r) ==
  LET t == loc[r].tok IN
  /\ Step(r, "deleteAccessRow",
          IF RedisEnabled THEN "uncacheAccess" ELSE "deleteRefreshRow")
  /\ \/ /\ rows' = rows \ {t}
        /\ loc' = [loc EXCEPT ![r].ok = t \in rows]
     \/ DBFails(r) /\ UNCHANGED <<rows, loc>>
  /\ UNCHANGED <<issued, expired, session, cached, sessCache, blacklist, history>>

UncacheAccess(r) ==
  /\ Step(r, "uncacheAccess", "deleteRefreshRow")
  /\ \/ cached' = cached \ {loc[r].tok}
     \/ RedisFails(r) /\ UNCHANGED cached
  /\ UNCHANGED <<issued, expired, rows, session, sessCache, blacklist, loc, history>>

\* deleteSessionTokens reads the session, then DeleteTokensBySession reads it
\* again and deletes the refresh token; found records whether the hash of the
\* refresh token is known for the cache deletion that follows.
DeleteRefreshRow(r) ==
  LET t == Refresh(loc[r].sess)
      known(b) == [loc[r] EXCEPT !.found = IF b THEN {t} ELSE {}]
      skip == IF RedisEnabled THEN "uncacheSession" ELSE "respond"
  IN
  /\ pc[r] = "deleteRefreshRow"
  /\ \E b \in {TRUE, ~DBFails(r)} :
       \/ /\ pc' = [pc EXCEPT ![r] = "deactivateSession"]
          /\ rows' = rows \ {t}
          /\ loc' = [loc EXCEPT ![r] = [known(b) EXCEPT !.dropped = t \in rows]]
       \/ /\ DBFails(r)
          /\ pc' = [pc EXCEPT ![r] = skip]
          /\ loc' = [loc EXCEPT ![r] = known(b)]
          /\ UNCHANGED rows
  /\ UNCHANGED <<issued, expired, session, cached, sessCache, blacklist, history>>

\* If no refresh row was deleted (dropped), the session is deactivated all the
\* same, but DeleteTokensBySession reports not found.
DeactivateSession(r) ==
  /\ Step(r, "deactivateSession", IF RedisEnabled THEN "uncacheSession" ELSE "respond")
  /\ \/ /\ session' = [session EXCEPT ![loc[r].sess] = "inactive"]
        /\ loc' = [loc EXCEPT ![r].ok = @ \/ loc[r].dropped]
     \/ DBFails(r) /\ UNCHANGED <<session, loc>>
  /\ UNCHANGED <<issued, expired, rows, cached, sessCache, blacklist, history>>

UncacheSession(r) ==
  /\ Step(r, "uncacheSession", "uncacheRefresh")
  /\ \/ sessCache' = sessCache \ {loc[r].sess}
     \/ RedisFails(r) /\ UNCHANGED sessCache
  /\ UNCHANGED <<issued, expired, rows, session, cached, blacklist, loc, history>>

UncacheRefresh(r) ==
  /\ Step(r, "uncacheRefresh", "respond")
  /\ \/ cached' = cached \ loc[r].found
     \/ RedisFails(r) /\ UNCHANGED cached
  /\ UNCHANGED <<issued, expired, rows, session, sessCache, blacklist, loc, history>>

-----------------------------------------------------------------------------
(***************************************************************************)
(* LogoutAll.                                                              *)
(***************************************************************************)
ListTokens(r) ==
  /\ Step(r, "listTokens", "blacklistAll")
  /\ loc' = [loc EXCEPT ![r].found =
               (rows \ expired) \cap UserTokens(Owner(loc[r].tok))]
  /\ UNCHANGED <<stores, history>>

BlacklistAll(r) ==
  /\ Step(r, "blacklistAll", "deleteRows")
  /\ blacklist' = blacklist \cup loc[r].found
  /\ UNCHANGED <<issued, expired, rows, session, cached, sessCache, loc, history>>

\* A blacklisting that fails, perhaps half way, aborts the operation.
BlacklistAllFails(r) ==
  /\ RedisFails(r)
  /\ Step(r, "blacklistAll", "blacklistFailed")
  /\ \E part \in SUBSET loc[r].found : blacklist' = blacklist \cup part
  /\ UNCHANGED <<issued, expired, rows, session, cached, sessCache, loc, history>>

DeleteRows(r) ==
  /\ Step(r, "deleteRows", "deactivateAll")
  /\ rows' = rows \ UserTokens(Owner(loc[r].tok))
  /\ UNCHANGED <<issued, expired, session, cached, sessCache, blacklist, loc, history>>

\* The cache clean-up starts with the keys a SCAN is bound to return: those
\* that are there now and stay until it ends.
DeactivateAll(r) ==
  LET u == Owner(loc[r].tok) IN
  /\ Step(r, "deactivateAll", IF RedisEnabled THEN "scanTokens" ELSE "respond")
  /\ session' = [s \in Sessions |->
       IF UserOf[s] = u /\ session[s] = "active" THEN "inactive" ELSE session[s]]
  /\ loc' = [loc EXCEPT ![r].found =
               IF RedisEnabled THEN cached \cap UserTokens(u) ELSE {}]
  /\ UNCHANGED <<issued, expired, rows, cached, sessCache, blacklist, history>>

\* SCAN yields a key of the user; GET and DEL of one key may fail unnoticed.
\* A key set after the scan began may be returned as well.
ScanTokens(r) ==
  /\ pc[r] = "scanTokens"
  /\ \E t \in cached \cap UserTokens(Owner(loc[r].tok)) :
       /\ \/ cached' = cached \ {t}
          \/ RedisFails(r) /\ t \in loc[r].found /\ UNCHANGED cached
       /\ loc' = [loc EXCEPT ![r].found = @ \ {t}]
  /\ UNCHANGED <<issued, expired, rows, session, sessCache, blacklist, pc, history>>

\* The iterator is exhausted, or SCAN itself failed, which is ignored.
ScanTokensEnd(r) ==
  /\ loc[r].found \cap cached = {} \/ RedisFails(r)
  /\ Step(r, "scanTokens", "scanSessions")
  /\ loc' = [loc EXCEPT ![r].found = {}]
  /\ UNCHANGED <<stores, history>>

\* No decision reads the session cache, so its scan is one step; on an error
\* any part of it is left behind.
ScanSessions(r) ==
  LET mine == {s \in sessCache : UserOf[s] = Owner(loc[r].tok)} IN
  /\ Step(r, "scanSessions", "respond")
  /\ \E left \in (IF RedisFails(r) THEN SUBSET mine ELSE {{}}) :
       sessCache' = (sessCache \ mine) \cup left
  /\ UNCHANGED <<issued, expired, rows, session, cached, blacklist, loc, history>>

-----------------------------------------------------------------------------
(***************************************************************************)
(* Responses, errors and time.                                             *)
(***************************************************************************)
\* The tokens a successful response carries.
Given(l) == CASE l.op = "login"   -> {l.new, Refresh(l.sess)}
              [] l.op = "refresh" -> {l.new}
              [] OTHER            -> {}

Respond(r) ==
  LET l == loc[r]
      done == l.op = "logoutAll" \/ (l.op = "logout" /\ l.ok)
  IN
  /\ pc[r] = "respond"
  /\ held' = held \cup Given(l)
  /\ revoked' = IF done THEN [revoked EXCEPT ![l.op] = @ \cup l.promise] ELSE revoked
  /\ Return(r)
  /\ UNCHANGED stores

\* A statement or command whose error the handler returns: nothing was
\* written by it, and nothing written before it is undone.
ReturnError(r) ==
  /\ \/ DBFails(r) /\ pc[r] \in {"createSession", "storeAccess", "storeRefresh",
                                "mint", "listTokens", "deleteRows", "deactivateAll"}
     \/ DBFails(r) /\ ~RedisEnabled /\ pc[r] = "lookup"
     \/ RedisFails(r) /\ pc[r] \in {"checkBlacklist", "cacheAccess", "cacheRefresh",
                                   "cacheSession"}
     \/ pc[r] = "blacklistFailed"
     \/ RedisFails(r) /\ RedisEnabled /\ pc[r] = "lookup"
     \/ /\ DBFails(r) \/ RedisFails(r)    \* permissions and menus of the response
        /\ pc[r] = "respond" /\ loc[r].op \in {"login", "refresh"}
  /\ Return(r)
  /\ UNCHANGED <<stores, history>>

\* ExpiresAt passes.  Both Redis keys of the token were set with at least the
\* lifetime that was left, and the middleware rejects the JWT from here on.
Expire(t) ==
  /\ MayExpire
  /\ t \in held \ expired
  /\ expired' = expired \cup {t}
  /\ cached' = cached \ {t}
  /\ blacklist' = blacklist \ {t}
  /\ UNCHANGED <<issued, rows, session, sessCache, pc, loc, history>>

Minting(r) ==
  \/ \E s \in Sessions : BeginLogin(r, s)
  \/ CreateSession(r) \/ StoreAccess(r) \/ CacheAccess(r)
  \/ StoreRefresh(r) \/ CacheRefresh(r) \/ CacheSession(r)
  \/ MintAccess(r) \/ RejectRefresh(r)

Authenticating(r) ==
  \/ \E t \in Token, op \in Ops : BeginRequest(r, t, op)
  \/ CheckBlacklist(r) \/ LookupToken(r) \/ FinishUse(r)

LoggingOut(r) ==
  \/ CollectAccess(r) \/ CollectRefresh(r) \/ BlacklistPair(r)
  \/ DeleteAccessRow(r) \/ UncacheAccess(r)
  \/ DeleteRefreshRow(r) \/ DeactivateSession(r)
  \/ UncacheSession(r) \/ UncacheRefresh(r)

LoggingOutAll(r) ==
  \/ ListTokens(r) \/ BlacklistAll(r) \/ BlacklistAllFails(r)
  \/ DeleteRows(r) \/ DeactivateAll(r)
  \/ ScanTokens(r) \/ ScanTokensEnd(r) \/ ScanSessions(r)

\* One step of the handler that serves the request in slot r.
RequestStep(r) ==
  \/ Minting(r) \/ Authenticating(r)
  \/ LoggingOut(r) \/ LoggingOutAll(r)
  \/ Respond(r) \/ ReturnError(r)

Next ==
  \/ \E r \in Reqs : RequestStep(r)
  \/ \E t \in Token : Expire(t)

Spec == Init /\ [][Next]_vars

-----------------------------------------------------------------------------
(***************************************************************************)
(* Properties                                                              *)
(***************************************************************************)
\* Every variable stays within its type; the locals of a request are only
\* those its handler can have.
LocType ==
  [op : Ops \cup {"none"}, tok : Token \cup {None}, sess : Sessions \cup {None},
   new : Token \cup {None}, found : SUBSET Token, promise : SUBSET Token,
   live : BOOLEAN, ok : BOOLEAN, dropped : BOOLEAN]

TypeOK ==
  /\ issued \in [Sessions -> 0..MaxAccess]
  /\ session \in [Sessions -> {"none", "active", "inactive"}]
  /\ {expired, rows, cached, blacklist, held} \subseteq SUBSET Token
  /\ sessCache \subseteq Sessions
  /\ pc \in [Reqs -> PC]
  /\ loc \in [Reqs -> LocType]
  /\ revoked \in [Logouts -> SUBSET Token]

Authenticated(r) ==
  loc[r].tok # None /\ pc[r] \notin AuthSteps

\* Once LogoutAll has answered with success, no token that a client of the
\* user held when the request came in is ever valid again.
LogoutAllIsFinal == \A t \in revoked["logoutAll"] : ~Usable(t)

\* Once Logout has answered with success, neither the token presented nor
\* the refresh token of its session is ever valid again.
LogoutIsFinal == \A t \in revoked["logout"] : ~Usable(t)

\* Whatever a logout answered for is gone from the tables too: its row is
\* deleted and its session is no longer active.
RevokedIsErased ==
  \A t \in revoked["logout"] \cup revoked["logoutAll"] :
    t \notin rows /\ session[t.sess] = "inactive"

\* The middleware lets a request pass only if its token was valid when the
\* request came in, although it looks at the blacklist and at the token in
\* two commands between which logouts run.
AcceptedWasUsable == \A r \in Reqs : Authenticated(r) => loc[r].live

\* Logouts hit only their targets, not another user, another session of the
\* user or, for a Logout, another access token of the session: a valid token
\* stops being valid only when it expires or while a logout that is about it
\* is at work.
Targets(l) ==
  CASE l.op = "logoutAll" -> UserTokens(Owner(l.tok))
    [] l.op = "logout"    -> {l.tok, Refresh(l.sess)}
    [] OTHER              -> {}

NoCollateral ==
  [][\A t \in held : Usable(t) /\ ~Usable(t)' =>
       \/ t \in expired'
       \/ \E r \in Reqs : Authenticated(r) /\ t \in Targets(loc[r])]_vars

\* A token that a client holds and that is not valid never becomes valid
\* again, however late the steps of the requests that stored it.
NoResurrection == [][\A t \in held : ~Usable(t) => ~Usable(t)']_vars

=============================================================================
