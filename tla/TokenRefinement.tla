-------------------------- MODULE TokenRefinement ---------------------------
(* TokenLifecycle implements RevocableTokens.  A token is live when the      *)
(* middleware would take it for valid, new as long as it is not minted or    *)
(* the request that stores it has not put it in the last store, and dead in  *)
(* every other case.                                                         *)
EXTENDS TokenLifecycle

Minted(t) == IF t.num = 0 THEN issued[t.sess] > 0 ELSE t.num <= issued[t.sess]

InFlight(t) ==
  \E r \in Reqs :
    \/ /\ pc[r] \in {"createSession", "storeAccess", "cacheAccess"}
       /\ t \in {loc[r].new} \cup (IF loc[r].op = "login" THEN {Refresh(loc[r].sess)} ELSE {})
    \/ /\ pc[r] \in {"storeRefresh", "cacheRefresh"}
       /\ t = Refresh(loc[r].sess)

Status(t) ==
  CASE Usable(t) -> "live"
    [] ~Usable(t) /\ (~Minted(t) \/ InFlight(t)) /\ t \notin blacklist -> "new"
    [] OTHER -> "dead"

Phase(r) ==
  CASE loc[r].tok = None -> "idle"
    [] loc[r].tok # None /\ pc[r] \in AuthSteps -> "asking"
    [] OTHER -> "granted"

Promised ==
  INSTANCE RevocableTokens WITH
    status <- [t \in Token |-> Status(t)],
    phase  <- [r \in Reqs |-> Phase(r)],
    sure   <- [r \in Reqs |-> loc[r].live]

\* Seen through this mapping, every behaviour of the token machinery is one
\* of the promised behaviours: tokens go live once, revoked tokens stay dead,
\* and no request is granted with a token that was dead on arrival.
ImplementsRevocableTokens == Promised!Spec
=============================================================================
