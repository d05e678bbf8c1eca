-------------------------- MODULE RevocableTokens ---------------------------
(***************************************************************************)
(* What the token machinery promises, whichever store it keeps tokens in:  *)
(* a token goes live at most once, stays dead once withdrawn, and a        *)
(* request is granted only if its token was live when the request came in. *)
(* TokenLifecycle implements this specification with Redis on and with     *)
(* Redis off (TokenRefinement).                                            *)
(***************************************************************************)
CONSTANTS Token, Reqs

VARIABLES
  status,  \* [Token -> {"new", "live", "dead"}]
  phase,   \* [Reqs -> {"idle", "asking", "granted"}]
  sure     \* [Reqs -> BOOLEAN]: the token asked with was live on arrival

vars == <<status, phase, sure>>

TypeOK ==
  /\ status \in [Token -> {"new", "live", "dead"}]
  /\ phase \in [Reqs -> {"idle", "asking", "granted"}]
  /\ sure \in [Reqs -> BOOLEAN]

Init ==
  /\ status = [t \in Token |-> "new"]
  /\ phase = [r \in Reqs |-> "idle"]
  /\ sure = [r \in Reqs |-> FALSE]

Issue(t) ==
  /\ status[t] = "new"
  /\ status' = [status EXCEPT ![t] = "live"]
  /\ UNCHANGED <<phase, sure>>

Kill(S) == status' = [t \in Token |-> IF t \in S THEN "dead" ELSE status[t]]

Withdraw(S) ==
  /\ Kill(S)
  /\ UNCHANGED <<phase, sure>>

Arrive(r, t) ==
  /\ phase[r] = "idle"
  /\ status[t] # "new"
  /\ phase' = [phase EXCEPT ![r] = "asking"]
  /\ sure' = [sure EXCEPT ![r] = status[t] = "live"]
  /\ UNCHANGED status

Grant(r) ==
  /\ phase[r] = "asking"
  /\ sure[r]
  /\ phase' = [phase EXCEPT ![r] = "granted"]
  /\ UNCHANGED <<status, sure>>

\* A request that ends may give up tokens that it had not issued yet.
Close(r) ==
  /\ phase[r] # "idle"
  /\ phase' = [phase EXCEPT ![r] = "idle"]
  /\ sure' = [sure EXCEPT ![r] = FALSE]
  /\ \E S \in SUBSET {t \in Token : status[t] = "new"} : Kill(S)

Next ==
  \/ \E t \in Token : Issue(t)
  \/ \E S \in SUBSET Token : Withdraw(S)
  \/ \E r \in Reqs : (\E t \in Token : Arrive(r, t)) \/ Grant(r) \/ Close(r)

Spec == Init /\ [][Next]_vars
=============================================================================
