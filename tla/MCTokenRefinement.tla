-------------------------- MODULE MCTokenRefinement -------------------------
(* TLC instances of TokenRefinement, two in one run.  In "one session", it   *)
(* has two access tokens, and whatever the cfg says may fail; in "two        *)
(* users", a second user has a session too, each has one access token, and   *)
(* nothing fails.                                                            *)
EXTENDS TokenRefinement, TLC

CONSTANTS u1, u2, s1, s2
VARIABLE focus

TwoUsers == s1 :> u1 @@ s2 :> u2

MCInit == Init /\ focus \in {"one session", "two users"}

TwoUsersNext ==
  /\ \E r \in Reqs :
       Minting(r) \/ Authenticating(r) \/ LoggingOut(r) \/ LoggingOutAll(r) \/ Respond(r)
  /\ \A s \in Sessions : issued'[s] <= 1

MCNext ==
  /\ \/ focus = "one session" /\ Next /\ issued'[s2] = 0
     \/ focus = "two users" /\ TwoUsersNext
  /\ UNCHANGED focus

MCSpec == MCInit /\ [][MCNext]_<<vars, focus>>

Symmetry == Permutations(Reqs)
=============================================================================
