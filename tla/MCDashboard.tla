---------------------------- MODULE MCDashboard -----------------------------
(* TLC instances of Dashboard, two in one run.  In "sessions", two tabs sign *)
(* in and out and load pages of tickets; in "pages", one tab signs in once,  *)
(* and the pages of two executions are used until its session ends.     *)
EXTENDS Dashboard

CONSTANTS OneTab, OneState
VARIABLE focus

MCInit == DashboardInit /\ focus \in {"sessions", "pages"}

Focus ==
  \/ focus = "sessions" /\ status' = status /\ conn' = conn
  \/ focus = "pages" /\ begun' \subseteq {OneState} /\ \A t \in Tabs \ {OneTab} : at'[t] = "login"

MCNext == DashboardNext /\ Focus /\ UNCHANGED focus

MCSpec == MCInit /\ [][MCNext]_<<dashboardVars, focus>> /\ DashboardFairness
=============================================================================
