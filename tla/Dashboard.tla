----------------------------- MODULE Dashboard ------------------------------
(***************************************************************************)
(* The dashboard in one browser: the pages of executions behind the Google *)
(* session.  Every request of the pages passes the SessionMiddleware; a    *)
(* page that is open and a stream that is connected outlive the session.   *)
(***************************************************************************)
EXTENDS GoogleSession, ExecutionPages

dashboardVars == <<sessionVars, pageVars>>

DashboardInit == SessionInit /\ PagesInit

\* A request for a page itself is redirected without a session.
Requested ==
  \/ session /\ (OpenTicket \/ \E e \in Executions : OpenDetail(e))
  \/ GetExecutionData(session) \/ ListExecutions(session)
  \/ \E e \in Executions : Connect(e, session)

DashboardNext ==
  \/ SessionNext /\ UNCHANGED pageVars
  \/ (Requested \/ PagesNext) /\ UNCHANGED sessionVars

\* An EventSource connects or fails; the runner and the connection deliver what
\* there is to be told.
DashboardFairness ==
  \A e \in Executions :
    /\ WF_dashboardVars((Connect(e, session) \/ (conn[e] = "connecting" /\ Break(e))) /\ UNCHANGED sessionVars)
    /\ WF_dashboardVars((Tell(e) \/ Deliver(e)) /\ UNCHANGED sessionVars)

DashboardSpec == DashboardInit /\ [][DashboardNext]_dashboardVars /\ DashboardFairness
=============================================================================
