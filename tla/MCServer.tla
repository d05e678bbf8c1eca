------------------------------ MODULE MCServer ------------------------------
(* TLC instances of Server, two in one run.  In "credentials", two refresh   *)
(* tokens are configured and revoked while one file is uploaded; in          *)
(* "service", one of them stays, and a request that uploads two files, a     *)
(* check of the health and a gRPC call meet the shutdown.                    *)
EXTENDS Server

CONSTANT OneCred
VARIABLE focus

MCInit == Init /\ focus \in {"credentials", "service"}

Credentials ==
  /\ Next
  /\ calls' = calls /\ \A r \in Requests \ Uploads : requests'[r] = requests[r]
  /\ \A u \in Uploads : sent'[u] < MaxFiles

Service ==
  /\ Start \/ StartFails \/ Kill \/ Serve \/ ShutDown \/ ((Stop \/ Timeout) /\ UNCHANGED storageVars)
  /\ configured' = OneCred

MCNext ==
  /\ \/ focus = "credentials" /\ Credentials
     \/ focus = "service" /\ Service
  /\ UNCHANGED focus

MCSpec == MCInit /\ [][MCNext]_<<vars, focus>> /\ Fairness
=============================================================================
