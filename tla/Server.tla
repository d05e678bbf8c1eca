------------------------------ MODULE Server --------------------------------
(***************************************************************************)
(* The server with its file storage.  The storage is made while main wires *)
(* the program, and a failure there ends the process; uploads are HTTP     *)
(* requests, which a shutdown waits for; the goroutines that they leave    *)
(* behind it does not wait for.                                            *)
(***************************************************************************)
EXTENDS ServerLifecycle, DriveStorage

ASSUME UploadAssumption == Uploads \subseteq Requests

vars == <<serverVars, storageVars>>

Init == ServerInit /\ StorageInit

-----------------------------------------------------------------------------
\* main, as far as WireInfrastructure: each step of NewDriveStorage.
Start ==
  \/ Boot /\ Configure
  \/ phase = "loading" /\ GoOn("token") /\ loadCachedToken
  \/ phase = "token" /\ \/ TakeToken /\ GoOn("serving")
                        \/ refreshAccessToken /\ GoOn("caching")
  \/ phase = "caching" /\ \/ Truncate /\ GoOn("writing")
                          \/ TakeFresh(FALSE) /\ GoOn("serving")
  \/ phase = "writing" /\ \E written \in BOOLEAN : TakeFresh(written) /\ GoOn("serving")

\* WireInfrastructure panics.
StartFails == phase = "token" /\ RefreshFails /\ End("panic")

\* The process ends in main, or is killed wherever it is.
Exits == CloseConnections \/ GracefulStop
Kill == phase # "down" /\ End("killed") /\ Vanish

-----------------------------------------------------------------------------
Upload(u) ==
  /\ requests[u] = "running"
  /\ \/ Store(u) /\ UNCHANGED serverVars
     \/ Answer(u) /\ Finish(u, "answered")
     \/ Fail(u) /\ Finish(u, "failed")

Serve ==
  \/ \E r \in Requests : Request(r) /\ UNCHANGED storageVars
  \/ \E u \in Uploads : Upload(u)
  \/ \E r \in Requests \ Uploads : HealthCheck(r) /\ UNCHANGED storageVars
  \/ \E c \in Calls : (Call(c) \/ Reply(c)) /\ UNCHANGED storageVars
  \/ phase \in Up /\ UNCHANGED serverVars /\ \E f \in AllFiles : SetPermission(f) \/ Delete(f)

ShutDown ==
  \/ (FlushTelemetry \/ DrainRequests) /\ UNCHANGED storageVars
  \/ Exits /\ IF phase' = "down" THEN Vanish ELSE UNCHANGED storageVars

Environment ==
  \/ (Tick \/ \E c \in Creds : Revoke(c)) /\ UNCHANGED serverVars
  \/ (Stop \/ Timeout) /\ UNCHANGED storageVars

Next == Start \/ StartFails \/ Kill \/ Serve \/ ShutDown \/ Environment

\* The timer fires, main goes on, and the handlers of gRPC calls return.  That
\* HTTP requests end is not assumed.
Fairness ==
  /\ WF_vars(Timeout /\ UNCHANGED storageVars)
  /\ WF_vars(ShutDown)
  /\ \A c \in Calls : WF_vars(Reply(c) /\ UNCHANGED storageVars)

Spec == Init /\ [][Next]_vars /\ Fairness
=============================================================================
