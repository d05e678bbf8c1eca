-------------------------- MODULE ServerLifecycle ---------------------------
(***************************************************************************)
(* The server process: two listeners that are started after everything is  *)
(* wired, and the shutdown that a signal, or a listener that fails, begins.*)
(* The telemetry, then the HTTP requests, get ten seconds together; then   *)
(* the connections are closed; then the gRPC calls are waited for.         *)
(***************************************************************************)
EXTENDS FiniteSets

CONSTANTS
  Requests,  \* HTTP requests
  Calls      \* gRPC calls

VARIABLES
  phase,     \* where main is
  db,        \* app.DB: never set, open or closed
  requests,  \* [Requests -> what became of the request]
  calls,     \* [Calls -> what became of the call]
  late,      \* whether the ten seconds have passed
  ended      \* history: how the process ended last

mainVars == <<phase, db, late, ended>>
clientVars == <<requests, calls>>
serverVars == <<mainVars, clientVars>>

\* loading, token, caching and writing make the file storage; serving waits for
\* the context; then main flushes the telemetry, drains Fiber, closes the
\* connections and stops the gRPC server.
Starting == {"loading", "token", "caching", "writing"}
Stopping == {"telemetry", "draining", "closing", "stopping"}
Up == {"serving"} \cup Stopping
Outcomes == {"none", "running", "answered", "failed", "cut"}

ServerInit ==
  /\ phase = "down" /\ db \in {"never set", "open"} /\ late = FALSE /\ ended = "not yet"
  /\ requests = [r \in Requests |-> "none"]
  /\ calls = [c \in Calls |-> "none"]

Running(served) == {x \in DOMAIN served : served[x] = "running"}

\* The process is gone, and with it all that it was doing.
End(how) ==
  /\ phase' = "down" /\ late' = FALSE /\ ended' = how
  /\ db' = IF db = "never set" THEN db ELSE "open"
  /\ requests' = [r \in Requests |-> IF requests[r] = "running" THEN "cut" ELSE requests[r]]
  /\ calls' = [c \in Calls |-> IF calls[c] = "running" THEN "cut" ELSE calls[c]]

GoOn(next) == phase' = next /\ UNCHANGED <<db, late, ended, clientVars>>

-----------------------------------------------------------------------------
\* main begins; what it does before it serves is the file storage's.
Boot ==
  /\ phase = "down"
  /\ GoOn("loading")

\* A signal, or a listener that cannot listen or serve, cancels the context.
Stop ==
  /\ phase = "serving"
  /\ GoOn("telemetry")

\* The ten seconds pass, whatever main is at.
Timeout ==
  /\ phase \in {"telemetry", "draining"} /\ ~late
  /\ late' = TRUE
  /\ UNCHANGED <<phase, db, ended, clientVars>>

\* TracerProvider.Shutdown and MeterProvider.Shutdown, while both listeners
\* still take requests.
FlushTelemetry ==
  /\ phase = "telemetry"
  /\ GoOn("draining")

\* A mistake to be noticed: the requests are waited for, however long they take.
DrainForever ==
  /\ phase = "draining" /\ Running(requests) = {}
  /\ GoOn("closing")
\* Another one: Shutdown is started and not waited for.
DrainNothing ==
  /\ phase = "draining"
  /\ GoOn("closing")

\* gracefulShutdown: Fiber's Shutdown returns when no request is running.
DrainRequests ==
  /\ phase = "draining" /\ (Running(requests) = {} \/ late)
  /\ GoOn("closing")

\* The databases and Redis are closed; without app.DB this is a nil pointer.
CloseConnections ==
  /\ phase = "closing"
  /\ \/ db = "never set" /\ End("panic")
     \/ db = "open" /\ db' = "closed" /\ phase' = "stopping" /\ UNCHANGED <<late, ended, clientVars>>

\* GracefulStop refuses new calls and waits for those that run, without a limit.
GracefulStop ==
  /\ phase = "stopping" /\ Running(calls) = {}
  /\ End("exit")

-----------------------------------------------------------------------------
\* Fiber takes requests until it is shut down, gRPC until GracefulStop.
Request(r) ==
  /\ phase \in {"serving", "telemetry"} /\ requests[r] = "none"
  /\ requests' = [requests EXCEPT ![r] = "running"]
  /\ UNCHANGED <<mainVars, calls>>

Finish(r, outcome) ==
  /\ requests[r] = "running"
  /\ requests' = [requests EXCEPT ![r] = outcome]
  /\ UNCHANGED <<mainVars, calls>>

\* healthCheck: unhealthy when a ping of the databases or of Redis fails, and
\* always when they are closed; without app.DB the handler panics, and Recover
\* answers with an internal error.
HealthCheck(r) ==
  \E outcome \in {"failed"} \cup (IF db = "open" THEN {"answered"} ELSE {}) : Finish(r, outcome)

Call(c) ==
  /\ phase \in Up \ {"stopping"} /\ calls[c] = "none"
  /\ calls' = [calls EXCEPT ![c] = "running"]
  /\ UNCHANGED <<mainVars, requests>>

\* The calls of the Bar service use the database, those of Hello do not.
Reply(c) ==
  /\ calls[c] = "running"
  /\ \E outcome \in {"answered"} \cup (IF db = "open" THEN {} ELSE {"failed"}) :
       calls' = [calls EXCEPT ![c] = outcome]
  /\ UNCHANGED <<mainVars, requests>>

Shutdown == FlushTelemetry \/ DrainRequests \/ CloseConnections \/ GracefulStop

-----------------------------------------------------------------------------
(***************************************************************************)
(* Properties.                                                             *)
(***************************************************************************)
\* The types of the variables.
ServerTypeOK ==
  /\ phase \in {"down"} \cup Starting \cup Up
  /\ db \in {"never set", "open", "closed"}
  /\ requests \in [Requests -> Outcomes] /\ calls \in [Calls -> Outcomes]
  /\ late \in BOOLEAN /\ ended \in {"not yet", "exit", "panic", "killed"}

\* Unless the process is killed, an HTTP request is cut off, or finds the
\* database closed, only when the ten seconds have passed; and a gRPC call is
\* cut off only by the panic.
CutOnlyLateOrByPanic ==
  [][/\ \A r \in Requests :
          /\ requests[r] = "running" /\ requests'[r] = "cut" => late \/ ended' = "killed"
          /\ requests[r] = "running" /\ db = "closed" => late
     /\ \A c \in Calls :
          calls[c] = "running" /\ calls'[c] = "cut" => ended' \in {"killed", "panic"}]_serverVars

\* A shutdown that has begun ends, whatever the HTTP requests do, if the gRPC
\* calls end.
ShutdownEnds == phase \in Stopping ~> phase = "down"
=============================================================================
