---------------------------- MODULE Server_proofs ---------------------------
(***************************************************************************)
(* Proofs about Server, for any refresh tokens, requests, calls and number *)
(* of files.  Safe is inductive: it adds what main has established at each *)
(* of its steps, and that every stored file is accounted for, whether an   *)
(* answer has named it or not.                                             *)
(***************************************************************************)
EXTENDS Server, TLAPS

TypeOK == ServerTypeOK /\ StorageTypeOK

\* Before it serves, the process has no client for Drive and no requests.
NothingBeforeServing ==
  phase \notin Up => /\ source = None /\ inherited = FALSE
                     /\ Running(requests) = {} /\ Running(calls) = {}

\* What main writes to the cache file is a token of its own configuration, and
\* while it serves it has one.
TokenIsKnown ==
  /\ phase \in {"caching", "writing"} => token.cred = configured
  /\ phase \in Up => source.cred \in Creds

\* Past the drain, no request runs or the time is over.
DrainIsOver ==
  /\ phase \in {"closing", "stopping"} => Running(requests) = {} \/ late
  /\ db = "closed" => phase = "stopping"

StoredIsAccounted == stored \subseteq public \cup publishing \cup refused \cup lost

Safe == /\ TypeOK /\ NothingBeforeServing /\ TokenIsKnown /\ DrainIsOver
        /\ StoredIsAccounted /\ ActsForTheConfigured

-----------------------------------------------------------------------------
(***************************************************************************)
(* Tokens                                                                  *)
(***************************************************************************)
AnyToken == Tokens \cup {None, Torn}

LEMMA TokenTypes ==
  ASSUME NEW t \in AnyToken
  PROVE  /\ t.cred \in Creds \cup {NoFile} /\ t.left \in 0..2
         /\ t.cred \in Creds => t \in Tokens
         /\ Good(t) => t \in Tokens
BY StorageAssumption DEF AnyToken, Tokens, None, Torn, Good

\* An older token is of the same refresh token, and none stays none.
LEMMA OlderToken ==
  ASSUME NEW t \in AnyToken
  PROVE  /\ Older(t).cred = t.cred
         /\ t \in Tokens \cup {None} => Older(t) \in Tokens \cup {None}
         /\ Older(t) \in AnyToken
         /\ t = None => Older(t) = None
         /\ Older(t) = None => t = None
BY StorageAssumption, TokenTypes DEF AnyToken, Tokens, None, Torn, Older

LEMMA UsedToken ==
  ASSUME source \in Tokens
  PROVE  Used \in Tokens /\ Used.cred = source.cred
BY DEF Tokens, Used

LEMMA InitSafe == Init => Safe
<1> SUFFICES ASSUME Init PROVE Safe
  OBVIOUS
<1>1. ServerTypeOK
  BY DEF Init, ServerInit, ServerTypeOK, Outcomes
<1>2. StorageTypeOK
  <2>1. sent \in [Uploads -> 0..MaxFiles]
    BY StorageAssumption DEF Init, StorageInit
  <2>2. stored \cup named \cup publishing \cup public \cup refused \cup lost \subseteq AllFiles
    BY DEF Init, StorageInit
  <2>3. configured \in Creds /\ revoked \subseteq Creds /\ inherited \in BOOLEAN
    BY DEF Init, StorageInit
  <2>4. file = None /\ token = None /\ source = None
    BY DEF Init, StorageInit
  <2> QED BY <2>1, <2>2, <2>3, <2>4 DEF StorageTypeOK
<1>3. NothingBeforeServing
  BY DEF Init, ServerInit, StorageInit, NothingBeforeServing, Running
<1> QED BY <1>1, <1>2, <1>3
        DEF Init, ServerInit, StorageInit, Safe, TypeOK, TokenIsKnown, DrainIsOver,
            StoredIsAccounted, ActsForTheConfigured, Up, Stopping

-----------------------------------------------------------------------------
(***************************************************************************)
(* The start                                                               *)
(***************************************************************************)
LEMMA BootSafe == ASSUME Safe, Boot, Configure PROVE Safe'
<1> USE DEF Boot, GoOn, Configure, fileVars, clientVars
<1>1. ServerTypeOK' /\ StorageTypeOK'
  BY DEF Safe, TypeOK, ServerTypeOK, StorageTypeOK, Starting
<1>2. NothingBeforeServing'
  BY DEF Safe, NothingBeforeServing, Running, Up, Stopping
<1>3. TokenIsKnown' /\ DrainIsOver' /\ StoredIsAccounted' /\ ActsForTheConfigured'
  BY DEF Safe, TokenIsKnown, DrainIsOver, StoredIsAccounted, ActsForTheConfigured, Up, Stopping
<1> QED BY <1>1, <1>2, <1>3 DEF Safe, TypeOK

LEMMA LoadSafe ==
  ASSUME Safe, phase = "loading", GoOn("token"), loadCachedToken
  PROVE  Safe'
<1> USE DEF GoOn, loadCachedToken, fileVars, clientVars
<1>1. token' \in Tokens \cup {None}
  BY TokenTypes DEF Safe, TypeOK, StorageTypeOK, AnyToken, Tokens
<1>2. ServerTypeOK' /\ StorageTypeOK'
  BY <1>1 DEF Safe, TypeOK, ServerTypeOK, StorageTypeOK, Starting
<1>3. NothingBeforeServing'
  BY DEF Safe, NothingBeforeServing, Running, Up, Stopping
<1>4. TokenIsKnown' /\ DrainIsOver' /\ StoredIsAccounted' /\ ActsForTheConfigured'
  BY DEF Safe, TokenIsKnown, DrainIsOver, StoredIsAccounted, ActsForTheConfigured, Up, Stopping
<1> QED BY <1>2, <1>3, <1>4 DEF Safe, TypeOK

\* The cached token becomes the source: inherited says whose it is.
LEMMA TakeSafe ==
  ASSUME Safe, phase = "token", TakeToken, GoOn("serving")
  PROVE  Safe'
<1> USE DEF GoOn, TakeToken, fileVars, clientVars
<1>1. token \in Tokens
  BY TokenTypes DEF Safe, TypeOK, StorageTypeOK, AnyToken
<1>2. token.cred \in Creds
  BY <1>1 DEF Tokens
<1>3. ServerTypeOK' /\ StorageTypeOK'
  BY <1>1 DEF Safe, TypeOK, ServerTypeOK, StorageTypeOK, Up
<1>4. NothingBeforeServing' /\ DrainIsOver' /\ StoredIsAccounted'
  BY DEF Safe, NothingBeforeServing, DrainIsOver, StoredIsAccounted, Up, Stopping
<1>5. TokenIsKnown' /\ ActsForTheConfigured'
  BY <1>2 DEF TokenIsKnown, ActsForTheConfigured
<1> QED BY <1>3, <1>4, <1>5 DEF Safe, TypeOK

LEMMA RefreshSafe ==
  ASSUME Safe, phase = "token", refreshAccessToken, GoOn("caching")
  PROVE  Safe'
<1> USE DEF GoOn, refreshAccessToken, refreshToken, fileVars, clientVars
<1>1. token' \in Tokens /\ token'.cred = configured
  BY DEF Safe, TypeOK, StorageTypeOK, Tokens
<1>2. ServerTypeOK' /\ StorageTypeOK'
  BY <1>1 DEF Safe, TypeOK, ServerTypeOK, StorageTypeOK, Starting
<1>3. NothingBeforeServing'
  BY DEF Safe, NothingBeforeServing, Running, Up, Stopping
<1>4. TokenIsKnown' /\ DrainIsOver' /\ StoredIsAccounted' /\ ActsForTheConfigured'
  BY <1>1 DEF Safe, TokenIsKnown, DrainIsOver, StoredIsAccounted, ActsForTheConfigured,
              Up, Stopping
<1> QED BY <1>2, <1>3, <1>4 DEF Safe, TypeOK

LEMMA TruncateSafe ==
  ASSUME Safe, phase = "caching", Truncate, GoOn("writing")
  PROVE  Safe'
<1> USE DEF GoOn, Truncate, fileVars, clientVars
<1>1. ServerTypeOK' /\ StorageTypeOK'
  BY DEF Safe, TypeOK, ServerTypeOK, StorageTypeOK, Starting
<1>2. NothingBeforeServing'
  BY DEF Safe, NothingBeforeServing, Running, Up, Stopping
<1>3. TokenIsKnown' /\ DrainIsOver' /\ StoredIsAccounted' /\ ActsForTheConfigured'
  BY DEF Safe, TokenIsKnown, DrainIsOver, StoredIsAccounted, ActsForTheConfigured, Up, Stopping
<1> QED BY <1>1, <1>2, <1>3 DEF Safe, TypeOK

LEMMA FreshSafe ==
  ASSUME Safe, phase \in {"caching", "writing"}, NEW written \in BOOLEAN,
         TakeFresh(written), GoOn("serving")
  PROVE  Safe'
<1> USE DEF GoOn, TakeFresh, fileVars, clientVars
<1>1. token.cred = configured /\ token \in Tokens
  BY TokenTypes DEF Safe, TypeOK, TokenIsKnown, StorageTypeOK, AnyToken
<1>2. ServerTypeOK'
  BY DEF Safe, TypeOK, ServerTypeOK, Up
<1>3. StorageTypeOK'
  BY <1>1 DEF Safe, TypeOK, StorageTypeOK
<1>4. NothingBeforeServing' /\ DrainIsOver' /\ StoredIsAccounted'
  BY DEF Safe, NothingBeforeServing, DrainIsOver, StoredIsAccounted, Up, Stopping
<1>5. TokenIsKnown' /\ ActsForTheConfigured'
  BY <1>1 DEF Safe, TypeOK, StorageTypeOK, TokenIsKnown, ActsForTheConfigured
<1> QED BY <1>2, <1>3, <1>4, <1>5 DEF Safe, TypeOK

LEMMA StartSafe == Safe /\ Start => Safe'
BY BootSafe, LoadSafe, TakeSafe, RefreshSafe, TruncateSafe, FreshSafe DEF Start

-----------------------------------------------------------------------------
(***************************************************************************)
(* The end                                                                 *)
(***************************************************************************)
LEMMA EndServer ==
  ASSUME ServerTypeOK, NEW how \in {"exit", "panic", "killed"}, End(how)
  PROVE  /\ ServerTypeOK'
         /\ phase' = "down" /\ db' # "closed"
         /\ Running(requests)' = {} /\ Running(calls)' = {}
BY DEF ServerTypeOK, End, Outcomes, Running

\* Everything is gone, except what is on Drive and in the cache file.
LEMMA VanishSafe ==
  ASSUME Safe, NEW how \in {"exit", "panic", "killed"}, End(how), Vanish
  PROVE  Safe'
<1>1. ServerTypeOK' /\ phase' = "down" /\ db' # "closed"
  BY EndServer DEF Safe, TypeOK
<1>2. StorageTypeOK'
  BY DEF Safe, TypeOK, StorageTypeOK, Vanish
<1>3. NothingBeforeServing'
  BY EndServer DEF Safe, TypeOK, NothingBeforeServing, Vanish
<1>4. TokenIsKnown' /\ DrainIsOver'
  BY <1>1 DEF TokenIsKnown, DrainIsOver, Up, Stopping
<1>5. StoredIsAccounted' /\ ActsForTheConfigured'
  BY DEF Safe, StoredIsAccounted, ActsForTheConfigured, Vanish
<1> QED BY <1>1, <1>2, <1>3, <1>4, <1>5 DEF Safe, TypeOK

LEMMA StartFailsSafe == Safe /\ StartFails => Safe'
<1> SUFFICES ASSUME Safe, StartFails PROVE Safe'
  OBVIOUS
<1> USE DEF StartFails, RefreshFails, storageVars, tokenVars, fileVars
<1>1. ServerTypeOK' /\ phase' = "down" /\ db' # "closed"
  BY EndServer DEF Safe, TypeOK
<1>2. StorageTypeOK'
  BY DEF Safe, TypeOK, StorageTypeOK
<1>3. NothingBeforeServing'
  BY EndServer DEF Safe, TypeOK, NothingBeforeServing, Up, Stopping
<1>4. TokenIsKnown' /\ DrainIsOver'
  BY <1>1 DEF TokenIsKnown, DrainIsOver, Up, Stopping
<1>5. StoredIsAccounted' /\ ActsForTheConfigured'
  BY DEF Safe, StoredIsAccounted, ActsForTheConfigured
<1> QED BY <1>1, <1>2, <1>3, <1>4, <1>5 DEF Safe, TypeOK

LEMMA KillSafe == Safe /\ Kill => Safe'
BY VanishSafe DEF Kill

LEMMA ShutDownSafe == Safe /\ ShutDown => Safe'
<1> SUFFICES ASSUME Safe, ShutDown PROVE Safe'
  OBVIOUS
<1> USE DEF storageVars, tokenVars, fileVars, clientVars, GoOn
<1>1. CASE (FlushTelemetry \/ DrainRequests) /\ UNCHANGED storageVars
  <2>1. ServerTypeOK' /\ StorageTypeOK'
    BY <1>1 DEF Safe, TypeOK, ServerTypeOK, StorageTypeOK, FlushTelemetry, DrainRequests,
                Up, Stopping
  <2>2. NothingBeforeServing' /\ TokenIsKnown' /\ DrainIsOver'
    BY <1>1 DEF Safe, NothingBeforeServing, TokenIsKnown, DrainIsOver, Running,
                FlushTelemetry, DrainRequests, Up, Stopping
  <2>3. StoredIsAccounted' /\ ActsForTheConfigured'
    BY <1>1 DEF Safe, StoredIsAccounted, ActsForTheConfigured
  <2> QED BY <2>1, <2>2, <2>3 DEF Safe, TypeOK
<1>2. CASE Exits /\ phase' = "down" /\ Vanish
  <2>1. End("panic") \/ End("exit")
    BY <1>2 DEF Exits, CloseConnections, GracefulStop
  <2> QED BY <1>2, <2>1, VanishSafe
<1>3. CASE Exits /\ phase' # "down" /\ UNCHANGED storageVars
  <2>1. /\ phase = "closing" /\ phase' = "stopping" /\ db = "open" /\ db' = "closed"
        /\ UNCHANGED <<late, ended, clientVars>>
    BY <1>3 DEF Exits, CloseConnections, GracefulStop, End
  <2>2. ServerTypeOK' /\ StorageTypeOK'
    BY <1>3, <2>1 DEF Safe, TypeOK, ServerTypeOK, StorageTypeOK, Up, Stopping
  <2>3. NothingBeforeServing' /\ TokenIsKnown' /\ DrainIsOver'
    BY <1>3, <2>1 DEF Safe, NothingBeforeServing, TokenIsKnown, DrainIsOver, Running, Up, Stopping
  <2>4. StoredIsAccounted' /\ ActsForTheConfigured'
    BY <1>3 DEF Safe, StoredIsAccounted, ActsForTheConfigured
  <2> QED BY <2>2, <2>3, <2>4 DEF Safe, TypeOK
<1> QED BY <1>1, <1>2, <1>3 DEF ShutDown

-----------------------------------------------------------------------------
(***************************************************************************)
(* Serving                                                                 *)
(***************************************************************************)
\* Clients move only what became of requests and calls, and only while the
\* process serves them.
LEMMA ClientSafe ==
  ASSUME Safe, phase \in Up, ServerTypeOK', UNCHANGED <<mainVars, storageVars>>,
         phase \in {"closing", "stopping"} => Running(requests') \subseteq Running(requests)
  PROVE  Safe'
<1> USE DEF mainVars, storageVars, tokenVars, fileVars
<1>1. StorageTypeOK'
  BY DEF Safe, TypeOK, StorageTypeOK
<1>2. NothingBeforeServing' /\ TokenIsKnown'
  BY DEF Safe, NothingBeforeServing, TokenIsKnown
<1>3. DrainIsOver'
  BY DEF Safe, DrainIsOver
<1>4. StoredIsAccounted' /\ ActsForTheConfigured'
  BY DEF Safe, StoredIsAccounted, ActsForTheConfigured
<1> QED BY <1>1, <1>2, <1>3, <1>4 DEF Safe, TypeOK

LEMMA RunningIsUp ==
  /\ Safe => \A r \in Requests : requests[r] = "running" => phase \in Up
  /\ Safe => \A c \in Calls : calls[c] = "running" => phase \in Up
BY DEF Safe, TypeOK, ServerTypeOK, NothingBeforeServing, Running

LEMMA RequestSafe ==
  ASSUME Safe, NEW r \in Requests, Request(r), UNCHANGED storageVars
  PROVE  Safe'
<1>1. phase \in Up /\ phase \notin {"closing", "stopping"}
  BY DEF Request, Up, Stopping
<1>2. ServerTypeOK'
  BY DEF Safe, TypeOK, ServerTypeOK, Request, mainVars, Outcomes
<1> QED BY <1>1, <1>2, ClientSafe DEF Request

LEMMA FinishServer ==
  ASSUME Safe, NEW r \in Requests, NEW outcome \in {"answered", "failed"}, Finish(r, outcome)
  PROVE  /\ phase \in Up /\ ServerTypeOK' /\ UNCHANGED mainVars
         /\ Running(requests') \subseteq Running(requests)
<1>1. ServerTypeOK'
  BY DEF Safe, TypeOK, ServerTypeOK, Finish, mainVars, Outcomes
<1>2. Running(requests') \subseteq Running(requests)
  BY DEF Safe, TypeOK, ServerTypeOK, Finish, Running
<1> QED BY <1>1, <1>2, RunningIsUp DEF Finish

LEMMA CallSafe ==
  ASSUME Safe, NEW c \in Calls, Call(c) \/ Reply(c), UNCHANGED storageVars
  PROVE  Safe'
<1>1. phase \in Up
  BY RunningIsUp DEF Call, Reply
<1>2. UNCHANGED <<mainVars, requests>>
  BY DEF Call, Reply
<1>3. ServerTypeOK'
  <2>1. calls' \in [Calls -> Outcomes]
    BY DEF Safe, TypeOK, ServerTypeOK, Call, Reply, Outcomes
  <2> QED BY <1>2, <2>1 DEF Safe, TypeOK, ServerTypeOK, mainVars
<1>4. Running(requests') \subseteq Running(requests)
  BY <1>2 DEF Running
<1> QED BY <1>1, <1>2, <1>3, <1>4, ClientSafe

\* The client for Drive may refresh its token, which stays that of the same
\* refresh token.
LEMMA SourceSafe ==
  ASSUME Safe, phase \in Up, UNCHANGED mainVars, source' \in {source, Used}
  PROVE  /\ source' \in Tokens \cup {None}
         /\ source'.cred = source.cred /\ source' # None
<1>1. source \in Tokens /\ source.cred \in Creds
  BY TokenTypes DEF Safe, TypeOK, StorageTypeOK, TokenIsKnown, AnyToken
<1>2. source'.cred = source.cred /\ source' \in Tokens
  BY <1>1, UsedToken
<1>3. None.cred \notin Creds
  BY StorageAssumption DEF None
<1> QED BY <1>1, <1>2, <1>3

\* A step on the files, while the process serves.
LEMMA FilesSafe ==
  ASSUME Safe, phase \in Up, UNCHANGED mainVars, ServerTypeOK',
         phase \in {"closing", "stopping"} => Running(requests') \subseteq Running(requests),
         source' \in {source, Used}, UNCHANGED <<configured, revoked, file, token, inherited>>,
         sent' \in [Uploads -> 0..MaxFiles],
         stored' \cup named' \cup publishing' \cup public' \cup refused' \cup lost'
           \subseteq AllFiles,
         StoredIsAccounted'
  PROVE  Safe'
<1> USE DEF mainVars
<1>1. StorageTypeOK'
  BY SourceSafe DEF Safe, TypeOK, StorageTypeOK
<1>2. NothingBeforeServing' /\ DrainIsOver'
  BY DEF Safe, NothingBeforeServing, DrainIsOver
<1>3. TokenIsKnown'
  BY SourceSafe DEF Safe, TokenIsKnown, Up, Stopping
<1>4. ActsForTheConfigured'
  <2>1. source # None
    BY TokenTypes, StorageAssumption DEF Safe, TokenIsKnown, None
  <2> QED BY <2>1, SourceSafe DEF Safe, ActsForTheConfigured
<1> QED BY <1>1, <1>2, <1>3, <1>4 DEF Safe, TypeOK

LEMMA StoreSafe ==
  ASSUME Safe, NEW u \in Uploads, requests[u] = "running", Store(u), UNCHANGED serverVars
  PROVE  Safe'
<1> USE DEF serverVars, clientVars
<1>1. phase \in Up
  BY UploadAssumption, RunningIsUp
<1>2. ServerTypeOK'
  BY DEF Safe, TypeOK, ServerTypeOK, mainVars
<1>3. sent[u] \in 0..MaxFiles /\ sent[u] < MaxFiles
  BY DEF Safe, TypeOK, StorageTypeOK, Store
<1>4. sent' \in [Uploads -> 0..MaxFiles]
  BY <1>3, StorageAssumption DEF Safe, TypeOK, StorageTypeOK, Store
<1>5. <<u, sent[u] + 1>> \in AllFiles
  BY <1>3, StorageAssumption DEF AllFiles
<1>6. stored' \cup named' \cup publishing' \cup public' \cup refused' \cup lost' \subseteq AllFiles
  BY <1>5 DEF Safe, TypeOK, StorageTypeOK, Store, Publish
<1>7. StoredIsAccounted'
  BY DEF Safe, StoredIsAccounted, Store, Publish
<1> QED BY <1>1, <1>2, <1>4, <1>6, <1>7, FilesSafe DEF Store, Running

LEMMA UploadSafe == ASSUME Safe, NEW u \in Uploads, Upload(u) PROVE Safe'
<1> USE UploadAssumption
<1>1. CASE Store(u) /\ UNCHANGED serverVars
  BY <1>1, StoreSafe DEF Upload
<1>2. CASE Answer(u) /\ Finish(u, "answered")
  <2>1. sent' = sent /\ source' = source
    BY <1>2 DEF Answer, tokenVars
  <2>2. stored' \cup named' \cup publishing' \cup public' \cup refused' \cup lost'
          \subseteq AllFiles
    BY <1>2 DEF Safe, TypeOK, StorageTypeOK, Answer
  <2>3. StoredIsAccounted'
    BY <1>2 DEF Safe, StoredIsAccounted, Answer
  <2>4. /\ phase \in Up /\ ServerTypeOK' /\ UNCHANGED mainVars
        /\ Running(requests') \subseteq Running(requests)
    BY <1>2, FinishServer
  <2>5. sent' \in [Uploads -> 0..MaxFiles]
    BY <2>1 DEF Safe, TypeOK, StorageTypeOK
  <2>6. UNCHANGED <<configured, revoked, file, token, inherited>>
    BY <1>2 DEF Answer, tokenVars
  <2> QED BY <2>1, <2>2, <2>3, <2>4, <2>5, <2>6, FilesSafe
<1>3. CASE Fail(u) /\ Finish(u, "failed")
  BY <1>3, FinishServer, ClientSafe DEF Fail
<1> QED BY <1>1, <1>2, <1>3 DEF Upload

LEMMA PermissionSafe ==
  ASSUME Safe, phase \in Up, UNCHANGED serverVars, NEW f \in AllFiles,
         SetPermission(f) \/ Delete(f)
  PROVE  Safe'
<1> USE DEF serverVars, clientVars
<1>1. ServerTypeOK'
  BY DEF Safe, TypeOK, ServerTypeOK, mainVars
<1>2. sent' = sent /\ source' \in {source, Used}
      /\ UNCHANGED <<configured, revoked, file, token, inherited>>
  BY DEF SetPermission, Delete
<1>3. stored' \cup named' \cup publishing' \cup public' \cup refused' \cup lost' \subseteq AllFiles
  BY DEF Safe, TypeOK, StorageTypeOK, SetPermission, Delete
<1>4. StoredIsAccounted'
  BY DEF Safe, StoredIsAccounted, SetPermission, Delete
<1>5. sent' \in [Uploads -> 0..MaxFiles]
  BY <1>2 DEF Safe, TypeOK, StorageTypeOK
<1> QED BY <1>1, <1>2, <1>3, <1>4, <1>5, FilesSafe DEF Running

LEMMA HealthSafe ==
  ASSUME Safe, NEW r \in Requests, HealthCheck(r), UNCHANGED storageVars
  PROVE  Safe'
<1>1. \E outcome \in {"answered", "failed"} : Finish(r, outcome)
  BY DEF HealthCheck
<1> QED BY <1>1, FinishServer, ClientSafe

LEMMA ServeSafe == Safe /\ Serve => Safe'
BY RequestSafe, UploadSafe, HealthSafe, CallSafe, PermissionSafe DEF Serve

LEMMA EnvironmentSafe == Safe /\ Environment => Safe'
<1> SUFFICES ASSUME Safe, Environment PROVE Safe'
  OBVIOUS
<1>1. CASE (Tick \/ \E c \in Creds : Revoke(c)) /\ UNCHANGED serverVars
  <2> USE <1>1 DEF serverVars, mainVars, clientVars
  <2>1. ServerTypeOK'
    BY DEF Safe, TypeOK, ServerTypeOK
  <2>2. UNCHANGED <<configured, inherited, fileVars>>
    BY DEF Tick, Revoke
  <2>3. /\ file' \in AnyToken /\ token' \in Tokens \cup {None} /\ source' \in Tokens \cup {None}
        /\ source'.cred = source.cred /\ token'.cred = token.cred
        /\ source' = None <=> source = None
    BY OlderToken DEF Safe, TypeOK, StorageTypeOK, Tick, Revoke, AnyToken
  <2>4. StorageTypeOK'
    BY <2>2, <2>3 DEF Safe, TypeOK, StorageTypeOK, fileVars, Revoke, Tick, AnyToken
  <2>5. NothingBeforeServing' /\ TokenIsKnown' /\ DrainIsOver'
    BY <2>2, <2>3 DEF Safe, NothingBeforeServing, TokenIsKnown, DrainIsOver, Running
  <2>6. StoredIsAccounted' /\ ActsForTheConfigured'
    BY <2>2, <2>3 DEF Safe, StoredIsAccounted, ActsForTheConfigured, fileVars
  <2> QED BY <2>1, <2>4, <2>5, <2>6 DEF Safe, TypeOK
<1>2. CASE (Stop \/ Timeout) /\ UNCHANGED storageVars
  <2> USE <1>2 DEF Stop, Timeout, GoOn, clientVars, storageVars, tokenVars, fileVars
  <2>1. ServerTypeOK'
    BY DEF Safe, TypeOK, ServerTypeOK, Up, Stopping
  <2>2. StorageTypeOK'
    BY DEF Safe, TypeOK, StorageTypeOK
  <2>3. NothingBeforeServing' /\ TokenIsKnown' /\ DrainIsOver'
    BY DEF Safe, NothingBeforeServing, TokenIsKnown, DrainIsOver, Running, Up, Stopping
  <2>4. StoredIsAccounted' /\ ActsForTheConfigured'
    BY DEF Safe, StoredIsAccounted, ActsForTheConfigured
  <2> QED BY <2>1, <2>2, <2>3, <2>4 DEF Safe, TypeOK
<1> QED BY <1>1, <1>2 DEF Environment

-----------------------------------------------------------------------------
(***************************************************************************)
(* The invariant, and what follows from it                                 *)
(***************************************************************************)
LEMMA StepSafe == Safe /\ [Next]_vars => Safe'
<1>1. ASSUME Safe, UNCHANGED vars PROVE Safe'
  <2> USE <1>1 DEF vars, serverVars, mainVars, clientVars, storageVars, tokenVars, fileVars
  <2>1. ServerTypeOK'
    BY DEF Safe, TypeOK, ServerTypeOK
  <2>2. StorageTypeOK'
    BY DEF Safe, TypeOK, StorageTypeOK
  <2>3. NothingBeforeServing' /\ TokenIsKnown' /\ DrainIsOver'
    BY DEF Safe, NothingBeforeServing, TokenIsKnown, DrainIsOver, Running
  <2>4. StoredIsAccounted' /\ ActsForTheConfigured'
    BY DEF Safe, StoredIsAccounted, ActsForTheConfigured
  <2> QED BY <2>1, <2>2, <2>3, <2>4 DEF Safe, TypeOK
<1> QED BY <1>1, StartSafe, StartFailsSafe, KillSafe, ServeSafe, ShutDownSafe, EnvironmentSafe
        DEF Next

\* The server starts, serves, drains and is killed within its types.
THEOREM TypeCorrect == Spec => []TypeOK
<1>1. Safe => TypeOK
  BY DEF Safe
<1> QED BY InitSafe, StepSafe, <1>1, PTL DEF Spec

\* Files are uploaded for the refresh token of the configuration, except by a
\* process that found a cached token of another one, still good, at its start.
THEOREM UploadsAreForTheConfigured == Spec => []ActsForTheConfigured
<1>1. Safe => ActsForTheConfigured
  BY DEF Safe
<1> QED BY InitSafe, StepSafe, <1>1, PTL DEF Spec

\* A file that an answer has named is public, or soon; or Drive refused, the
\* process ended, or somebody has deleted it.
THEOREM NamedIsPublic == Spec => []PrivateOnlyByFaultOrExit
<1>1. Safe => PrivateOnlyByFaultOrExit
  BY DEF Safe, StoredIsAccounted, PrivateOnlyByFaultOrExit
<1> QED BY InitSafe, StepSafe, <1>1, PTL DEF Spec

CutLate ==
  /\ \A r \in Requests :
       /\ requests[r] = "running" /\ requests'[r] = "cut" => late \/ ended' = "killed"
       /\ requests[r] = "running" /\ db = "closed" => late
  /\ \A c \in Calls :
       calls[c] = "running" /\ calls'[c] = "cut" => ended' \in {"killed", "panic"}

\* A step out of a safe state cuts off a request only late, and a call only by
\* the panic, unless the process is killed.
LEMMA StepCutsLate == Safe /\ Next => CutLate
<1> SUFFICES ASSUME Safe, Next PROVE CutLate
  OBVIOUS
<1>1. /\ \A r \in Requests : requests[r] = "running" => r \in Running(requests)
      /\ \A c \in Calls : calls[c] = "running" => c \in Running(calls)
  BY DEF Safe, TypeOK, ServerTypeOK, Running
<1>2. \A r \in Requests : requests[r] = "running" /\ db = "closed" => late
  BY <1>1 DEF Safe, DrainIsOver
<1>3. CASE UNCHANGED clientVars
  BY <1>2, <1>3 DEF CutLate, clientVars
<1>4. CASE StartFails
  BY <1>1, <1>2, <1>4 DEF StartFails, Safe, NothingBeforeServing, CutLate, Up, Stopping
<1>5. CASE Kill
  BY <1>2, <1>5 DEF Kill, End, CutLate
<1>6. CASE Serve
  <2>1. \A r \in Requests : requests'[r] \in {requests[r], "running", "answered", "failed"}
    BY <1>6 DEF Safe, TypeOK, ServerTypeOK, Serve, Request, Upload, Finish, HealthCheck, Call,
                Reply, serverVars, clientVars
  <2>2. \A c \in Calls : calls'[c] \in {calls[c], "running", "answered", "failed"}
    BY <1>6 DEF Safe, TypeOK, ServerTypeOK, Serve, Request, Upload, Finish, HealthCheck, Call,
                Reply, serverVars, clientVars
  <2> QED BY <1>2, <2>1, <2>2 DEF CutLate
<1>7. CASE Exits
  <2>1. phase \in {"closing", "stopping"}
    BY <1>7 DEF Exits, CloseConnections, GracefulStop
  <2>2. \A r \in Requests : requests[r] = "running" => late
    BY <1>1, <2>1 DEF Safe, DrainIsOver
  <2>3. \/ ended' = "panic"
        \/ UNCHANGED clientVars
        \/ Running(calls) = {}
    BY <1>7 DEF Exits, CloseConnections, GracefulStop, End
  <2> QED BY <1>1, <2>2, <2>3 DEF CutLate, clientVars
<1> QED BY <1>3, <1>4, <1>5, <1>6, <1>7
        DEF Next, Start, Boot, GoOn, ShutDown, FlushTelemetry, DrainRequests, Environment, Stop,
            Timeout, serverVars

\* Unless the process is killed, an HTTP request is cut off, or finds the
\* database closed, only when the ten seconds have passed; and a gRPC call is
\* cut off only by the panic.
THEOREM CutsOnlyLateOrByPanic == Spec => CutOnlyLateOrByPanic
<1>1. Safe /\ [Next]_vars => [CutLate]_serverVars
  BY StepCutsLate DEF vars
<1>2. CutOnlyLateOrByPanic <=> [][CutLate]_serverVars
  BY DEF CutOnlyLateOrByPanic, CutLate
<1> QED BY InitSafe, StepSafe, <1>1, <1>2, PTL DEF Spec

=============================================================================
