--------------------------- MODULE DriveStorage -----------------------------
(***************************************************************************)
(* The file storage on Google Drive: the token that the token manager      *)
(* takes from its cache file or from Google when the server starts, the    *)
(* token source that uploads use from then on, the requests that upload    *)
(* several files, and the permissions that make the files public, which    *)
(* are asked for after the answer.                                         *)
(***************************************************************************)
EXTENDS Naturals, FiniteSets

CONSTANTS
  Creds,    \* refresh tokens that the configuration may hold, one at a time
  Uploads,  \* upload requests
  MaxFiles, \* bound: the most files in one request
  NoFile

ASSUME StorageAssumption == MaxFiles \in Nat \ {0} /\ NoFile \notin Creds

VARIABLES
  configured,  \* the refresh token in the configuration of the process
  revoked,     \* refresh tokens that Google does not accept any more
  file,        \* the cache file: none, torn, or a token
  token,       \* tm.token
  source,      \* the token of the HTTP client of the Drive service
  stored,      \* files on Drive: <<request, number>>
  sent,        \* [Uploads -> files of the request that have been stored]
  named,       \* history: files that an answer has named
  publishing,  \* goroutines that are about to make a file public
  public,      \* files that everybody can read
  refused,     \* history: files whose permission Drive did not grant
  lost,        \* history: files whose goroutine the process did not live to finish
  inherited    \* history: whether the source was started from a cached token of
               \* another refresh token than the one configured

tokenVars == <<configured, revoked, file, token, source, inherited>>
fileVars == <<stored, sent, named, publishing, public, refused, lost>>
storageVars == <<tokenVars, fileVars>>

\* left: 2 more than five minutes, 1 less than that, 0 expired.
Tokens == [cred : Creds, left : 0..2]
None == [cred |-> NoFile, left |-> 0]
Torn == [cred |-> NoFile, left |-> 1]
AllFiles == Uploads \X (1..MaxFiles)

StorageInit ==
  /\ configured \in Creds /\ revoked = {} /\ file = None
  /\ token = None /\ source = None /\ inherited = FALSE
  /\ stored = {} /\ sent = [u \in Uploads |-> 0] /\ named = {}
  /\ publishing = {} /\ public = {} /\ refused = {} /\ lost = {}

-----------------------------------------------------------------------------
(***************************************************************************)
(* The token.                                                              *)
(***************************************************************************)
Older(t) == IF t.cred = NoFile \/ t.left = 0 THEN t ELSE [t EXCEPT !.left = @ - 1]

\* Time passes for every copy of an access token.
Tick ==
  /\ file' = Older(file) /\ token' = Older(token) /\ source' = Older(source)
  /\ UNCHANGED <<configured, revoked, inherited, fileVars>>

Revoke(c) ==
  /\ revoked' = revoked \cup {c}
  /\ UNCHANGED <<configured, file, token, source, inherited, fileVars>>

\* The process begins, with any configuration; it remembers nothing.
Configure ==
  /\ configured' \in Creds
  /\ token' = None /\ source' = None /\ inherited' = FALSE
  /\ UNCHANGED <<revoked, file, fileVars>>

\* NewTokenManager: a cache file that cannot be read is the same as none.
loadCachedToken ==
  /\ token' = IF file.cred = NoFile THEN [cred |-> configured, left |-> 0] ELSE file
  /\ UNCHANGED <<configured, revoked, file, source, inherited, fileVars>>

Good(t) == t.left = 2

\* GetToken when the token is good for more than five minutes.
TakeToken ==
  /\ Good(token)
  /\ source' = token /\ inherited' = (token.cred # configured)
  /\ UNCHANGED <<configured, revoked, file, token, fileVars>>

\* A mistake to be noticed: the refresh token of the old token is preferred.
refreshCached == token.cred
refreshToken == configured

\* refreshAccessToken, with the refresh token of the configuration.
refreshAccessToken ==
  /\ ~Good(token) /\ refreshToken \notin revoked
  /\ token' = [cred |-> refreshToken, left |-> 2]
  /\ UNCHANGED <<configured, revoked, file, source, inherited, fileVars>>

\* Google refuses, or cannot be reached: NewDriveStorage fails.
RefreshFails ==
  /\ ~Good(token)
  /\ UNCHANGED storageVars

\* cacheToken: the file is emptied, then written; either may fail.
Truncate ==
  /\ file' = Torn
  /\ UNCHANGED <<configured, revoked, token, source, inherited, fileVars>>

TakeFresh(written) ==
  /\ file' = IF written THEN token ELSE file
  /\ source' = token
  /\ UNCHANGED <<configured, revoked, token, inherited, fileVars>>

-----------------------------------------------------------------------------
(***************************************************************************)
(* The uploads.                                                            *)
(***************************************************************************)
\* The token source of the HTTP client: it refreshes its own token, with the
\* refresh token that this one came with.
Usable == source.cred \notin revoked
Used == IF source.left = 0 THEN [source EXCEPT !.left = 2] ELSE source

\* A mistake to be noticed: one goroutine is remembered, the last one.
PublishLast(f) == publishing' = {f}
Publish(f) == publishing' = publishing \cup {f}

\* uploadWithMetadata for the next file: it is stored, and its permission is
\* left to a goroutine.
Store(u) ==
  LET f == <<u, sent[u] + 1>>
  IN /\ sent[u] < MaxFiles /\ Usable
     /\ source' = Used
     /\ stored' = stored \cup {f} /\ sent' = [sent EXCEPT ![u] = @ + 1]
     /\ Publish(f)
     /\ UNCHANGED <<configured, revoked, file, token, inherited, named, public, refused, lost>>

\* UploadMultipleFiles answers when all its files, one or more, are stored.
Answer(u) ==
  /\ sent[u] > 0
  /\ named' = named \cup {f \in AllFiles : f[1] = u /\ f[2] <= sent[u]}
  /\ UNCHANGED <<tokenVars, stored, sent, publishing, public, refused, lost>>

\* A file is too large, or Drive or Google refuses: the files stored before stay.
Fail(u) ==
  /\ sent[u] < MaxFiles
  /\ UNCHANGED storageVars

\* The goroutine of a file: what Drive does not grant is only logged.
SetPermission(f) ==
  /\ f \in publishing
  /\ publishing' = publishing \ {f}
  /\ \/ f \in stored /\ Usable /\ source' = Used /\ public' = public \cup {f} /\ refused' = refused
     \/ refused' = refused \cup {f} /\ UNCHANGED <<source, public>>
  /\ UNCHANGED <<configured, revoked, file, token, inherited, stored, sent, named, lost>>

\* DeleteFile, for a file that a client knows.
Delete(f) ==
  /\ f \in stored \cap named /\ Usable
  /\ stored' = stored \ {f} /\ public' = public \ {f}
  /\ source' = Used
  /\ UNCHANGED <<configured, revoked, file, token, inherited, sent, named, publishing, refused, lost>>

\* The process ends, and its goroutines with it.
Vanish ==
  /\ publishing' = {} /\ lost' = lost \cup publishing
  /\ token' = None /\ source' = None /\ inherited' = FALSE
  /\ UNCHANGED <<configured, revoked, file, stored, sent, named, public, refused>>

-----------------------------------------------------------------------------
(***************************************************************************)
(* Properties.                                                             *)
(***************************************************************************)
\* The types of the variables.
StorageTypeOK ==
  /\ configured \in Creds /\ revoked \subseteq Creds
  /\ file \in Tokens \cup {None, Torn}
  /\ token \in Tokens \cup {None} /\ source \in Tokens \cup {None} /\ inherited \in BOOLEAN
  /\ sent \in [Uploads -> 0..MaxFiles]
  /\ stored \cup named \cup publishing \cup public \cup refused \cup lost \subseteq AllFiles

\* Files are uploaded for the refresh token of the configuration, except by a
\* process that found a cached token of another one, still good, at its start.
ActsForTheConfigured == source # None => source.cred = configured \/ inherited

\* A file whose address was answered can be read by everybody, or soon; or Drive
\* refused its permission, or the process ended between the answer and the
\* permission, or somebody has deleted it.  What no answer names was left behind.
PrivateOnlyByFaultOrExit ==
  \A f \in named \cap stored : f \in public \cup publishing \cup refused \cup lost
=============================================================================
