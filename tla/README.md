# Formal models of jira-board-tracker

TLA+ specifications of the parts of this service whose correctness depends on
the order in which things happen, checked with TLC on small instances, and
theorems about them proved with TLAPS for every instance. The models are
translated from the Go code, and from the JavaScript that it serves;
`PROJECT.json` gives, for each definition, the lines it stands for.

How to run, from this directory:

    tlc -workers 2 -config token_redis.cfg MCTokenRefinement
    tlapm TokenLifecycle_proofs.tla

## 1. The system

The service is a Go program (Fiber, GORM, go-redis, gRPC) built on a
boilerplate. Two things live in it: a dashboard over Jira, and the
authentication, permission, CRUD, storage and migration machinery of the
boilerplate.

| component | state it keeps | operations | hard behaviour |
|---|---|---|---|
| tokens and sessions (`internal/domain/auth`, `delivery/http/middleware/auth.go`) | tables `user_tokens`, `user_sessions`; Redis keys `token:`, `session:`, `blacklist:` | Login, RefreshToken, Authenticate, Logout, LogoutAll | three stores changed by separate statements, no transaction, errors partly swallowed, requests interleave |
| account lockout (`user_validator.go`) | `failed_login_attempts`, `locked_until` of a user | ValidateUserForLogin | decisions on a copy of the row, slow bcrypt between read and write, a lock that expires |
| permissions (`permission_service.go`) | tables of roles and permissions; Redis key `permission:` | HasPermission, CacheAllUserPermissions, InvalidateUserPermissions | cache filled from the cache, three queries without a transaction |
| board summaries (`pkg/jira/board.go`) | none; Jira is the state | GetBoards, GetBoardSummary, GetSprintStats, GetBoardStoryPoints | goroutines sharing one result, offset paging over a list that changes, swallowed errors |
| dashboard views (`handler/jira.go`) | the page in the browser | the list of boards, the panel of a summary, the pages of issues | answers that come late, filters and pages kept together by hand |
| Google session of the dashboard (`handler/jira.go`) | two cookies | login, callback, middleware, logout | a state cookie shared by tabs, repeated and overlapping callbacks |
| Claude runner dialog and proxy (`handler/jira.go`) | variables and DOM of a page, executions of another service | openClaudeModal, submitClaudeRunner, ListExecutions, ExecuteClaudeRunner, the streams of logs | answers that arrive for a dialog opened for another ticket since, lost answers, several tabs, streams that overtake answers |
| bars (`domain/bar`) | table `bars` with soft deletion | Create, Update, Delete, BulkCreate | check-then-act, whole rows written back |
| idempotency keys (`middleware/idempotency.go`) | Redis keys `idem:` | the middleware of POST /bars | check-then-act, a lost answer, Redis off |
| migrations (`pkg/migration`, `cmd/migrate`) | table `migrations`, the schema | Up, Down, Status | two runs at once, late and half files, equal ids, a crash between two migrations, comments and quoted texts over several lines |
| start and shutdown (`cmd/server`) | listeners, connections | start, gracefulShutdown | order of closing against a time limit |
| Google Drive storage and token manager (`pkg/filesystem`) | a token, a cache file, files on Drive | GetToken, uploads, deletion | a file half written, a token of an old configuration, permissions asked for after the answer |
| menus, registration, API keys, rate limiter, pagination, other storages, plumbing | little or none | | see section 5 |

How they interact: HTTP and gRPC handlers call use cases; the authentication
middleware runs before every protected handler and reads Redis (or PostgreSQL
when Redis is off); Login and RefreshToken go through the lockout, mint and
store tokens, and refresh the permission cache; logouts withdraw tokens. The
dashboard calls Jira, Google and the runner; its pages run in the browser and
call the handlers. All sharing between requests is through PostgreSQL, Redis,
Jira, Drive and cookies; goroutines share memory only inside one request (board
summaries, the list of boards) and in the token source of the Drive client. The
migrations are a command of their own, which each deployment may run.

One fact about this commit matters for reading the models: in
`internal/bootstrap/app.go:49` the call of `initializeDatabase` is commented
out, so `app.DB` is nil and the operations on tables cannot run as wired. The
models of tokens, lockout, permissions and bars describe these operations with a
database connected through that function, as everything else in the repository
assumes; the model of the shutdown has both.

## 2. The modules

### Tokens: `TokenLifecycle`, `RevocableTokens`, `TokenRefinement`

`TokenLifecycle` is the core of the project. Each request in progress is a slot
in `Reqs` with a program counter `pc` and locals `loc`; a step is one SQL
statement or Redis command of the handler, so any two requests interleave
wherever the code lets them. The variables are the stores: `rows`
(user_tokens), `session` (user_sessions), `cached`, `sessCache` and `blacklist`
(Redis), and `issued` and `expired` for what JWTs were signed and ran out.
Token 0 of a session is its refresh token. `Usable` is what the middleware takes
for valid: with Redis on it asks Redis alone, with Redis off `user_tokens`
alone. The actions follow the handlers:

| actions | code |
|---|---|
| BeginLogin, CreateSession, StoreAccess, CacheAccess, StoreRefresh, CacheRefresh, CacheSession | `usecase.go` Login, `token_storage.go` |
| BeginRequest, CheckBlacklist, LookupToken, FinishUse | `middleware/auth.go` validateAuthHeader, verifyTokenValidity |
| MintAccess, RejectRefresh | `usecase.go` RefreshToken |
| CollectAccess ... UncacheRefresh | `token_service.go` DeleteTokens, step by step; each failure is skipped as in the code |
| ListTokens ... ScanSessions | `usecase.go` LogoutAll and blacklistAllUserTokens |
| Respond, ReturnError, Expire | answers, errors that end a handler, and time |

`RedisFaults` and `DBFaults` name the operations in which Redis commands and
SQL statements may fail. What a failing command leaves behind is modelled: a
pipeline may be half applied, SCAN may stop anywhere and returns only the keys
that were there all along, an error of a swallowed step is skipped, any other
ends the request with what was written so far.

`RevocableTokens` says in thirty lines what the machinery promises: a token
goes live at most once, stays dead once withdrawn, and a request is granted
only if its token was live on arrival. `TokenRefinement` maps the stores and
program counters onto it and states the implementation as
`ImplementsRevocableTokens`.

### Account lockout: `AccountLockout`

The row of one user and any number of logins against it. A login reads the row
once (`Fetch`) and decides on that copy; the clock is read twice
(`CheckExpiredLock`, `CheckLock`), as `HasExpiredLock` and `IsLocked` do.
`guesses` and `burst` are history variables.

### Permissions: `PermissionCache`

The key `permission:<user>` of one user, the three tables behind it, logins and
refreshes (`Logins`) that drop and fill the key, and checks (`Checks`) that
read. What a table holds is abstracted to a version number, a merged set to the
versions it was built from: that is exactly what questions of staleness need.
`Change` is an administrator working on the database; nothing in the code
invalidates the key then, although the comments ask for it.

### Board summaries: `BoardSummary`, `SprintPages`

One request that pages through a list of Jira: GetBoardSummary with its
goroutines (`issues`, `stats`, and under it `total` and `done`) and their
WaitGroups, GetBoardStoryPoints, which adds up the points of the same issues, or
GetBoards. The list changes while its pages are fetched. Page by page, `fetched`
holds `startAt` and the collected issues of the code. Any request may fail; which
failure is dropped and which is returned follows the code.

`SprintPages` adds what the server renders from a summary at once, so that the
pages are operators on it: the rows and their subtasks, the list of remaining
work, the percentage in the head, the bare panel. Its property says which
failures a reader of these pages cannot see.

### Bars and idempotency keys: `BarStore`

The table `bars`, every request that changes it, and the idempotency middleware
around the public create route. A row is its code and whether it is deleted; a
step is one SQL statement or Redis command. `Find`, `CheckOther`, `Load` and
`Save` are the four statements of an update (a deletion skips the second);
`Save` writes back every column, so an update that loaded the row before a
deletion undoes it. `HoldersOf` is the UNIQUE index, which sees deleted rows,
`ExistsByCode` the check, which does not. `PostWithKey`, `Replay`, `PassOn`,
`LookupFails` and `Finish` are the middleware, `Expire` the time to live of its
entries. Any statement can fail, a committed one can lose its answer, and the
server can die between any two steps. The histories `created`, `answered`,
`faulty` and `touched` are read by the properties alone.

What the model shows of the guarantees, by what must be assumed: a retry creates
nothing if its client had a 2xx, Redis is enabled and has kept the entry. It may
create a second row when the first request is still at work or its answer was
not remembered, and the first row has been given another code in the meantime;
with Redis disabled the middleware passes every request on. `CreateSomething` and
requests that are rejected before they reach the table are left out.

### The Claude dialog: `ClaudeModal`

One page of remaining tickets with its single dialog, the fetches it waits for,
and the runner with its executions. `dialog` holds the ticket that each part of
the dialog belongs to (`key` the title, `detail` the repository, `fields` the
description in the DOM), which is all that matters about their contents.
`Open`, `List`, `Show` and `LoadFails` are openClaudeModal and the handlers it
calls, `Submit`, `Accept`, `Reject`, `Navigate` and `SubmitFails` are
submitClaudeRunner and ExecuteClaudeRunner, where `Accept` may lose its answer.
Other tabs and users appear as `Elsewhere`. While the dialog is closed only
`fields` matters, because opening sets the rest; `Settled` says so. `knows` is a
history: what this opening was told, and whether an answer of an earlier one has
come (`late`). All that is promised holds until then, and only until then.

### The list of boards: `BoardsPage`

The page with a card per board. `filters`, `pager`, `filtered` and `visible` are
the variables of its script and the cards on display; `applyFilters`,
`changePageSize` and `goPage` are its handlers, `Offered` the buttons that
renderPagination makes clickable. The panel of a summary is opened by a click on
a card, and its fetches (`pending`) outlive it: closing does not cancel them.
`late` is a history: an answer to an earlier opening has come since the last one.
The texts that one can search for are abstracted to the boards they match.

### The dashboard: `GoogleSession`, `ExecutionPages`, `Dashboard`

`GoogleSession` is the sign-in with Google in the tabs of one browser, which
share the state cookie and the session cookie; a tab carries the state it was
sent away with, may come back more than once, late, or not at all, and its URL
may be loaded in another tab. The callback is two actions: `GoogleCallback`
compares the state when the request arrives, `CallbackReturns` is the answer,
after the two calls to Google, and only this changes the cookies of the browser.
In between the tab is `Waiting` and any other tab may act. Google itself is
external: it may grant or refuse either load of one URL. The histories `crossed`
and `overlapped` name the two ways in which requests that overlap defeat the
comparison.
`ExecutionPages` is the page of one execution, whose data come by a request and
whose status comes by an EventSource, and the page of a ticket, which lists
executions and streams the selected one. `wire` holds what a stream has sent and
the browser has not yet processed; the runner is external. `Dashboard` composes
them: every request and every connection passes the SessionMiddleware
(`GetExecutionData(session)`, `ListExecutions(session)`, `Connect(e, session)`), while an open stream outlives the
session. A status request that is redirected to the login page is an answer that
is not JSON, as in the browser.

### Migrations: `Migrator`, `SqlStatements`

`Migrator` is any number of runs of the command on one database. `LoadUp`,
`LoadDown`, `Apply` and `Rollback` are the reads and transactions of
the code; between any two of them another run may act, a run may die (`Stop`) or a
statement may fail. Files appear in the directory at any time, finished, both
halves of a migration at once or one before the other (`ups`, `downs`; an empty
file is as good as none); they can share an id, refer to other tables and add
columns to them. A migration without an up file is loaded and skipped (`LoadUp`),
one without a down file ends a Down. The histories `since`, `undone`, `skipped`
and `overtaken` say what other runs did since a read, and what a run passed over.

`SqlStatements` is the loop of splitSQLStatements over kinds of lines, a step for
each line: what it opens, closes, ends or contains. Lines are whole (SQL or a
comment, nothing else), mixed (SQL and a comment) or quoting (SQL in which a text
in `$$` or in quotes begins or ends that goes over several lines). `cut` holds the
variables of the loop. What the function returns is compared at every line with
`Meaning`, which is SQL's: a semicolon ends a statement unless it is in a comment
or in a quoted text. `StatementsAreWhole` says that they agree for `Plain` bodies:
no mixed lines, and no line of a quoted text that ends in a semicolon. All
migrations of this repository are plain. For other bodies they do not agree: that
is the subject of two findings, and TLC shows it when a condition of `Plain` is
left out.

### The server: `ServerLifecycle`, `DriveStorage`, `Server`

`ServerLifecycle` is main: the phases of its start, the two listeners, the signal
or failing listener, and the order of gracefulShutdown with its ten seconds
(`late`), against HTTP requests and gRPC calls in progress; `db` may never have
been set, which is the state of this commit. `DriveStorage` is the token that
NewTokenManager reads from the cache file or fetches, the writing of that file in
two steps, the token source that serves uploads and refreshes itself, uploads of
one or several files, and the goroutines that make files public after the answer.
A token is the refresh token it comes from and a lifetime in three steps, because
the code asks only whether it has expired and whether it has five minutes left.
`Server` composes them: the storage is made during the start, an upload is an HTTP
request, goroutines die with the process, and the process can be killed
anywhere.

## 3. The runs

Every cfg is checked exhaustively. Each module also states its type invariant
(`TypeOK`, or `...TypeOK` where modules are composed); the inductive invariants of
section 4 contain it, or the types of the variables that they speak of.

| run | question | properties |
|---|---|---|
| token_redis | Redis on, two concurrent requests out of all operations: one session, storage failures everywhere except in logouts (a failing statement in LogoutAll included); and two users, without failures | LogoutAllIsFinal, RevokedIsErased, ImplementsRevocableTokens, NoCollateral |
| token_redis_faults | Redis on, every Redis command may fail in every operation, tokens expire | AcceptedWasUsable, NoResurrection |
| token_db | Redis off, two users with a session each | LogoutIsFinal |
| lockout | two logins at once, expiring locks, failing statements | GuessesAreBounded, EveryGuessCounts |
| perms | two logins, one check, changing tables, failures | CacheNoOlderThanQuiet, AnswersNoOlderThanQuiet |
| board | one request out of three kinds, two edits of the list, any failure | NobodyWritesAfterReturn, UndisturbedSummaryIsExact, PagesDriftOnlyByEdits, EmptyPageErrsOnlyByFaults, EveryRequestEnds |
| boards_page | four boards, all filters, page sizes and pages, a panel opened twice | ListShowsItsFilters, EverythingCanBeReached, PanelIsMixedOnlyByLateAnswer, PanelStopsWaiting |
| modal | two tickets, two loads and two submissions in flight, two executions | MixedOnlyByLateAnswer, OneSubmissionPerOpening, DuplicatesAreExplained |
| dashboard | two tabs that sign in and out; the pages of two executions | OnlyTheSelectedStreams, SignInCountsOnce, RefusalIsExplained, BadgeGoesBackOnlyWhenTheyCross, StreamsEnd |
| bars | two requests out of all operations, two rows, two codes, one key, failures and crashes, Redis on or off | ReplayIsTrue, RetryCreatesNothing, ConflictsAreExplained, ReturnNeedsOverlap |
| migrate | two runs, four files, two of which come in halves, every body of up to four lines | StatusIsTrue, StatementsAreWhole, AppliesInOrder, RollsBackTheLast |
| server | two configurations, an upload, a check of the health and a gRPC call, with crashes, restarts and the shutdown | ActsForTheConfigured, PrivateOnlyByFaultOrExit, CutOnlyLateOrByPanic, ShutdownEnds |

All of them hold. Many are of the form "this happens only if": the code does not
keep the simple promise, and the property says under which circumstances it is
broken, so that it fails if the code breaks it in any other way. Most of these
circumstances are history variables.

The operators that comments call mistakes to be noticed are used by no
specification. Each is a plausible bug in the definition that follows it; put in
its place, TLC finds the property violated that `mutants` in `PROJECT.json`
names, which shows that the property depends on that piece of code.

### What the models show to be different from what the repository says

Where the code departs from its own comments, constants, documents or pages, the
list `findings` in `PROJECT.json` has the lines. The weightiest:

* LogoutAll can leave a token that is gone from `user_tokens` and still valid in
  Redis, if a refresh stores it between the listing and the deletion, and
  failures of its sweep of Redis are not as harmless as its comments say: a
  token of before the logout can stay valid. That is
  why `LogoutAllIsFinal` speaks of tokens held when the request came in and
  needs a sweep that does not fail.
* An account takes more wrong passwords than MaxFailedLoginAttempts before it is
  locked: one more even without concurrency, two more per concurrent login. The
  bound of `GuessesAreBounded` is reached. A delayed login can wipe a lock that
  another one has just set (ResetExpiredLock).
* Overlapping logins can cache permissions that were changed before the later of
  them began; `CacheNoOlderThanQuiet` is what remains true.
* A failing page of issues makes the dashboard say "Everything is done!".
* The panel of a summary and the Claude dialog show, and the dialog submits, one
  ticket's data under the title of another one when answers come late.
* Down and Up beside each other lose columns that are recorded as applied; two
  files with one id are never both applied; a migration whose up file is missing
  or empty is skipped, and applied after its successors when the file comes.
* splitSQLStatements drops SQL that shares a line with `*/`, and cuts a quoted
  text at a line that ends in a semicolon.
* The answer to a callback of Google clears the state cookie whatever it holds by
  then, so a sign-in that another tab begins while a callback is waiting is
  refused; and two loads of one callback URL that overlap both pass the
  comparison of the state, so that only Google's refusal of a code that was used
  stands between them and two sign-ins. `RefusalIsExplained` and
  `SignInCountsOnce` have these two exceptions and no others.
* The shutdown closes the database before the gRPC server is stopped; without
  `app.DB`, as wired, it panics there.
* The Drive client keeps acting for the old refresh token after the configuration
  was changed, if the cached token was still good at the start.

`LogoutIsFinal` is checked only with Redis off, where the middleware asks the
table; for Redis on it is proved, as long as the commands of Logout do not fail:
Logout prints and drops their errors. It speaks of the two tokens that Logout
revokes. The other access tokens of the session stay, as the comment in
`usecase.go:182` says.

### Bounds and why they are enough

* Two request slots in the token runs: every property relates one token to at
  most two requests, and a slot is reused, so sequences of any length in the
  reachable set are covered. `MaxAccess` = 2 gives a session an old and a new
  access token and its refresh token; with one, expiry is added.
* `token_redis` checks two instances in one run, chosen by `focus`: two access
  tokens in one session, so that a Logout could hit the one that it is not about,
  and two users with one each, so that an operation could hit the wrong user; there
  the LogoutAll of one user sweeps the keys of both. `token_db` has two users with
  two access tokens each; `token_redis_faults` has one session, because its cost is
  in the failures. NoCollateral is not checked with Redis off or with failing
  logouts, but proved for both.
* `lockout`: `MaxAttempts` = 2, two logins, `MaxClock` = 5 and `LockDuration` = 2
  give two full locks and their expiry; `MaxCount` caps the counter in the row
  (the code's has no cap) far above the point where locks begin; `MaxFaults` = 2
  statements may fail. With one less in the bound TLC finds a violation.
* `perms`: one change per table is enough to tell old from new, two logins to
  hand an old set on.
* `board`: three entries in pages of two give an empty list, a short page, a
  full page and two pages; two edits, both before, on or behind the boundary.
* `boards_page`: a board of another type, a sprint that runs, one that ended an
  hour ago and one that ended a day ago (the code rounds days up); pages of one
  and of three of the four cards; no issues, one page and several pages of
  issues in the panel. Every property relates an opening to one earlier one,
  hence `MaxOpenings` = 2.
* `bars`: a property relates a row to two requests at most, and slots are
  reused; two codes are needed to rename a row, two rows to run into the index. A
  row is never removed, so `Ids` bounds the insertions of a behaviour: two rows
  let the second be inserted after the first was renamed or deleted. Three rows
  and three codes (5.8 million states) hold as well.
* `modal`: every property relates an opening to one earlier load or submission,
  hence two of each; two tickets, of which one has a description to submit; an
  execution that was there and one that is queued. `ExecIds` bounds the executions
  that are ever queued.
* `migrate`: a table, columns added to it, a table that refers to it, and one
  that shares an id with that: every way in which the code lets one file disturb
  another. The columns and the last table come in halves (`InHalves`), one that
  others come after and one that has a twin. Two runs: the properties relate a
  run to what others did since its read, whoever they are. Bodies of four lines
  contain an opened comment or quoted text, SQL inside, its end and SQL behind it;
  of five lines StatementsAreWhole holds as well.
* `dashboard` and `server` each check two instances in one run, chosen by
  `focus`, because the product of their halves would be large and adds nothing:
  sign-ins do not depend on which page shows which execution, only on whether
  there is a session. In "sessions" two tabs share `States` = 2 sign-ins, enough
  for one to be begun while the callback of the other waits, and for one URL to
  be loaded in both; in
  "pages" the session begins once and ends, two executions are selected in
  turn, and at most `MaxWire` = 2 events are on their way. In "credentials" two
  refresh tokens are configured and revoked while one file is uploaded; in
  "service" one of them stays, and a request that uploads two files, a check of
  the health and a gRPC call meet the shutdown.
* The symmetry of slots is used in runs without liveness.

### Fairness

* `board`: weak fairness of each goroutine: the Go scheduler runs every runnable
  goroutine, and a request to Jira ends because the client has a timeout of ten
  seconds (`pkg/jira/client.go:160`). None of the people who edit the list.
* `boards_page`: the load handler runs, and every fetch is answered or fails; a
  fetch to the server ends because each of its requests to Jira does. None of
  the user: `PanelStopsWaiting` speaks of a panel that is left open.
* `dashboard`: an EventSource connects or fails, and what the runner has to tell
  is sent and delivered while the connection stands. None of the executions:
  `StreamsEnd` speaks of one that has ended.
* `server`: the timer fires, main goes on, and the handlers of gRPC calls return;
  GracefulStop waits for them without a limit. That HTTP requests end is not
  assumed: the ten seconds are there for those that do not.

The other modules state safety only; a handler whose database hangs may hang in
the code as well. A run stops checking for deadlock where the system really may
stop: a session has finitely many tokens to mint, the clock of the lockout stands
still at its bound, and a summary that was returned does nothing more.

## 4. The proofs

TLAPS proves every safety and action property of the runs, and the implementation
of RevocableTokens, for every value of the constants (any number of requests,
users, sessions, tokens, logins, checks, rows, tickets, runs, files, lines,
issues, boards, tabs, executions and calls). Beyond the assumptions named below,
the theorems rest only on the ASSUME of their module, which TLC evaluates in
each run.

| theorem | says | assumes |
|---|---|---|
| TypeCorrect (TokenLifecycle_proofs) | `Spec => []TypeOK` | |
| DeadTokensStayDead | `Spec => NoResurrection` | any failures, Redis on or off |
| AuthenticationIsSound | `Spec => []AcceptedWasUsable` | the same |
| LogoutsHitTheirTargets | `Spec => NoCollateral` | the same |
| Implementation | `Spec => ImplementsRevocableTokens` | the same |
| LogoutAllHolds | `Spec => []LogoutAllIsFinal` | `SweepsComplete`: with Redis on, the sweep in LogoutAll does not fail |
| RevokedTokensAreErased | `Spec => []RevokedIsErased` | `StatementsComplete`: the statements of Logout do not fail |
| LogoutHolds | `Spec => []LogoutIsFinal` | the same, and `CommandsComplete`: with Redis on, its commands do not fail |
| TypeCorrect, CountsEveryGuess, BoundsGuesses (AccountLockout_proofs) | `Spec => []` of TypeOK, EveryGuessCounts, GuessesAreBounded | finitely many logins, a positive limit |
| StalenessNeedsOverlap, ChecksAreRecent (PermissionCache_proofs) | `Spec => []CacheNoOlderThanQuiet`, `Spec => []AnswersNoOlderThanQuiet` | |
| BarsAreSafe (BarStore_proofs) | `Spec => [](TypeOK /\ CodesAreUnique /\ ReplayIsTrue)` | finitely many rows, one body per key |
| RetriesCreateNothing, DeletedRowsReturnByOverlap, ConflictsNeedOverlap | `Spec =>` RetryCreatesNothing, ReturnNeedsOverlap, ConflictsAreExplained | the same |
| ReturnIsLast (SprintPages_proofs) | `SummarySpec => []NobodyWritesAfterReturn` | finitely many issues, pages of at least one |
| DriftIsExplained, UndisturbedIsExact, EmptyPagesAreExplained | `SummarySpec => []` of PagesDriftOnlyByEdits, UndisturbedSummaryIsExact, EmptyPageErrsOnlyByFaults | the same |
| SubmissionsAreSound (SprintPages_proofs) | `Spec => []` of the four invariants of ClaudeModal | |
| OneSubmission | `Spec => []OneSubmissionPerOpening` | |
| DuplicatesNeedIgnorance | `Spec => DuplicatesAreExplained` | an execution that has ended stays ended |
| StatusTrue, InOrder, LastFirst (Migrator_proofs) | `Spec =>` StatusIsTrue, AppliesInOrder, RollsBackTheLast | a file uses only tables of files with smaller ids |
| FilesAreCutWhole | `SplitSpec => []StatementsAreWhole`, which speaks of plain bodies | |
| PanelIsClean, ListIsTrue, EverythingIsReachable (Dashboard_proofs) | `Spec => []` of PanelIsMixedOnlyByLateAnswer, ListShowsItsFilters, EverythingCanBeReached | finitely many boards; one can clear the search |
| StatesCountOnce, RefusalsAreExplained | `DashboardSpec =>` SignInCountsOnce, RefusalIsExplained, with their exceptions | |
| OneStreamAtATime, BadgeRises | `DashboardSpec =>` OnlyTheSelectedStreams, BadgeGoesBackOnlyWhenTheyCross | |
| UploadsAreForTheConfigured, NamedIsPublic, CutsOnlyLateOrByPanic (Server_proofs) | `Spec =>` ActsForTheConfigured, PrivateOnlyByFaultOrExit, CutOnlyLateOrByPanic | uploads are requests |

The three assumptions about failing logouts are necessary: without any one of
them TLC finds a token that stays where it should not. RevokedTokensAreErased is
about the table and the session alone; that a withdrawn token is not valid, in the
cache either, is what LogoutHolds says of the two tokens of a Logout and
LogoutAllHolds of all that were held. Two modules of proofs are
about two components each: `SprintPages_proofs` about the pages of a board and the
dialog on one of them, `Dashboard_proofs` about the list of boards and what the
dashboard does for a session. Their components share no variable.

The argument for the tokens: `TypeOK` is not inductive, because what a step
writes depends on which operation is at which step. `Control` adds that every
request is at a step of its operation with the locals this step reads
(`WellFormed`), and that tokens still being stored belong to one request and no
client (`Fresh`). That alone gives DeadTokensStayDead: only the storing steps
make a token usable, and what they store no client holds. `Vetted` follows a
token that was dead on arrival through the two look-ups of the middleware;
`Swept` says what LogoutAll has already taken out of the store that the
middleware reads, step by step, and uses that no step puts a held token back.
`Erased` and `Uncached` say the same of Logout, for the tables and for Redis;
they need `Aimed`: a logout is about tokens that clients hold, and has found no
others, so that NoCollateral follows too.

The implementation goes step by step. `Stored` says that the stores hold only
what was minted, and that a token still being stored is not yet in the store that
the middleware reads, so its abstract status is "new". A step that stores the
last of them is the abstract Issue, one that takes a token out of that store, or
bars it in the blacklist, is a Withdraw, the begin of a request is an Arrive, its
way past the middleware a Grant, its end a Close; every other step leaves the
status of every token as it was.

For the lockout, the bound itself is not inductive. Once the row has counted
MaxAttempts failures, a login has at most two wrong guesses before a lock: one
while it is among the `Stale`, which know less than the limit, and one while it
is among the `Open`, which are not yet past the comparison that makes them lock.
`Credit` is the number of both, and `BurstIsPaid` says that guesses and credit
together stay within the bound: a guess takes its login out of one of the two
sets, a failed statement may put one back and is a fault more. At the step that
reaches the limit, the invariant is founded on `EveryGuessCounts`: who is about
to count a guess is no longer among the `Stale`. The lemmas `SubsetCounts` and
`OneLogin` carry the arithmetic of finite sets.

For the permissions, `Safe` says that whatever a request has read so far is no
older than a floor: `quiet` for a login, the value of `quiet` at its start for a
check.

For the bars, `Safe` joins four facts. `Carries`: a request at a step holds what
this step reads, so a status that waits to be remembered is a success only if
rows were inserted under its key. `Remembered`: a key that was answered is still
in the cache, unless it is faulty or there is no Redis. `OwedMetFault`: hence a
request whose key was answered gets past the look-up only when the key is
faulty. `SavesAreWarned`: a request about to save over a deleted row has seen
that row written since it arrived, because it found the row live. For the
conflicts, `Cleared` follows the codes that a request has checked: every other
row that holds one is deleted or was written since the request began.

For the summary, `Joined` ties the program counters of the goroutines to their
WaitGroups, hence nobody is left when main returns. `PagesDrift` is the hard one.
While pages come, the issues that are yet to come are those beyond `startAt` in the
list as it is now. An issue taken out before that boundary moves one issue across
it, which is missed (`Missed`); one put in moves one back, which is listed again,
so the pages have no more entries than `Fresh` issues and additions; `Reopened`
counts the entries whose tick is out of date. The lemmas about a sequence with
one element more or less say what an edit does to those beyond a position; that
at most one element crosses is the whole argument. `Counted` and `Answers` say of
the two totals when they are there and what Jira had. The pages of `SprintPages`
are operators on the summary that is returned, and follow.

For the dialog, `Undisturbed` orders what an opening waits for until a late answer
comes: its load, then the user, then one submission, never two of them; the
button is enabled only in the middle, when the dialog is `Ready`. `LoadFits` says
that the one load of an opening is for its ticket, `Truthful` that what was sent
is what a ready dialog held. `OneSubmissionPerOpening` is not inductive alone: a
click is possible only in the middle, where nothing is out.

For the migrations, `Safe` ties the table and the schema by the two exceptions
(`AppliedHasRow`, `RowHasApplied`) and says what a run's reads are still worth
(`ReadsAreOld`): an id that it has read is recorded unless it was rolled back
since, and a row that it has not read was written since; a file that it has
loaded and need not apply is recorded, was rolled back or is one that it skipped.

For the bodies of migrations, `CutSafe` gives the meaning of the variables of the
loop: `inBlock` is whether the next line is commented out, `current` the lines of
SQL that no semicolon separates from the next line, `statements` the groups of the
other lines, none empty and each before the next. The lemmas `EarlierLines` and
`NextLine` say that a line that is appended changes nothing about those before it.
Because the model takes the loop step by step, no induction over the text is
needed.

For the list of boards, `ListIsPaged` says that the page number exists for what
matches and the cards displayed are its slice, `PanelIsPaged` the same of the
issues in the panel. Cutting a finite set of numbers into pages leaves none out:
every position is taken (`PositionTaken`) and on a page (`OnSomePage`). Every page is
reached (`PagesAreConnected`) because n clicks reach all pages within a distance of
n, by the least n for which they would not.

For the panel, `Safe` says of the last opening, open or closed: its fetch is the
only one with its number and is for the board in the title; and, until a late
answer, it waits with nothing shown or has its own answer.

For the server, `Safe` adds what main has established at each phase: before it
serves there are no requests and no Drive client, what it caches is a token of
its own configuration, past the drain no request runs or the time is over; and
that every stored file is public, about to be, refused or lost, whether an answer
names it or not.

For the sign-in, `CookieIsFresh` follows the state through the gap between
comparison and answer: the state in the cookie was never accepted; a tab that is
waiting has a state that was handed out and not accepted, unless it was overlapped;
and until the newest state is accepted, expires or is crossed, it is in the cookie
and every tab that is waiting has that state and no other, so that the answer that
clears the cookie is the one that accepts it. For
the pages of executions, `PagesSafe` orders what a page may know of an execution: a
snapshot (the data that were fetched) is no further than the execution, a stream
rises and ends no further, and a badge that came from the list or the stream is
not ahead of what is still on the wire. So it goes back only from the answer to
the request for data to the stream.

Only model-checked: liveness (EveryRequestEnds, PanelStopsWaiting, StreamsEnd,
ShutdownEnds), because TLAPS does not prove properties under fairness; and that the
assumption of a run's constants holds for the values it chooses. The theorems
about SqlStatements are about plain bodies: what the code does with SQL and a
comment on one line, and with semicolons in quoted texts, are findings, not
properties.

## 5. Not modelled

* Menus: BuildMenuTree and its filter are recursive functions of tables that no
  operation of this program changes; an operator would restate them.
* Registration: one look-up, then two inserts in one transaction under a unique
  index. What holds of it is what PostgreSQL promises of transactions and
  indexes, which a model would have to assume.
* Authentication by API key, rate limiter, pagination: comparisons, the
  configuration of third-party code, and offsets of one query.
* Jira tickets and wiki markup: one request and a conversion of text.
* The application service of bars and the example domain Foo: nothing calls the
  first, and the repository of the second does nothing.
* Storage on a local disk or S3: single calls without state shared between
  requests.
* Plumbing: logging, clients, hashing, formatting, configuration, dependency
  injection.

Partly modelled, with what is missing, in the notes of `PROJECT.json`: tokens
(audit columns, device detection, the menus in the answer), permissions (the merge
is abstracted to versions), dashboard views (burndown numbers, themes, markup), the
proxy (the text of logs and prompts), gRPC (interceptors) and file storage (the
other drivers).
