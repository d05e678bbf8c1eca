-------------------------- MODULE Dashboard_proofs --------------------------
(***************************************************************************)
(* Proofs about the dashboard: signing in and the pages of executions      *)
(* (Dashboard), for any tabs, states and executions, and the list of       *)
(* boards (BoardsPage), for any boards, page sizes and number of openings. *)
(***************************************************************************)
EXTENDS BoardsPage, Dashboard, FiniteSetTheorems, WellFoundedInduction, TLAPS

-----------------------------------------------------------------------------
(***************************************************************************)
(* Signing in.                                                             *)
(***************************************************************************)
\* The state in the cookie was handed out and has not been accepted.  A tab that
\* waits for its callback has such a state, unless another load of the same URL
\* has been answered meanwhile.  And until the newest state is accepted, expires
\* or is crossed, it is in the cookie and what every waiting tab has.
CookieIsFresh ==
  /\ SessionTypeOK
  /\ stateCookie \in begun \cup {NoState} /\ stateCookie \notin accepted
  /\ \A t \in Waiting :
       state[t] \in begun /\ (state[t] \in accepted => t \in overlapped)
  /\ newest \notin {NoState} \cup accepted \cup expired \cup crossed =>
       newest = stateCookie /\ \A t \in Waiting : state[t] = newest

\* What a step does with the session, and whom it refuses.
CountsOnce ==
  session' /\ ~session => \E t \in Waiting : state[t] \notin accepted \/ t \in overlapped
Explained ==
  \A t \in Tabs : at'[t] = "refused" /\ <<at'[t], state'[t]>> # <<at[t], state[t]>> =>
    state'[t] # newest \/ state'[t] \in accepted \cup expired \cup crossed

\* One tab goes on to something else than waiting.
LEMMA TabLeaves ==
  ASSUME NEW t \in Tabs, NEW to \in {"login", "google", "page", "refused", "failed"},
         SessionTypeOK, at' = [at EXCEPT ![t] = to]
  PROVE  /\ at' \in [Tabs -> {"login", "google", "callback", "page", "refused", "failed"}]
         /\ Waiting' = Waiting \ {t}
         /\ at'[t] = to /\ \A u \in Tabs \ {t} : at'[u] = at[u]
BY SMT DEF SessionTypeOK, Waiting

\* A page is asked for, or the session is ended by hand.
LEMMA PageStep ==
  ASSUME CookieIsFresh, NEW t \in Tabs, SessionMiddleware(t) \/ GoogleLogout(t)
  PROVE  CookieIsFresh' /\ CountsOnce /\ Explained
<1> USE DEF cookies, signIns, answers
<1>1. PICK to \in {"login", "google", "page", "refused", "failed"} :
        at' = [at EXCEPT ![t] = to] /\ to # "refused"
  BY DEF SessionMiddleware, GoogleLogout
<1>2. /\ UNCHANGED <<stateCookie, state, begun, newest, expired, crossed, accepted>>
      /\ session' = session \/ session' = FALSE
      /\ overlapped' = overlapped \/ overlapped' = overlapped \ {t}
  BY DEF SessionMiddleware, GoogleLogout
<1>3. /\ at' \in [Tabs -> {"login", "google", "callback", "page", "refused", "failed"}]
      /\ Waiting' = Waiting \ {t}
      /\ at'[t] = to /\ \A u \in Tabs \ {t} : at'[u] = at[u]
  BY <1>1, TabLeaves DEF CookieIsFresh
<1>4. session' \in BOOLEAN /\ CountsOnce
  <2>1. CASE session' = session
    BY <2>1 DEF CountsOnce, CookieIsFresh, SessionTypeOK
  <2>2. CASE session' = FALSE
    BY <2>2 DEF CountsOnce
  <2> QED BY <1>2, <2>1, <2>2
<1>5. SessionTypeOK'
  BY <1>2, <1>3, <1>4 DEF SessionTypeOK, CookieIsFresh
<1>6. Explained
  BY <1>1, <1>2, <1>3 DEF Explained
<1> QED BY <1>2, <1>3, <1>4, <1>5, <1>6 DEF CookieIsFresh

\* A sign-in is begun.
LEMMA LoginStep ==
  ASSUME CookieIsFresh, NEW t \in Tabs, GoogleLogin(t)
  PROVE  CookieIsFresh' /\ CountsOnce /\ Explained
<1> USE DEF answers
<1>1. PICK s \in States \ begun :
        /\ stateCookie' = s /\ state' = [state EXCEPT ![t] = s]
        /\ begun' = begun \cup {s} /\ newest' = s
        /\ crossed' = IF Waiting = {} THEN crossed ELSE crossed \cup {s}
  BY DEF GoogleLogin
<1>2. at[t] = "login" /\ at' = [at EXCEPT ![t] = "google"] /\ UNCHANGED <<session, expired, accepted, overlapped>>
  BY DEF GoogleLogin
<1>3. /\ at' \in [Tabs -> {"login", "google", "callback", "page", "refused", "failed"}]
      /\ Waiting' = Waiting /\ t \notin Waiting
      /\ at'[t] = "google" /\ \A u \in Tabs \ {t} : at'[u] = at[u]
  BY <1>2, TabLeaves DEF CookieIsFresh, Waiting
<1>4. state' \in [Tabs -> States \cup {NoState}] /\ \A u \in Tabs \ {t} : state'[u] = state[u]
  BY <1>1, SMT DEF CookieIsFresh, SessionTypeOK
<1>5. SessionTypeOK'
  BY <1>1, <1>2, <1>3, <1>4 DEF SessionTypeOK, CookieIsFresh
<1>6. CountsOnce /\ Explained
  BY <1>2, <1>3, <1>4 DEF CountsOnce, Explained
<1>7. \A u \in Waiting' : state'[u] \in begun' /\ (state'[u] \in accepted' => u \in overlapped')
  BY <1>1, <1>2, <1>3, <1>4 DEF CookieIsFresh, Waiting
<1>8. stateCookie' \in begun' \cup {NoState} /\ stateCookie' \notin accepted'
  BY <1>1, <1>2 DEF CookieIsFresh, SessionTypeOK
<1>9. newest' \notin crossed' => newest' = stateCookie' /\ \A u \in Waiting' : state'[u] = newest'
  BY <1>1, <1>3
<1> QED BY <1>5, <1>6, <1>7, <1>8, <1>9 DEF CookieIsFresh

\* The URL of a callback is loaded.
LEMMA CallbackStep ==
  ASSUME CookieIsFresh, NEW t \in Tabs, NEW u \in Tabs, GoogleCallback(t, u)
  PROVE  CookieIsFresh' /\ CountsOnce /\ Explained
<1> USE SessionAssumption DEF cookies, signIns
<1>1. /\ state[u] \in States /\ state' = [state EXCEPT ![t] = state[u]]
      /\ overlapped' = overlapped \ {t}
      /\ UNCHANGED <<stateCookie, session, begun, newest, expired, crossed, accepted>>
  BY DEF GoogleCallback, CookieIsFresh, SessionTypeOK
<1>2. /\ state' \in [Tabs -> States \cup {NoState}]
      /\ state'[t] = state[u] /\ \A v \in Tabs \ {t} : state'[v] = state[v]
  BY <1>1, SMT DEF CookieIsFresh, SessionTypeOK
<1>3. CountsOnce /\ \A v \in Waiting \ {t} : v \in overlapped' <=> v \in overlapped
  BY <1>1 DEF CountsOnce
<1>4. CASE state[u] = stateCookie
  <2>1. at' = [at EXCEPT ![t] = "callback"]
    BY <1>4 DEF GoogleCallback
  <2>2. /\ at' \in [Tabs -> {"login", "google", "callback", "page", "refused", "failed"}]
        /\ Waiting' = Waiting \cup {t}
        /\ at'[t] = "callback" /\ \A v \in Tabs \ {t} : at'[v] = at[v]
    BY <2>1, SMT DEF CookieIsFresh, SessionTypeOK, Waiting
  <2>3. SessionTypeOK'
    BY <1>1, <1>2, <2>2 DEF SessionTypeOK, CookieIsFresh
  <2>4. state'[t] \in begun' /\ state'[t] \notin accepted'
    BY <1>1, <1>2, <1>4 DEF CookieIsFresh
  <2>5. Explained
    BY <1>2, <2>2 DEF Explained
  <2>6. \A v \in Waiting' : state'[v] \in begun' /\ (state'[v] \in accepted' => v \in overlapped')
    BY <1>1, <1>2, <1>3, <2>2, <2>4 DEF CookieIsFresh, Waiting
  <2>7. newest' \notin {NoState} \cup accepted' \cup expired' \cup crossed' =>
          newest' = stateCookie' /\ \A v \in Waiting' : state'[v] = newest'
    BY <1>1, <1>2, <1>4, <2>2 DEF CookieIsFresh, Waiting
  <2> QED BY <1>1, <1>3, <2>3, <2>5, <2>6, <2>7 DEF CookieIsFresh
<1>5. CASE state[u] # stateCookie
  <2>1. at' = [at EXCEPT ![t] = "refused"]
    BY <1>5 DEF GoogleCallback
  <2>2. /\ at' \in [Tabs -> {"login", "google", "callback", "page", "refused", "failed"}]
        /\ Waiting' = Waiting \ {t}
        /\ at'[t] = "refused" /\ \A v \in Tabs \ {t} : at'[v] = at[v]
    BY <2>1, TabLeaves DEF CookieIsFresh
  <2>3. SessionTypeOK'
    BY <1>1, <1>2, <2>2 DEF SessionTypeOK, CookieIsFresh
  <2>4. state[u] # newest \/ newest \in accepted \cup expired \cup crossed
    BY <1>1, <1>5 DEF CookieIsFresh
  <2>5. Explained
    BY <1>2, <2>2, <2>4 DEF Explained
  <2>6. \A v \in Waiting' : state'[v] \in begun' /\ (state'[v] \in accepted' => v \in overlapped')
    BY <1>1, <1>2, <1>3, <2>2 DEF CookieIsFresh, Waiting
  <2>7. newest' \notin {NoState} \cup accepted' \cup expired' \cup crossed' =>
          newest' = stateCookie' /\ \A v \in Waiting' : state'[v] = newest'
    BY <1>1, <1>2, <2>2 DEF CookieIsFresh, Waiting
  <2> QED BY <1>1, <1>3, <2>3, <2>5, <2>6, <2>7 DEF CookieIsFresh
<1> QED BY <1>4, <1>5

\* A callback is answered.
LEMMA AnswerStep ==
  ASSUME CookieIsFresh, NEW t \in Tabs, NEW outcome \in {"page", "failed"}, CallbackReturns(t, outcome)
  PROVE  CookieIsFresh' /\ CountsOnce /\ Explained
<1> USE SessionAssumption DEF signIns
<1>1. /\ t \in Waiting /\ stateCookie' = NoState /\ accepted' = accepted \cup {state[t]}
      /\ at' = [at EXCEPT ![t] = outcome]
      /\ overlapped' = (overlapped \cup {u \in Waiting : state[u] = state[t]}) \ {t}
      /\ UNCHANGED <<state, begun, newest, expired, crossed>>
  BY DEF CallbackReturns
<1>2. /\ at' \in [Tabs -> {"login", "google", "callback", "page", "refused", "failed"}]
      /\ Waiting' = Waiting \ {t}
      /\ at'[t] = outcome /\ \A u \in Tabs \ {t} : at'[u] = at[u]
  BY <1>1, TabLeaves DEF CookieIsFresh
<1>3. session' \in BOOLEAN
  <2>1. session' = (session \/ outcome = "page")
    BY DEF CallbackReturns
  <2> QED BY <2>1
<1>4. SessionTypeOK' /\ accepted' \subseteq States
  BY <1>1, <1>2, <1>3 DEF SessionTypeOK, CookieIsFresh, Waiting
<1>5. CountsOnce
  BY <1>1 DEF CountsOnce, CookieIsFresh
<1>6. Explained
  BY <1>1, <1>2 DEF Explained
<1>7. \A u \in Waiting' : state'[u] \in begun' /\ (state'[u] \in accepted' => u \in overlapped')
  BY <1>1, <1>2 DEF CookieIsFresh
<1>8. newest' \in {NoState} \cup accepted' \cup expired' \cup crossed'
        \/ (newest \notin {NoState} \cup accepted \cup expired \cup crossed /\ newest # state[t])
  BY <1>1
<1>9. newest' \in {NoState} \cup accepted' \cup expired' \cup crossed'
  BY <1>1, <1>8 DEF CookieIsFresh
<1> QED BY <1>1, <1>4, <1>5, <1>6, <1>7, <1>9 DEF CookieIsFresh

\* A cookie reaches its end.
LEMMA ExpiryStep ==
  ASSUME CookieIsFresh, StateExpires \/ SessionExpires
  PROVE  CookieIsFresh' /\ CountsOnce /\ Explained
<1> USE SessionAssumption DEF CookieIsFresh, SessionTypeOK, CountsOnce, Explained, Waiting, signIns, answers
<1>1. CASE StateExpires
  BY <1>1 DEF StateExpires
<1>2. CASE SessionExpires
  BY <1>2 DEF SessionExpires
<1> QED BY <1>1, <1>2

\* Every step of the dashboard keeps the cookie fresh, begins a session only as
\* SignInCountsOnce and refuses only as RefusalIsExplained says.
LEMMA SessionStep ==
  CookieIsFresh /\ [DashboardNext]_dashboardVars =>
    CookieIsFresh' /\ [CountsOnce]_sessionVars /\ [Explained]_sessionVars
<1>1. CookieIsFresh /\ SessionNext => CookieIsFresh' /\ CountsOnce /\ Explained
  BY PageStep, LoginStep, CallbackStep, AnswerStep, ExpiryStep DEF SessionNext
<1>2. CookieIsFresh /\ UNCHANGED sessionVars => CookieIsFresh'
  BY DEF sessionVars, cookies, signIns, answers, CookieIsFresh, SessionTypeOK, Waiting
<1> QED BY <1>1, <1>2 DEF DashboardNext, dashboardVars

\* In the beginning there is no state at all.
LEMMA FreshAtFirst == DashboardInit => CookieIsFresh
BY SessionAssumption DEF DashboardInit, SessionInit, CookieIsFresh, SessionTypeOK, Waiting

\* A session begins only for a callback that came with a state that none has
\* been answered for, or that was waiting when another load of its URL was.
THEOREM StatesCountOnce == DashboardSpec => SignInCountsOnce
BY FreshAtFirst, SessionStep, PTL DEF DashboardSpec, SignInCountsOnce, CountsOnce

\* A sign-in is refused only when its state was used, has expired, is not the
\* newest, or was handed out while a callback was waiting for Google.
THEOREM RefusalsAreExplained == DashboardSpec => RefusalIsExplained
BY FreshAtFirst, SessionStep, PTL DEF DashboardSpec, RefusalIsExplained, Explained

-----------------------------------------------------------------------------
(***************************************************************************)
(* The pages of executions.                                                *)
(***************************************************************************)
Told == Statuses \cup {"log"}
Snapshots == [Executions -> Statuses \cup {None}]
Fetches == [step : {"none", "asked"} \cup Arrived, answer : Snapshots]
Badges == [of : Executions \cup {None}, status : Statuses \cup {None},
           by : {"nobody", "answer", "list", "stream"}]

\* What a stream has told rises, and is at most h and at least l.
Rising(s) == \A m, n \in DOMAIN s :
               m < n /\ "log" \notin {s[m], s[n]} => Rank(s[m]) <= Rank(s[n])
AtMost(s, h) == \A n \in DOMAIN s : s[n] # "log" => Rank(s[n]) <= h
AtLeast(s, l) == \A n \in DOMAIN s : s[n] # "log" => l <= Rank(s[n])

PagesTyped ==
  /\ status \in Snapshots
  /\ page \in {"none", "detail", "ticket"} /\ selected \in Executions \cup {None}
  /\ fetch \in Fetches /\ cached \in Snapshots /\ badge \in Badges
  /\ conn \in [Executions -> {"closed", "connecting", "open"}]
  /\ wire \in [Executions -> Seq(Told)]

\* Snapshots are old: what exists in one exists, and is as far at least.
SnapshotsAreOld ==
  \A e \in Executions :
    /\ Rank(fetch.answer[e]) <= Rank(status[e]) /\ Rank(cached[e]) <= Rank(status[e])
    /\ fetch.answer[e] # None \/ cached[e] # None \/ conn[e] # "closed" => status[e] # None

StreamsRise ==
  \A e \in Executions : Rising(wire[e]) /\ AtMost(wire[e], Rank(status[e]))

\* A badge of the list or of the stream is not ahead of the stream.
BadgeIsBehind ==
  badge.by \in {"list", "stream"} =>
    /\ selected \in Executions
    /\ Rank(badge.status) <= Rank(status[selected])
    /\ AtLeast(wire[selected], Rank(badge.status))

\* The request for data is answered once for a page, and what it says is used
\* before an execution of a ticket is selected.
AnswersComeOnce ==
  /\ badge.by = "nobody" => badge = NoBadge
  /\ page = "none" => badge = NoBadge /\ selected = None
  /\ page = "ticket" => badge.by # "answer" /\ (selected # None => fetch.step = "none")
  /\ page = "detail" => badge.by # "list" /\ selected \in Executions
  /\ badge.by = "answer" => fetch.step = "none"
  /\ selected = None => \A e \in Executions : cached[e] = None

PagesSafe ==
  /\ PagesTyped /\ SnapshotsAreOld /\ StreamsRise /\ BadgeIsBehind /\ AnswersComeOnce
  /\ OnlyTheSelectedStreams

\* The rank of a status grows from pending to final; nothing is before pending.
LEMMA Ranks ==
  /\ \A s : Rank(s) \in 0..2 /\ Rank(s) <= Rank(s)
  /\ Rank(None) = 0 /\ Rank("pending") = 0 /\ Rank("running") = 1
  /\ \A s \in Final : Rank(s) = 2 /\ s \in Statuses
BY ExecutionAssumption, SMT DEF Rank, Final, Statuses

\* The next event is taken from the front.
LEMMA FrontTaken ==
  ASSUME NEW S, NEW s \in Seq(S), 1 \in DOMAIN s
  PROVE  /\ RemoveAt(s, 1) \in Seq(S)
         /\ \A n \in DOMAIN RemoveAt(s, 1) :
              n + 1 \in DOMAIN s /\ RemoveAt(s, 1)[n] = s[n + 1]
         /\ DOMAIN RemoveAt(s, 1) \subseteq Nat /\ DOMAIN s \subseteq Nat
BY SMT DEF RemoveAt

\* What is left of a stream rises, and is no lower than what was taken from it.
LEMMA FrontRises ==
  ASSUME NEW s \in Seq(Told), 1 \in DOMAIN s, Rising(s), NEW h \in Nat, AtMost(s, h)
  PROVE  /\ Rising(RemoveAt(s, 1)) /\ AtMost(RemoveAt(s, 1), h)
         /\ s[1] # "log" => AtLeast(RemoveAt(s, 1), Rank(s[1]))
         /\ \A l \in Nat : AtLeast(s, l) => AtLeast(RemoveAt(s, 1), l)
<1> DEFINE r == RemoveAt(s, 1)
<1>1. /\ \A n \in DOMAIN r : n + 1 \in DOMAIN s /\ r[n] = s[n + 1]
      /\ DOMAIN r \subseteq Nat /\ DOMAIN s \subseteq Nat /\ 1 \in DOMAIN s
  BY FrontTaken
<1>2. \A n \in DOMAIN r : n \in Nat /\ n + 1 > 1
  <2>1. \A n \in DOMAIN s : n > 0
    BY SMT
  <2>2. \A n \in DOMAIN r : n \in Nat /\ n > 0
    BY SMT DEF RemoveAt
  <2> QED BY <2>2, SMT
<1> HIDE DEF r
<1>3. Rising(r)
  <2> SUFFICES ASSUME NEW m \in DOMAIN r, NEW n \in DOMAIN r, m < n, r[m] # "log", r[n] # "log"
               PROVE  Rank(r[m]) <= Rank(r[n])
    BY DEF Rising
  <2>1. m + 1 < n + 1
    BY <1>2, SMT
  <2> QED BY <1>1, <2>1 DEF Rising
<1>4. AtMost(r, h) /\ \A l \in Nat : AtLeast(s, l) => AtLeast(r, l)
  BY <1>1 DEF AtMost, AtLeast
<1>5. s[1] # "log" => AtLeast(r, Rank(s[1]))
  BY <1>1, <1>2 DEF Rising, AtLeast
<1> QED BY <1>3, <1>4, <1>5 DEF r

\* An event is added at the end.
LEMMA EndRises ==
  ASSUME NEW s \in Seq(Told), NEW x \in Told, Rising(s), NEW h \in Nat, AtMost(s, h),
         x # "log" => Rank(x) = h
  PROVE  /\ Append(s, x) \in Seq(Told)
         /\ Rising(Append(s, x)) /\ AtMost(Append(s, x), h)
         /\ \A l \in Nat : l <= h /\ AtLeast(s, l) => AtLeast(Append(s, x), l)
<1> DEFINE r == Append(s, x)
<1>1. /\ r \in Seq(Told) /\ DOMAIN r = 1..(Len(s) + 1) /\ DOMAIN s = 1..Len(s) /\ Len(s) \in Nat
      /\ r[Len(s) + 1] = x /\ \A n \in 1..Len(s) : r[n] = s[n]
  BY SMT
<1> HIDE DEF r
<1>2. \A n \in DOMAIN r : (n \in DOMAIN s /\ r[n] = s[n]) \/ (n = Len(s) + 1 /\ r[n] = x)
  BY <1>1, SMT
<1>3. AtMost(r, h)
  BY <1>2, SMT DEF AtMost
<1>4. \A l \in Nat : l <= h /\ AtLeast(s, l) => AtLeast(r, l)
  BY <1>2 DEF AtLeast
<1>5. Rising(r)
  <2> SUFFICES ASSUME NEW m \in DOMAIN r, NEW n \in DOMAIN r, m < n, r[m] # "log", r[n] # "log"
               PROVE  Rank(r[m]) <= Rank(r[n])
    BY DEF Rising
  <2>1. CASE n \in DOMAIN s
    <3>1. m \in DOMAIN s
      BY <1>1, <2>1, SMT
    <3> QED BY <1>1, <2>1, <3>1 DEF Rising
  <2>2. CASE n \notin DOMAIN s
    <3>1. Rank(r[n]) = h
      BY <1>2, <2>2
    <3> QED BY <1>3, <3>1 DEF AtMost
  <2> QED BY <2>1, <2>2
<1> QED BY <1>1, <1>3, <1>4, <1>5 DEF r

\* Nothing is said of an empty stream.
LEMMA EmptyRises ==
  /\ <<>> \in Seq(Told) /\ Rising(<<>>)
  /\ \A h : AtMost(<<>>, h) /\ AtLeast(<<>>, h)
<1>1. <<>> \in Seq(Told) /\ DOMAIN <<>> = {}
  BY SMT
<1> QED BY <1>1 DEF Rising, AtMost, AtLeast

\* What a step may do to the badge.
BadgeHolds ==
  page' = page /\ selected' = selected /\ NoBadge \notin {badge, badge'} =>
    \/ Rank(badge'.status) >= Rank(badge.status)
    \/ page = "detail" /\ {badge.by, badge'.by} = {"answer", "stream"}

\* What is nothing yet.
LEMMA NothingTyped ==
  /\ Nothing \in Snapshots /\ \A e \in Executions : Nothing[e] = None
  /\ NoBadge \in Badges /\ NoBadge.by = "nobody"
  /\ NoFetch \in Fetches /\ NoFetch.step = "none" /\ NoFetch.answer = Nothing
  /\ Asked \in Fetches /\ Asked.step = "asked" /\ Asked.answer = Nothing
BY SMT DEF Nothing, Snapshots, NoBadge, Badge, Badges, NoFetch, Asked, Fetches

\* A badge has what it is given.
LEMMA BadgeTyped ==
  ASSUME NEW e \in Executions, NEW s \in Statuses \cup {None}, NEW who \in {"answer", "list", "stream"}
  PROVE  /\ Badge(e, s, who) \in Badges
         /\ Badge(e, s, who).of = e /\ Badge(e, s, who).status = s /\ Badge(e, s, who).by = who
BY SMT DEF Badge, Badges

\* The runner works: statuses only rise.
LEMMA WorkSafe ==
  ASSUME PagesSafe, NEW e \in Executions, Work(e)
  PROVE  PagesSafe' /\ BadgeHolds
<1> USE DEF PagesSafe, view, stream
<1>1. UNCHANGED <<page, selected, fetch, cached, badge, dot, conn, wire>>
  BY DEF Work
<1>2. \E s \in Statuses : status' = [status EXCEPT ![e] = s] /\ Rank(status[e]) <= Rank(s)
  BY Ranks, SMT DEF Work, Statuses, Final
<1>3. /\ status' \in Snapshots
      /\ \A d \in Executions : /\ Rank(status[d]) <= Rank(status'[d])
                               /\ status[d] # None => status'[d] # None
  BY <1>2, ExecutionAssumption, Ranks, SMT DEF PagesTyped, Snapshots
<1>4. PagesTyped'
  BY <1>1, <1>3 DEF PagesTyped
<1>5. SnapshotsAreOld'
  <2> SUFFICES ASSUME NEW d \in Executions
               PROVE  /\ Rank(fetch'.answer[d]) <= Rank(status'[d]) /\ Rank(cached'[d]) <= Rank(status'[d])
                      /\ fetch'.answer[d] # None \/ cached'[d] # None \/ conn'[d] # "closed" => status'[d] # None
    BY DEF SnapshotsAreOld
  <2>1. Rank(fetch.answer[d]) <= Rank(status[d]) /\ Rank(cached[d]) <= Rank(status[d])
    BY DEF SnapshotsAreOld
  <2>2. Rank(fetch.answer[d]) <= Rank(status'[d]) /\ Rank(cached[d]) <= Rank(status'[d])
    BY <1>3, <2>1, Ranks, SMT
  <2> QED BY <1>1, <1>3, <2>2 DEF SnapshotsAreOld
<1>6. StreamsRise'
  <2> SUFFICES ASSUME NEW d \in Executions PROVE Rising(wire'[d]) /\ AtMost(wire'[d], Rank(status'[d]))
    BY DEF StreamsRise
  <2>1. Rising(wire[d]) /\ AtMost(wire[d], Rank(status[d]))
    BY DEF StreamsRise
  <2>2. Rank(status[d]) <= Rank(status'[d])
    BY <1>3
  <2>3. AtMost(wire[d], Rank(status'[d]))
    BY <2>1, <2>2, Ranks, SMT DEF AtMost
  <2> QED BY <1>1, <2>1, <2>3
<1>7. BadgeIsBehind'
  <2> SUFFICES ASSUME badge.by \in {"list", "stream"} PROVE BadgeIsBehind'
    BY <1>1 DEF BadgeIsBehind
  <2>1. Rank(badge.status) <= Rank(status[selected]) /\ Rank(status[selected]) <= Rank(status'[selected])
    BY <1>3 DEF BadgeIsBehind
  <2>2. Rank(badge.status) <= Rank(status'[selected])
    BY <2>1, Ranks, SMT
  <2> QED BY <1>1, <2>2 DEF BadgeIsBehind
<1>8. AnswersComeOnce' /\ OnlyTheSelectedStreams'
  BY <1>1 DEF AnswersComeOnce, OnlyTheSelectedStreams
<1>9. BadgeHolds
  BY <1>1, Ranks, SMT DEF BadgeHolds
<1> QED BY <1>4, <1>5, <1>6, <1>7, <1>8, <1>9

\* A page is opened or left.
LEMMA OpenPagesSafe ==
  ASSUME PagesSafe, NEW kind \in {"none", "detail", "ticket"}, NEW e \in Executions \cup {None},
         \/ kind = "detail" /\ e \in Executions /\ status[e] # None /\ OpenStream(e)
         \/ kind # "detail" /\ e = None /\ NoStream,
         Open(kind, e), fetch' \in {NoFetch, Asked}, page' # page
  PROVE  PagesSafe' /\ BadgeHolds
<1> USE DEF PagesSafe
<1>1. /\ page' = kind /\ selected' = e /\ cached' = Nothing /\ badge' = NoBadge /\ dot' = FALSE
      /\ status' = status
  BY DEF Open
<1>2. /\ wire' \in [Executions -> Seq(Told)]
      /\ \A d \in Executions : wire'[d] \in {<<>>, wire[d]}
  BY EmptyRises DEF OpenStream, NoStream, PagesTyped
<1>3. /\ conn' \in [Executions -> {"closed", "connecting", "open"}]
      /\ \A d \in Executions : conn'[d] # "closed" => kind = "detail" /\ d = e
  <2>1. CASE kind # "detail"
    BY <2>1 DEF NoStream
  <2>2. CASE kind = "detail" /\ OpenStream(e)
    BY <2>2 DEF OpenStream, PagesTyped, OnlyTheSelectedStreams
  <2> QED BY <2>1, <2>2
<1>4. fetch' \in Fetches /\ fetch'.answer = Nothing
  BY NothingTyped
<1>5. PagesTyped'
  BY <1>1, <1>2, <1>3, <1>4, NothingTyped, EmptyRises DEF PagesTyped
<1>6. SnapshotsAreOld'
  <2>1. \A d \in Executions : Rank(None) <= Rank(status[d])
    BY Ranks, SMT
  <2>2. \A d \in Executions : fetch'.answer[d] = None /\ cached'[d] = None
    BY <1>1, <1>4, NothingTyped
  <2> QED BY <1>1, <1>3, <2>1, <2>2 DEF SnapshotsAreOld
<1>7. StreamsRise'
  BY <1>1, <1>2, EmptyRises DEF StreamsRise
<1>8. BadgeIsBehind' /\ AnswersComeOnce'
  BY <1>1, NothingTyped DEF BadgeIsBehind, AnswersComeOnce
<1>9. OnlyTheSelectedStreams'
  BY <1>1, <1>3 DEF OnlyTheSelectedStreams
<1> QED BY <1>5, <1>6, <1>7, <1>8, <1>9 DEF BadgeHolds

\* A page is opened for an execution or a ticket, or left for another.
LEMMA OpeningSafe ==
  ASSUME PagesSafe, (\E e \in Executions : OpenDetail(e)) \/ OpenTicket \/ Leave
  PROVE  PagesSafe' /\ BadgeHolds
<1>1. ASSUME NEW e \in Executions, OpenDetail(e) PROVE PagesSafe' /\ BadgeHolds
  <2>1. page' # page /\ status[e] # None /\ Open("detail", e) /\ fetch' = Asked /\ OpenStream(e)
    BY <1>1 DEF OpenDetail, Open
  <2> QED BY <2>1, OpenPagesSafe
<1>2. CASE OpenTicket
  <2>1. page' # page
    BY <1>2 DEF OpenTicket, Open
  <2> QED BY <1>2, <2>1, OpenPagesSafe DEF OpenTicket
<1>3. CASE Leave
  <2>1. page' # page
    BY <1>3 DEF Leave, Open
  <2> QED BY <1>3, <2>1, OpenPagesSafe DEF Leave
<1> QED BY <1>1, <1>2, <1>3

\* The server answers the request for data.
LEMMA AnswerSafe ==
  ASSUME PagesSafe, NEW allowed, Answer(allowed)
  PROVE  PagesSafe' /\ BadgeHolds
<1> USE DEF PagesSafe, stream
<1>1. /\ UNCHANGED <<status, page, selected, cached, badge, dot, conn, wire>>
      /\ fetch.step = "asked"
  BY DEF Answer
<1>2. \E step \in Arrived, answer \in {status, Nothing} : fetch' = [step |-> step, answer |-> answer]
  BY DEF Answer, Arrived
<1>3. fetch' \in Fetches /\ fetch'.answer \in {status, Nothing}
  BY <1>2, NothingTyped, SMT DEF Fetches, PagesTyped
<1>4. PagesTyped'
  BY <1>1, <1>3 DEF PagesTyped
<1>5. \A d \in Executions : /\ Rank(fetch'.answer[d]) <= Rank(status[d])
                            /\ fetch'.answer[d] # None => status[d] # None
  BY <1>3, NothingTyped, Ranks, SMT
<1>6. SnapshotsAreOld'
  BY <1>1, <1>5 DEF SnapshotsAreOld
<1>7. StreamsRise' /\ BadgeIsBehind' /\ OnlyTheSelectedStreams'
  BY <1>1 DEF StreamsRise, BadgeIsBehind, OnlyTheSelectedStreams
<1>8. AnswersComeOnce'
  BY <1>1 DEF AnswersComeOnce
<1>9. BadgeHolds
  BY <1>1, Ranks, SMT DEF BadgeHolds
<1> QED BY <1>4, <1>6, <1>7, <1>8, <1>9

\* The page of an execution writes the answer into the badge.
LEMMA MetaSafe ==
  ASSUME PagesSafe, MetaArrives
  PROVE  PagesSafe' /\ BadgeHolds
<1> USE DEF PagesSafe, stream
<1>1. /\ UNCHANGED <<status, page, selected, cached, dot, conn, wire>>
      /\ fetch' = NoFetch /\ page = "detail" /\ fetch.step # "none" /\ selected \in Executions
  BY DEF MetaArrives, AnswersComeOnce, Arrived
<1>2. fetch.answer[selected] \in Statuses \cup {None}
  BY <1>1, SMT DEF PagesTyped, Fetches, Snapshots
<1>3. badge' = badge \/ badge' = Badge(selected, fetch.answer[selected], "answer")
  BY DEF MetaArrives
<1>4. badge' \in Badges /\ (badge' # badge => badge'.by = "answer" /\ badge'.of = selected)
  BY <1>1, <1>2, <1>3, BadgeTyped DEF PagesTyped
<1>5. PagesTyped'
  BY <1>1, <1>4, NothingTyped DEF PagesTyped
<1>6. SnapshotsAreOld'
  <2>1. \A d \in Executions : Rank(None) <= Rank(status[d]) /\ NoFetch.answer[d] = None
    BY NothingTyped, Ranks, SMT
  <2> QED BY <1>1, <2>1 DEF SnapshotsAreOld
<1>7. StreamsRise' /\ BadgeIsBehind'
  BY <1>1, <1>4 DEF StreamsRise, BadgeIsBehind
<1>8. AnswersComeOnce' /\ OnlyTheSelectedStreams'
  BY <1>1, <1>4, NothingTyped DEF AnswersComeOnce, OnlyTheSelectedStreams
<1>9. BadgeHolds
  <2>1. CASE badge' = badge
    BY <2>1, Ranks, SMT DEF BadgeHolds
  <2>2. CASE badge' # badge
    <3>1. badge.by \in {"nobody", "stream"}
      BY <1>1, SMT DEF PagesTyped, Badges, AnswersComeOnce
    <3>2. badge = NoBadge \/ {badge.by, badge'.by} = {"answer", "stream"}
      BY <1>4, <2>2, <3>1 DEF AnswersComeOnce
    <3> QED BY <1>1, <3>2 DEF BadgeHolds
  <2> QED BY <2>1, <2>2
<1> QED BY <1>5, <1>6, <1>7, <1>8, <1>9

\* Another execution of a ticket is selected, from a list that was read before.
LEMMA LoadSafe ==
  ASSUME PagesSafe, NEW e \in Executions, NEW known \in Snapshots, loadExecution(e, known),
         \A d \in Executions : /\ Rank(known[d]) <= Rank(status[d])
                               /\ known[d] # None => status[d] # None,
         known[e] # None, page = "ticket", e # selected, cached' = known,
         fetch' \in Fetches, fetch'.step = "none",
         \A d \in Executions : /\ Rank(fetch'.answer[d]) <= Rank(status[d])
                               /\ fetch'.answer[d] # None => status[d] # None,
         UNCHANGED <<status, page, dot>>
  PROVE  PagesSafe' /\ BadgeHolds
<1> USE DEF PagesSafe
<1>1. /\ selected' = e /\ badge' = Badge(e, known[e], "list")
      /\ conn' \in [Executions -> {"closed", "connecting", "open"}]
      /\ wire' \in [Executions -> Seq(Told)]
      /\ conn'[e] = "connecting" /\ wire'[e] = <<>>
      /\ \A d \in Executions : (conn'[d] # "closed" => d = e) /\ wire'[d] \in {<<>>, wire[d]}
  BY EmptyRises DEF loadExecution, OpenStream, PagesTyped, OnlyTheSelectedStreams
<1>2. known[e] \in Statuses \cup {None}
  BY DEF Snapshots
<1>3. /\ badge' \in Badges /\ badge'.of = e /\ badge'.status = known[e] /\ badge'.by = "list"
  BY <1>1, <1>2, BadgeTyped
<1>4. PagesTyped'
  BY <1>1, <1>3, NothingTyped, EmptyRises DEF PagesTyped
<1>5. SnapshotsAreOld'
  BY <1>1 DEF SnapshotsAreOld
<1>6. StreamsRise' /\ BadgeIsBehind'
  BY <1>1, <1>3, EmptyRises DEF StreamsRise, BadgeIsBehind
<1>7. AnswersComeOnce'
  BY <1>1, <1>3, NothingTyped, ExecutionAssumption DEF AnswersComeOnce
<1>8. OnlyTheSelectedStreams'
  BY <1>1, <1>3 DEF OnlyTheSelectedStreams
<1> QED BY <1>1, <1>4, <1>5, <1>6, <1>7, <1>8 DEF BadgeHolds

\* The list of a ticket arrives, and its newest execution is selected.
LEMMA ListSafe ==
  ASSUME PagesSafe, ListArrives
  PROVE  PagesSafe' /\ BadgeHolds
<1> USE DEF PagesSafe
<1>1. /\ UNCHANGED <<status, page, dot>> /\ fetch' = NoFetch /\ cached' = fetch.answer
      /\ page = "ticket" /\ fetch.step # "none"
  BY DEF ListArrives, Arrived
<1>2. selected = None /\ fetch.answer \in Snapshots
  BY <1>1, SMT DEF AnswersComeOnce, PagesTyped, Fetches
<1>3. ASSUME NEW e \in Executions, fetch.answer[e] # None, loadExecution(e, fetch.answer)
      PROVE  PagesSafe' /\ BadgeHolds
  <2>1. e # selected
    BY <1>2, ExecutionAssumption
  <2>2. \A d \in Executions : /\ Rank(fetch.answer[d]) <= Rank(status[d])
                              /\ fetch.answer[d] # None => status[d] # None
    BY DEF SnapshotsAreOld
  <2>3. \A d \in Executions : Rank(None) <= Rank(status[d]) /\ NoFetch.answer[d] = None
    BY NothingTyped, Ranks, SMT
  <2> QED BY <1>1, <1>2, <1>3, <2>1, <2>2, <2>3, NothingTyped, LoadSafe
<1>4. CASE Existing(fetch.answer) = {} /\ UNCHANGED <<selected, badge, stream>>
  <2> USE DEF stream
  <2>1. PagesTyped'
    BY <1>1, <1>2, <1>4, NothingTyped DEF PagesTyped
  <2>2. SnapshotsAreOld'
    <3>1. \A d \in Executions : Rank(None) <= Rank(status[d]) /\ NoFetch.answer[d] = None
      BY NothingTyped, Ranks, SMT
    <3> QED BY <1>1, <1>4, <3>1 DEF SnapshotsAreOld
  <2>3. StreamsRise' /\ BadgeIsBehind' /\ OnlyTheSelectedStreams'
    BY <1>1, <1>4 DEF StreamsRise, BadgeIsBehind, OnlyTheSelectedStreams
  <2>4. AnswersComeOnce'
    BY <1>1, <1>4, NothingTyped DEF AnswersComeOnce, Existing
  <2>5. BadgeHolds
    BY <1>4, Ranks, SMT DEF BadgeHolds
  <2> QED BY <2>1, <2>2, <2>3, <2>4, <2>5
<1> QED BY <1>3, <1>4 DEF ListArrives, Existing

\* An execution is selected by hand.
LEMMA SelectSafe ==
  ASSUME PagesSafe, NEW e \in Executions, Select(e)
  PROVE  PagesSafe' /\ BadgeHolds
<1> USE DEF PagesSafe
<1>1. /\ page = "ticket" /\ cached[e] # None /\ e # selected /\ loadExecution(e, cached)
      /\ UNCHANGED <<status, page, fetch, cached, dot>>
  BY DEF Select
<1>2. fetch.step = "none" /\ fetch \in Fetches /\ cached \in Snapshots
  BY <1>1 DEF AnswersComeOnce, PagesTyped
<1> QED BY <1>1, <1>2, LoadSafe DEF SnapshotsAreOld

\* A step of a stream that leaves the badge alone: it takes no source from the
\* closed ones, and adds nothing to what is on its way but what the runner says.
LEMMA StreamSafe ==
  ASSUME PagesSafe, UNCHANGED <<status, page, selected, fetch, cached, badge>>,
         conn' \in [Executions -> {"closed", "connecting", "open"}],
         wire' \in [Executions -> Seq(Told)],
         \A d \in Executions : conn'[d] # "closed" => conn[d] # "closed",
         dot' => \E d \in Executions : conn'[d] # "closed",
         \A d \in Executions :
           /\ Rising(wire'[d]) /\ AtMost(wire'[d], Rank(status[d]))
           /\ \A l \in Nat : l <= Rank(status[d]) /\ AtLeast(wire[d], l) => AtLeast(wire'[d], l)
  PROVE  PagesSafe' /\ BadgeHolds
<1> USE DEF PagesSafe
<1>1. PagesTyped' /\ SnapshotsAreOld' /\ StreamsRise' /\ AnswersComeOnce'
  BY DEF PagesTyped, SnapshotsAreOld, StreamsRise, AnswersComeOnce
<1>2. BadgeIsBehind'
  <2>1. Rank(badge.status) \in Nat
    BY Ranks, SMT
  <2> QED BY <2>1 DEF BadgeIsBehind
<1>3. OnlyTheSelectedStreams'
  BY DEF OnlyTheSelectedStreams
<1>4. BadgeHolds
  BY Ranks, SMT DEF BadgeHolds
<1> QED BY <1>1, <1>2, <1>3, <1>4

\* The source of the selected execution is opened, and the runner says how far it is.
LEMMA ConnectSafe ==
  ASSUME PagesSafe, NEW e \in Executions, NEW allowed, Connect(e, allowed)
  PROVE  PagesSafe' /\ BadgeHolds
<1> USE DEF PagesSafe, view
<1>1. /\ UNCHANGED <<status, page, selected, fetch, cached, badge, dot, wire>>
      /\ conn[e] = "connecting" /\ conn' = [conn EXCEPT ![e] = "open"]
  BY DEF Connect
<1>2. /\ conn' \in [Executions -> {"closed", "connecting", "open"}]
      /\ \A d \in Executions : conn'[d] # "closed" <=> conn[d] # "closed"
  BY <1>1, SMT DEF PagesTyped
<1> QED BY <1>1, <1>2, StreamSafe DEF PagesTyped, StreamsRise, OnlyTheSelectedStreams

\* The runner says something more.
LEMMA SaySafe ==
  ASSUME PagesSafe, NEW e \in Executions, NEW x \in Told,
         UNCHANGED <<status, view, conn>>, conn[e] = "open",
         wire' = [wire EXCEPT ![e] = Append(@, x)], x = "log" \/ x = status[e]
  PROVE  PagesSafe' /\ BadgeHolds
<1> USE DEF PagesSafe, view
<1>1. /\ wire \in [Executions -> Seq(Told)] /\ Rising(wire[e]) /\ AtMost(wire[e], Rank(status[e]))
      /\ wire[e] \in Seq(Told)
  BY DEF PagesTyped, StreamsRise
<1>2. Rank(status[e]) \in Nat /\ (x # "log" => Rank(x) = Rank(status[e]))
  BY Ranks, SMT
<1>3. /\ Append(wire[e], x) \in Seq(Told) /\ Rising(Append(wire[e], x))
      /\ AtMost(Append(wire[e], x), Rank(status[e]))
      /\ \A l \in Nat : l <= Rank(status[e]) /\ AtLeast(wire[e], l) => AtLeast(Append(wire[e], x), l)
  BY <1>1, <1>2, EndRises
<1>4. /\ wire'[e] = Append(wire[e], x) /\ \A d \in Executions \ {e} : wire'[d] = wire[d]
      /\ wire' \in [Executions -> Seq(Told)]
  BY <1>1, <1>3
<1>5. \A d \in Executions :
        /\ Rising(wire'[d]) /\ AtMost(wire'[d], Rank(status[d]))
        /\ \A l \in Nat : l <= Rank(status[d]) /\ AtLeast(wire[d], l) => AtLeast(wire'[d], l)
  BY <1>3, <1>4 DEF StreamsRise
<1> QED BY <1>4, <1>5, StreamSafe DEF PagesTyped, OnlyTheSelectedStreams

\* It says that the status has changed, or writes a line of output.
LEMMA TellSafe ==
  ASSUME PagesSafe, NEW e \in Executions, Tell(e) \/ Output(e)
  PROVE  PagesSafe' /\ BadgeHolds
<1>1. status[e] # None /\ status[e] \in Statuses \cup {None}
  BY DEF PagesSafe, PagesTyped, SnapshotsAreOld, Snapshots, Tell, Output
<1>2. CASE Tell(e)
  BY <1>1, <1>2, SaySafe DEF Tell, Told
<1>3. CASE Output(e)
  BY <1>3, SaySafe DEF Output, Told
<1> QED BY <1>2, <1>3

\* The source is closed.
LEMMA CloseTyped ==
  ASSUME PagesTyped, NEW e \in Executions, Close(e)
  PROVE  /\ conn' \in [Executions -> {"closed", "connecting", "open"}]
         /\ wire' \in [Executions -> Seq(Told)]
         /\ conn'[e] = "closed" /\ wire'[e] = <<>>
         /\ \A d \in Executions \ {e} : conn'[d] = conn[d] /\ wire'[d] = wire[d]
BY EmptyRises DEF PagesTyped, Close

\* The connection breaks, and the source opens a new one or is closed.
LEMMA BreakSafe ==
  ASSUME PagesSafe, NEW e \in Executions, Break(e)
  PROVE  PagesSafe' /\ BadgeHolds
<1> USE DEF PagesSafe
<1>1. /\ UNCHANGED <<status, page, selected, fetch, cached, badge>> /\ dot' = FALSE /\ Close(e)
  BY DEF Break
<1>2. \A d \in Executions :
        /\ Rising(wire'[d]) /\ AtMost(wire'[d], Rank(status[d]))
        /\ \A l \in Nat : l <= Rank(status[d]) /\ AtLeast(wire[d], l) => AtLeast(wire'[d], l)
  BY <1>1, CloseTyped, EmptyRises DEF StreamsRise
<1> QED BY <1>1, <1>2, CloseTyped, StreamSafe

\* The page takes the next event of the stream.
LEMMA DeliverSafe ==
  ASSUME PagesSafe, NEW e \in Executions, Deliver(e)
  PROVE  PagesSafe' /\ BadgeHolds
<1> DEFINE event == wire[e][1]
<1> USE DEF PagesSafe
<1>1. /\ UNCHANGED <<status, page, selected, fetch, cached>>
      /\ conn[e] = "open" /\ 1 \in DOMAIN wire[e]
      /\ badge' = IF event = "log" THEN badge ELSE Badge(e, event, "stream")
      /\ \/ event \in Final /\ Close(e) /\ dot' = FALSE
         \/ wire' = [wire EXCEPT ![e] = RemoveAt(@, 1)] /\ dot' = TRUE /\ conn' = conn
  BY DEF Deliver, Handle, Take
<1>2. /\ selected = e /\ page # "none" /\ wire[e] \in Seq(Told) /\ event \in Told
      /\ Rising(wire[e]) /\ AtMost(wire[e], Rank(status[e])) /\ Rank(status[e]) \in Nat
      /\ Rank(badge.status) \in Nat
  <2>1. selected = e /\ wire[e] \in Seq(Told) /\ page # "none"
    BY <1>1, ExecutionAssumption DEF OnlyTheSelectedStreams, PagesTyped, AnswersComeOnce
  <2>2. event \in Told
    BY <1>1, <2>1, SMT
  <2> QED BY <2>1, <2>2, Ranks, SMT DEF StreamsRise
<1> HIDE DEF event
<1>3. /\ Rising(RemoveAt(wire[e], 1)) /\ AtMost(RemoveAt(wire[e], 1), Rank(status[e]))
      /\ RemoveAt(wire[e], 1) \in Seq(Told)
      /\ event # "log" => AtLeast(RemoveAt(wire[e], 1), Rank(event))
      /\ \A l \in Nat : AtLeast(wire[e], l) => AtLeast(RemoveAt(wire[e], 1), l)
  BY <1>1, <1>2, FrontRises, FrontTaken DEF event
<1>4. \A d \in Executions \ {e} : conn'[d] = conn[d] /\ wire'[d] = wire[d]
  BY <1>1, CloseTyped DEF PagesTyped
<1>5. /\ conn' \in [Executions -> {"closed", "connecting", "open"}]
      /\ wire' \in [Executions -> Seq(Told)]
      /\ wire'[e] \in {<<>>, RemoveAt(wire[e], 1)}
      /\ dot' => conn'[e] # "closed"
  BY <1>1, <1>3, CloseTyped DEF PagesTyped
<1>6. \A d \in Executions : Rising(wire'[d]) /\ AtMost(wire'[d], Rank(status[d]))
  BY <1>3, <1>4, <1>5, EmptyRises DEF StreamsRise
<1>7. CASE event = "log"
  <2>1. \A d \in Executions, l \in Nat : AtLeast(wire[d], l) => AtLeast(wire'[d], l)
    BY <1>3, <1>4, <1>5, EmptyRises
  <2>2. \A d \in Executions : conn'[d] # "closed" => conn[d] # "closed"
    BY <1>1, <1>4
  <2> QED BY <1>1, <1>5, <1>6, <1>7, <2>1, <2>2, StreamSafe
<1>8. CASE event # "log"
  <2>1. event \in Statuses \cup {None}
    BY <1>2, <1>8 DEF Told
  <2>2. /\ badge' \in Badges /\ badge'.of = e /\ badge'.status = event /\ badge'.by = "stream"
    BY <1>1, <1>8, <2>1, BadgeTyped
  <2>3. PagesTyped' /\ StreamsRise'
    BY <1>1, <1>5, <1>6, <2>2 DEF PagesTyped, StreamsRise
  <2>4. SnapshotsAreOld'
    BY <1>1, <1>4 DEF SnapshotsAreOld
  <2>5. BadgeIsBehind'
    <3>1. Rank(event) <= Rank(status[e])
      BY <1>1, <1>2, <1>8 DEF AtMost, event
    <3>2. AtLeast(wire'[e], Rank(event))
      BY <1>3, <1>5, <1>8, EmptyRises
    <3> QED BY <1>1, <1>2, <2>2, <3>1, <3>2 DEF BadgeIsBehind
  <2>6. AnswersComeOnce'
    BY <1>1, <1>2, <2>2 DEF AnswersComeOnce
  <2>7. OnlyTheSelectedStreams'
    BY <1>1, <1>2, <1>4, <1>5, <2>2 DEF OnlyTheSelectedStreams
  <2>8. BadgeHolds
    <3>1. badge.by \in {"nobody", "answer", "list", "stream"}
      BY SMT DEF PagesTyped, Badges
    <3>2. CASE badge.by \in {"list", "stream"}
      <4>1. Rank(badge.status) <= Rank(event)
        BY <1>1, <1>2, <1>8, <3>2 DEF BadgeIsBehind, AtLeast, event
      <4>2. Rank(badge'.status) >= Rank(badge.status)
        BY <2>2, <4>1, Ranks, SMT
      <4> QED BY <4>2 DEF BadgeHolds
    <3>3. CASE badge.by = "answer"
      BY <1>2, <2>2, <3>3, SMT DEF BadgeHolds, AnswersComeOnce, PagesTyped
    <3>4. CASE badge.by = "nobody"
      BY <3>4 DEF BadgeHolds, AnswersComeOnce
    <3> QED BY <3>1, <3>2, <3>3, <3>4
  <2> QED BY <2>3, <2>4, <2>5, <2>6, <2>7, <2>8
<1> QED BY <1>7, <1>8

\* No page is open at first.
LEMMA PagesSafeAtFirst == PagesInit => PagesSafe
<1> SUFFICES ASSUME PagesInit PROVE PagesSafe
  OBVIOUS
<1> USE DEF PagesInit, PagesSafe
<1>1. PagesTyped
  BY NothingTyped, EmptyRises DEF PagesTyped
<1>2. SnapshotsAreOld
  <2>1. Rank(None) <= Rank(None)
    BY Ranks, Zenon
  <2> QED BY <2>1, NothingTyped DEF SnapshotsAreOld
<1>3. StreamsRise /\ BadgeIsBehind /\ AnswersComeOnce
  BY NothingTyped, EmptyRises DEF StreamsRise, BadgeIsBehind, AnswersComeOnce
<1>4. OnlyTheSelectedStreams
  BY NothingTyped DEF OnlyTheSelectedStreams
<1> QED BY <1>1, <1>2, <1>3, <1>4

\* Every step of the pages keeps what they rely on.
LEMMA PagesStaySafe ==
  ASSUME PagesSafe, DashboardNext \/ UNCHANGED pageVars
  PROVE  PagesSafe' /\ [BadgeHolds]_pageVars
<1>1. CASE UNCHANGED pageVars
  BY <1>1 DEF pageVars, view, stream, PagesSafe, PagesTyped, SnapshotsAreOld, StreamsRise,
     BadgeIsBehind, AnswersComeOnce, OnlyTheSelectedStreams
<1>2. CASE Requested
  BY <1>2, OpeningSafe, AnswerSafe, ConnectSafe DEF Requested, GetExecutionData, ListExecutions
<1>3. CASE PagesNext
  BY <1>3, WorkSafe, SelectSafe, TellSafe, DeliverSafe, BreakSafe, OpeningSafe, MetaSafe, ListSafe
     DEF PagesNext
<1> QED BY <1>1, <1>2, <1>3 DEF DashboardNext

\* The page listens to the execution that is selected, and to no other: whatever
\* the order of the answers and the clicks, no stream is left that could write
\* into the output of another execution.
THEOREM OneStreamAtATime == DashboardSpec => []OnlyTheSelectedStreams
<1>1. DashboardInit => PagesSafe
  BY PagesSafeAtFirst DEF DashboardInit
<1>2. PagesSafe /\ [DashboardNext]_dashboardVars => PagesSafe'
  BY PagesStaySafe DEF dashboardVars
<1>3. PagesSafe => OnlyTheSelectedStreams
  BY DEF PagesSafe
<1> QED BY <1>1, <1>2, <1>3, PTL DEF DashboardSpec

\* The status that a page shows of an execution goes back only when the answer to
\* the request for data, which was read earlier, crosses with the stream.
THEOREM BadgeRises == DashboardSpec => BadgeGoesBackOnlyWhenTheyCross
<1>1. DashboardInit => PagesSafe
  BY PagesSafeAtFirst DEF DashboardInit
<1>2. PagesSafe /\ [DashboardNext]_dashboardVars => PagesSafe'
  BY PagesStaySafe DEF dashboardVars
<1>3. PagesSafe /\ [DashboardNext]_dashboardVars => [BadgeHolds]_pageVars
  BY PagesStaySafe DEF dashboardVars
<1>4. DashboardSpec => [][BadgeHolds]_pageVars
  BY <1>1, <1>2, <1>3, PTL DEF DashboardSpec
<1> QED BY <1>4 DEF BadgeGoesBackOnlyWhenTheyCross, BadgeHolds

-----------------------------------------------------------------------------
(***************************************************************************)
(* The list of boards. Of the panel, Safe says of the last opening what    *)
(* holds whether it is still open or not: its fetch is the only one with   *)
(* its number, and for the board in the title. Of the cards, ListIsPaged   *)
(* says that the page shown exists, and PanelIsPaged says so of the        *)
(* issues; the rest is counting (which board is at a position, on which    *)
(* page a number is) and walking from page to page. Both are inductions    *)
(* over the numbers, and are made by taking the least counterexample.      *)
(***************************************************************************)
PanelFetches == [board : Boards, opening : 1..MaxOpenings]
Panels == [open : BOOLEAN, title : Boards \cup {Nil}, loading : BOOLEAN, error : BOOLEAN,
           shown : BOOLEAN, content : Boards \cup {Nil}, page : Int]

PanelTypeOK ==
  /\ panel \in Panels /\ late \in BOOLEAN
  /\ panel.shown => panel.content \in Boards
  /\ openings \in 0..MaxOpenings
  /\ pending \subseteq PanelFetches

PendingAreNumbered ==
  /\ \A f \in pending : f.opening <= openings
  /\ \A f \in pending, g \in pending : f.opening = g.opening => f = g
  /\ \A f \in pending : f.opening = openings => f.board = panel.title

\* Unless an earlier answer came late, the last opening is waiting, with
\* nothing shown, or has its own answer.
OpeningIsClean ==
  openings > 0 /\ ~late =>
    /\ panel.shown => panel.content = panel.title /\ ~panel.error
    /\ panel.loading => ~panel.shown /\ ~panel.error
    /\ (\E f \in pending : f.opening = openings) <=> panel.loading

Safe == /\ PanelTypeOK /\ PendingAreNumbered /\ OpeningIsClean
        /\ openings = 0 => ~panel.open

\* The number of openings is bounded by a number.
LEMMA BoundIsNumber == MaxOpenings \in Nat
BY PageAssumption

\* What the handlers make of the panel: openSummary clears the error and hides
\* the content.
LEMMA OpenedPanel ==
  ASSUME panel \in Panels, NEW b \in Boards,
         panel' = [panel EXCEPT !.open = TRUE, !.title = b, !.loading = TRUE,
                                !.error = FALSE, !.shown = FALSE]
  PROVE  /\ panel' \in Panels
         /\ panel'.open /\ panel'.title = b /\ panel'.loading
         /\ ~panel'.error /\ ~panel'.shown
BY Zenon DEF Panels

\* closeModal changes nothing else.
LEMMA ClosedPanel ==
  ASSUME panel \in Panels, panel' = [panel EXCEPT !.open = FALSE]
  PROVE  /\ panel' \in Panels
         /\ ~panel'.open /\ panel'.title = panel.title /\ panel'.loading = panel.loading
         /\ panel'.error = panel.error /\ panel'.shown = panel.shown
         /\ panel'.content = panel.content /\ panel'.page = panel.page
BY Zenon DEF Panels

\* renderSummary shows the first page of the issues.
LEMMA RenderedPanel ==
  ASSUME panel \in Panels, NEW b \in Boards,
         panel' = [panel EXCEPT !.loading = FALSE, !.shown = TRUE, !.content = b, !.page = 1]
  PROVE  /\ panel' \in Panels
         /\ panel'.open = panel.open /\ panel'.title = panel.title /\ ~panel'.loading
         /\ panel'.error = panel.error /\ panel'.shown
         /\ panel'.content = b /\ panel'.page = 1
<1>1. 1 \in Int
  BY SMT
<1> QED BY <1>1, Zenon DEF Panels

\* A fetch that fails leaves the content and its page alone.
LEMMA FailedPanel ==
  ASSUME panel \in Panels, panel' = [panel EXCEPT !.loading = FALSE, !.error = TRUE]
  PROVE  /\ panel' \in Panels
         /\ panel'.open = panel.open /\ panel'.title = panel.title /\ ~panel'.loading
         /\ panel'.error /\ panel'.shown = panel.shown
         /\ panel'.content = panel.content /\ panel'.page = panel.page
BY Zenon DEF Panels

\* Turning the page of the issues changes nothing else.
LEMMA TurnedPanel ==
  ASSUME panel \in Panels, NEW p \in Int, panel' = [panel EXCEPT !.page = p]
  PROVE  /\ panel' \in Panels
         /\ panel'.open = panel.open /\ panel'.title = panel.title
         /\ panel'.loading = panel.loading
         /\ panel'.error = panel.error /\ panel'.shown = panel.shown
         /\ panel'.content = panel.content /\ panel'.page = p
BY Zenon DEF Panels

\* The panel of a page that has just been loaded.
Loaded == panel = NoPanel /\ pending = {} /\ openings = 0 /\ late = FALSE

\* It shows nothing, and nothing is in flight.
LEMMA LoadedSafe == Loaded => Safe
<1> SUFFICES ASSUME Loaded PROVE Safe
  OBVIOUS
<1> USE DEF Loaded
<1>1. panel \in Panels /\ ~panel.open /\ ~panel.shown
  <2>1. 1 \in Int
    BY SMT
  <2> QED BY <2>1, Zenon DEF NoPanel, Panels
<1>2. openings \in 0..MaxOpenings
  BY BoundIsNumber, SMT
<1>3. PendingAreNumbered /\ OpeningIsClean
  BY SMT DEF PendingAreNumbered, OpeningIsClean
<1> QED BY <1>1, <1>2, <1>3 DEF Safe, PanelTypeOK

\* A new opening: nothing else has its number.
LEMMA OpenSafe == ASSUME Safe, NEW b \in Boards, openSummary(b) PROVE Safe'
<1> DEFINE f == [board |-> b, opening |-> openings + 1]
<1>1. /\ panel' \in Panels
      /\ panel'.open /\ panel'.title = b /\ panel'.loading
      /\ ~panel'.error /\ ~panel'.shown
  BY OpenedPanel DEF Safe, PanelTypeOK, openSummary
<1>2. /\ openings' = openings + 1 /\ pending' = pending \cup {f} /\ late' = FALSE
      /\ openings \in 0..MaxOpenings /\ openings < MaxOpenings /\ pending \subseteq PanelFetches
  BY DEF Safe, PanelTypeOK, openSummary
<1>3. f \in PanelFetches /\ f.opening = openings + 1 /\ f.board = b
  BY <1>2, BoundIsNumber, SMT DEF PanelFetches
<1>4. \A g \in pending : g.opening \in Int /\ g.opening <= openings
  BY <1>2, SMT DEF Safe, PendingAreNumbered, PanelFetches
<1>5. PanelTypeOK'
  <2>1. openings' \in 0..MaxOpenings
    BY <1>2, BoundIsNumber, SMT
  <2> QED BY <1>1, <1>2, <1>3, <2>1 DEF PanelTypeOK
<1>6. PendingAreNumbered'
  <2>1. \A g \in pending' : g.opening <= openings'
    BY <1>2, <1>3, <1>4, SMT
  <2>2. \A g \in pending', h \in pending' : g.opening = h.opening => g = h
    BY <1>2, <1>3, <1>4, SMT DEF Safe, PendingAreNumbered
  <2>3. \A g \in pending' : g.opening = openings' => g.board = panel'.title
    BY <1>1, <1>2, <1>3, <1>4, SMT
  <2> QED BY <2>1, <2>2, <2>3 DEF PendingAreNumbered
<1>7. OpeningIsClean'
  BY <1>1, <1>2, <1>3 DEF OpeningIsClean
<1>8. openings' # 0
  BY <1>2, SMT
<1> QED BY <1>5, <1>6, <1>7, <1>8 DEF Safe

\* A step that changes at most whether the panel is open.
LEMMA SamePanelSafe ==
  ASSUME Safe, panel' \in Panels, UNCHANGED <<pending, openings, late>>,
         panel'.open => panel.open,
         panel'.title = panel.title, panel'.loading = panel.loading,
         panel'.error = panel.error, panel'.shown = panel.shown,
         panel'.content = panel.content
  PROVE  Safe'
<1>1. PanelTypeOK'
  BY DEF Safe, PanelTypeOK
<1>2. PendingAreNumbered' /\ OpeningIsClean'
  BY DEF Safe, PendingAreNumbered, OpeningIsClean
<1> QED BY <1>1, <1>2 DEF Safe

\* The answer to a fetch: to the last opening, or one that is late.
LEMMA SettleSafe ==
  ASSUME Safe, NEW f \in pending, Settle(f), panel' \in Panels,
         panel'.open = panel.open, panel'.title = panel.title, ~panel'.loading,
         \/ panel'.error = panel.error /\ panel'.shown /\ panel'.content = f.board
         \/ panel'.error /\ panel'.shown = panel.shown /\ panel'.content = panel.content
  PROVE  Safe'
<1>1. pending' = pending \ {f} /\ late' = (late \/ f.opening < openings) /\ openings' = openings
  BY DEF Settle
<1>2. PanelTypeOK'
  <2>1. late' \in BOOLEAN
    BY <1>1 DEF Safe, PanelTypeOK
  <2>2. f.board \in Boards
    BY SMT DEF Safe, PanelTypeOK, PanelFetches
  <2> QED BY <1>1, <2>1, <2>2 DEF Safe, PanelTypeOK
<1>3. PendingAreNumbered'
  BY <1>1 DEF Safe, PendingAreNumbered
<1>4. OpeningIsClean'
  <2> SUFFICES ASSUME openings > 0, ~late' PROVE OpeningIsClean'
    BY <1>1 DEF OpeningIsClean
  <2>1. ~late /\ ~(f.opening < openings)
    BY <1>1
  <2>2. f.opening \in Int /\ f.opening <= openings /\ openings \in Int
    BY SMT DEF Safe, PanelTypeOK, PendingAreNumbered, PanelFetches
  <2>3. f.opening = openings
    BY <2>1, <2>2, SMT
  <2>4. panel.loading /\ ~panel.shown /\ ~panel.error
    BY <2>1, <2>3 DEF Safe, OpeningIsClean
  <2>5. f.board = panel.title
    BY <2>3 DEF Safe, PendingAreNumbered
  <2>6. ~ \E g \in pending' : g.opening = openings'
    BY <1>1, <2>3 DEF Safe, PendingAreNumbered
  <2> QED BY <2>4, <2>5, <2>6 DEF OpeningIsClean
<1> QED BY <1>1, <1>2, <1>3, <1>4 DEF Safe

\* Every step keeps Safe.
LEMMA StepSafe == Safe /\ [Next]_vars => Safe'
<1> SUFFICES ASSUME Safe, [Next]_vars PROVE Safe'
  OBVIOUS
<1>0. panel \in Panels
  BY DEF Safe, PanelTypeOK
<1>1. CASE UNCHANGED <<panel, pending, openings, late>>
  BY <1>0, <1>1, SamePanelSafe
<1>2. CASE closeModal
  BY <1>0, <1>2, ClosedPanel, SamePanelSafe DEF closeModal
<1>3. CASE Reload
  <2>1. Loaded'
    BY <1>3 DEF Reload, Loaded
  <2> QED BY <2>1, LoadedSafe, PTL
<1>4. ASSUME NEW b \in Boards, openSummary(b) PROVE Safe'
  BY <1>4, OpenSafe
<1>5. ASSUME NEW f \in pending, renderSummary(f) PROVE Safe'
  <2>1. f.board \in Boards
    BY SMT DEF Safe, PanelTypeOK, PanelFetches
  <2> QED BY <1>0, <1>5, <2>1, RenderedPanel, SettleSafe DEF renderSummary
<1>6. ASSUME NEW f \in pending, FetchFails(f) PROVE Safe'
  BY <1>0, <1>6, FailedPanel, SettleSafe DEF FetchFails
<1>7. ASSUME panel.shown, NEW p \in Offered(panel.page, IssuePages(panel.content)),
             issuesGoPage(p)
      PROVE  Safe'
  <2>1. IssuePages(panel.content) \in Int
    <3>1. IssueCount[panel.content] \in Nat /\ PerPage \in Nat \ {0}
      BY <1>7, PageAssumption DEF Safe, PanelTypeOK
    <3>2. \A a \in Nat, b \in Nat \ {0} : CeilDiv(a, b) \in Int
      BY SMT DEF CeilDiv
    <3> QED BY <3>1, <3>2, SMT DEF IssuePages, TotalPages
  <2>2. p \in Int
    BY <2>1, SMT DEF Offered, pagesToShow
  <2> QED BY <1>0, <1>7, <2>2, TurnedPanel, SamePanelSafe DEF issuesGoPage
<1> QED
  BY <1>1, <1>2, <1>3, <1>4, <1>5, <1>6, <1>7
  DEF Next, vars, DOMContentLoaded, setType, setSprint, Search, applyFilters, changePageSize, goPage

\* The panel shows another board's summary than its title says, or an error and
\* a summary together, or stops waiting for its own fetch, only after a late
\* answer to an earlier opening.
THEOREM PanelIsClean == Spec => []PanelIsMixedOnlyByLateAnswer
<1>1. Init => Safe
  BY LoadedSafe DEF Init, Loaded
<1>2. Safe => PanelIsMixedOnlyByLateAnswer
  <2>1. Safe /\ panel.open => openings > 0
    BY SMT DEF Safe, PanelTypeOK
  <2> QED BY <2>1 DEF Safe, OpeningIsClean, PanelIsMixedOnlyByLateAnswer
<1> QED BY <1>1, StepSafe, <1>2, PTL DEF Spec

-----------------------------------------------------------------------------
(***************************************************************************)
(* Numbers and pages                                                       *)
(***************************************************************************)
\* A set of numbers that is not empty has a least one.
LEMMA LeastNat ==
  ASSUME NEW T \in SUBSET Nat, T # {}
  PROVE  \E n \in T : \A m \in T : n <= m
<1>1. \E n \in T : \A m \in T : ~ (<<m, n>> \in OpToRel(<,Nat))
  BY NatLessThanWellFounded, WFMin
<1>2. ASSUME NEW n \in T, NEW m \in T, ~ (<<m, n>> \in OpToRel(<,Nat)) PROVE n <= m
  BY <1>2 DEF OpToRel
<1> QED BY <1>1, <1>2

\* A finite set of numbers has a greatest one.
LEMMA Greatest ==
  ASSUME NEW S \in SUBSET Nat, IsFiniteSet(S), S # {}
  PROVE  \E m \in S : \A x \in S : x <= m
<1> DEFINE Above(b) == {x \in S : x > b}
           Counts == {Cardinality(Above(b)) : b \in S}
<1>1. \A b \in S : IsFiniteSet(Above(b)) /\ Cardinality(Above(b)) \in Nat
  BY FS_Subset, FS_CardinalityType
<1>2. PICK n \in Counts : \A m \in Counts : n <= m
  <2>1. Counts \in SUBSET Nat /\ Counts # {}
    BY <1>1
  <2> QED BY <2>1, LeastNat
<1>3. PICK b \in S : n = Cardinality(Above(b))
  OBVIOUS
<1>4. ASSUME NEW c \in Above(b) PROVE FALSE
  <2>1. Above(c) \subseteq Above(b) /\ c \notin Above(c)
    <3>1. b \in Nat /\ c \in Nat /\ c > b /\ ~(c > c)
      BY SMT
    <3>2. \A x \in S : x > c => x > b
      BY <3>1, SMT
    <3> QED BY <3>1, <3>2
  <2>2. Cardinality(Above(c)) <= Cardinality(Above(b)) /\ Cardinality(Above(c)) # Cardinality(Above(b))
    BY <1>1, <2>1, FS_Subset
  <2>3. c \in S
    OBVIOUS
  <2>4. n <= Cardinality(Above(c))
    BY <1>2, <2>3
  <2> QED BY <1>1, <1>3, <2>2, <2>3, <2>4, SMT
<1> QED BY <1>4, SMT

\* In a finite set of numbers, every position is taken.
LEMMA PositionTaken ==
  ASSUME NEW S \in SUBSET Nat, IsFiniteSet(S), NEW n \in Nat, n < Cardinality(S)
  PROVE  \E b \in S : Position(b, S) = n
<1> DEFINE Below(b) == {c \in S : c < b}
<1>1. \A b \in S : IsFiniteSet(Below(b)) /\ Position(b, S) = Cardinality(Below(b)) /\ Position(b, S) \in Nat
  BY FS_Subset, FS_CardinalityType DEF Position
<1>2. ASSUME NEW D \in SUBSET S, IsFiniteSet(D), Cardinality(D) > n, \A d \in D : Below(d) \subseteq D
      PROVE  \E d \in D : Position(d, S) = Cardinality(D) - 1
  <2>1. D # {}
    BY <1>2, FS_EmptySet, SMT
  <2>2. PICK d \in D : \A x \in D : x <= d
    BY <1>2, <2>1, Greatest
  <2>3. Below(d) = D \ {d}
    <3>1. \A x \in Below(d) : x \in D /\ x # d
      BY <1>2, SMT
    <3>2. \A x \in D \ {d} : x \in Below(d)
      BY <2>2, SMT
    <3> QED BY <3>1, <3>2
  <2> HIDE DEF Below
  <2> QED BY <1>1, <1>2, <2>3, FS_RemoveElement
<1> DEFINE T == {b \in S : Position(b, S) >= n}
<1>3. T # {}
  <2>1. \E d \in S : Position(d, S) = Cardinality(S) - 1
    BY <1>2
  <2> QED BY <2>1, FS_CardinalityType, SMT
<1>4. PICK b \in T : \A m \in T : b <= m
  BY <1>3, LeastNat
<1>5. ASSUME Position(b, S) > n PROVE FALSE
  <2>1. Cardinality(Below(b)) > n /\ IsFiniteSet(Below(b))
    BY <1>1, <1>5
  <2>2. \A d \in Below(b) : Below(d) \subseteq Below(b)
    <3>1. \A d \in S, x \in S : d < b /\ x < d => x < b
      BY SMT
    <3> QED BY <3>1
  <2>3. PICK d \in Below(b) : Position(d, S) = Cardinality(Below(b)) - 1
    BY <1>2, <2>1, <2>2
  <2>4. Position(d, S) >= n
    BY <1>1, <2>1, <2>3, SMT
  <2> QED BY <1>4, <2>4, SMT
<1>6. b \in S /\ Position(b, S) \in Nat /\ Position(b, S) >= n
  BY <1>1
<1> QED BY <1>5, <1>6, SMT

\* Division upwards.
LEMMA CeilDivFacts ==
  ASSUME NEW a \in Nat, NEW b \in Nat \ {0}
  PROVE  /\ CeilDiv(a, b) \in Nat
         /\ (CeilDiv(a, b) - 1) * b < a + (IF a = 0 THEN 1 ELSE 0)
         /\ a <= CeilDiv(a, b) * b
         /\ a > 0 => CeilDiv(a, b) > 0
BY SMT DEF CeilDiv

\* Every number below the total is on a page, and every page has one.
LEMMA OnSomePage ==
  ASSUME NEW total \in Nat, NEW size \in Nat \ {0}
  PROVE  /\ TotalPages(total, size) \in Nat \ {0}
         /\ \A n \in Nat : n < total => \E p \in 1..TotalPages(total, size) : OnPage(n, p, size)
         /\ total > 0 => \A p \in 1..TotalPages(total, size) :
              /\ (p - 1) * size \in Nat /\ (p - 1) * size < total
              /\ OnPage((p - 1) * size, p, size)
<1> DEFINE q == CeilDiv(total, size)
<1>1. q \in Nat /\ total <= q * size /\ (total > 0 => q > 0 /\ (q - 1) * size < total)
  BY CeilDivFacts
<1>2. TotalPages(total, size) = IF total = 0 THEN 1 ELSE q
  BY DEF TotalPages
<1> HIDE DEF q
<1>3. ASSUME NEW n \in Nat, n < total PROVE \E p \in 1..q : OnPage(n, p, size)
  <2> DEFINE p == CeilDiv(n + 1, size)
  <2>1. p \in Nat /\ p > 0 /\ (p - 1) * size < n + 1 /\ n + 1 <= p * size
    BY CeilDivFacts
  <2> HIDE DEF p
  <2>2. (p - 1) * size < q * size
    BY <1>1, <1>3, <2>1, SMT
  <2>3. p - 1 < q
    BY <1>1, <2>1, <2>2, SMT
  <2>4. OnPage(n, p, size)
    BY <2>1, SMT DEF OnPage
  <2> QED BY <1>1, <2>1, <2>3, <2>4, SMT
<1>4. ASSUME total > 0, NEW p \in 1..q
      PROVE  (p - 1) * size \in Nat /\ (p - 1) * size < total /\ OnPage((p - 1) * size, p, size)
  <2>1. (p - 1) * size \in Nat
    BY <1>4, SMT
  <2>2. (p - 1) * size <= (q - 1) * size
    BY <1>1, <1>4, SMT
  <2>3. (p - 1) * size < p * size
    BY <1>4, SMT
  <2> QED BY <1>1, <1>4, <2>1, <2>2, <2>3, SMT DEF OnPage
<1> QED BY <1>1, <1>2, <1>3, <1>4, SMT

\* One more click.
Click(X, total) == X \cup UNION {Offered(p, total) : p \in X}

\* What n clicks lead to, as Reachable computes it.
Reaching(g, current, total, n) ==
  g = [i \in 0..n |-> IF i = 0 THEN {current} ELSE Click(g[i - 1], total)]

\* There is such a function.
LEMMA ReachingExists ==
  ASSUME NEW current, NEW total, NEW n \in Nat
  PROVE  \E g : Reaching(g, current, total, n)
<1> DEFINE T == {k \in Nat : ~ \E g : Reaching(g, current, total, k)}
<1> SUFFICES ASSUME T # {} PROVE FALSE
  OBVIOUS
<1>1. PICK k \in T : \A m \in T : k <= m
  BY LeastNat
<1>2. CASE k = 0
  <2> DEFINE g == [i \in 0..0 |-> {current}]
  <2>1. Reaching(g, current, total, 0)
    BY SMT DEF Reaching
  <2> QED BY <1>2, <2>1
<1>3. CASE k # 0
  <2>1. k - 1 \in Nat /\ ~(k <= k - 1)
    BY <1>3, SMT
  <2>2. PICK g : Reaching(g, current, total, k - 1)
    BY <1>1, <2>1
  <2> DEFINE h == [i \in 0..k |-> IF i = k THEN Click(g[k - 1], total) ELSE g[i]]
  <2>3. \A i \in 0..(k - 1) : g[i] = IF i = 0 THEN {current} ELSE Click(g[i - 1], total)
    BY <2>2 DEF Reaching
  <2>4. ASSUME NEW i \in 0..k
        PROVE  h[i] = IF i = 0 THEN {current} ELSE Click(h[i - 1], total)
    <3>1. CASE i = k
      <4>1. h[i - 1] = g[k - 1]
        BY <3>1, <2>1, SMT
      <4> QED BY <3>1, <4>1, <1>3
    <3>2. CASE i # k
      <4>1. i \in 0..(k - 1) /\ (i # 0 => i - 1 \in 0..k /\ i - 1 # k)
        BY <3>2, SMT
      <4>2. h[i] = g[i] /\ (i # 0 => h[i - 1] = g[i - 1])
        BY <3>2, <4>1
      <4> QED BY <2>3, <4>1, <4>2
    <3> QED BY <3>1, <3>2
  <2>5. Reaching(h, current, total, k)
    <3>1. h = [i \in 0..k |-> h[i]]
      OBVIOUS
    <3> HIDE DEF h
    <3> QED BY <2>4, <3>1 DEF Reaching
  <2> QED BY <2>5
<1> QED BY <1>2, <1>3

\* Reachable is its last value.
LEMMA ReachableIs ==
  ASSUME NEW current, NEW total \in Nat
  PROVE  \E g : Reaching(g, current, total, total) /\ Reachable(current, total) = g[total]
<1> DEFINE r == CHOOSE g : Reaching(g, current, total, total)
<1>1. Reaching(r, current, total, total)
  BY ReachingExists
<1>2. Reachable(current, total) = r[total]
  BY DEF Reachable, Reaching, Click
<1> QED BY <1>1, <1>2

\* The buttons lead from any page to any other.
LEMMA PagesAreConnected ==
  ASSUME NEW total \in Nat, NEW current \in 1..total, NEW p \in 1..total
  PROVE  p \in Reachable(current, total)
<1> DEFINE Near(n) == {q \in 1..total : q - current <= n /\ current - q <= n}
<1>1. PICK g : Reaching(g, current, total, total) /\ Reachable(current, total) = g[total]
  BY ReachableIs
<1>2. g[0] = {current} /\ \A n \in 1..total : g[n] = Click(g[n - 1], total)
  BY <1>1, SMT DEF Reaching
<1> DEFINE T == {n \in 0..total : ~(Near(n) \subseteq g[n])}
<1>3. ASSUME T # {} PROVE FALSE
  <2>1. T \in SUBSET Nat
    BY SMT
  <2>2. PICK k \in T : \A m \in T : k <= m
    BY <1>3, <2>1, LeastNat
  <2>3. k # 0
    <3>1. Near(0) = {current}
      BY SMT
    <3> QED BY <1>2, <3>1
  <2>4. k \in 1..total /\ k - 1 \in 0..total /\ ~(k <= k - 1)
    BY <2>3, SMT
  <2>5. Near(k - 1) \subseteq g[k - 1]
    BY <2>2, <2>4
  <2>6. ASSUME NEW q \in Near(k) PROVE q \in g[k]
    <3>1. CASE q \in Near(k - 1)
      BY <1>2, <2>4, <2>5, <3>1 DEF Click
    <3>2. CASE q \notin Near(k - 1)
      <4>1. PICK x \in Near(k - 1) : q \in {x - 1, x + 1}
        <5>1. CASE q > current
          <6>1. q - 1 \in Near(k - 1) /\ q = (q - 1) + 1
            BY <2>4, <5>1, SMT
          <6> QED BY <6>1
        <5>2. CASE q < current
          <6>1. q + 1 \in Near(k - 1) /\ q = (q + 1) - 1
            BY <2>4, <5>2, SMT
          <6> QED BY <6>1
        <5>3. CASE q = current
          BY <2>4, <3>2, <5>3, SMT
        <5> QED BY <5>1, <5>2, <5>3, SMT
      <4>2. q \in Offered(x, total)
        <5>1. total > 1 /\ q \in 1..total /\ q # x
          BY <4>1, SMT
        <5> QED BY <4>1, <5>1 DEF Offered
      <4> QED BY <1>2, <2>4, <2>5, <4>1, <4>2 DEF Click
    <3> QED BY <3>1, <3>2
  <2> QED BY <2>2, <2>6
<1>4. p \in Near(total) /\ total \in 0..total
  BY SMT
<1> QED BY <1>1, <1>3, <1>4

-----------------------------------------------------------------------------
(***************************************************************************)
(* The list of cards                                                       *)
(***************************************************************************)
Filters == [type : Types, sprint : Sprints, text : Queries]

\* The page that is shown exists, and the cards displayed are those on it.
ListIsPaged ==
  /\ filters \in Filters /\ filtered \subseteq Boards
  /\ pager.size \in Sizes /\ pager.page \in 1..TotalPages(Cardinality(filtered), pager.size)
  /\ ready => filtered = Matching(filters) /\ visible = Slice(filtered, pager.page, pager.size)
  /\ ~ready => filtered = {}

\* So does the page of the issues in the panel.
PanelIsPaged ==
  panel.shown => panel.content \in Boards /\ panel.page \in 1..IssuePages(panel.content)

\* What matches is finite, and its pages can be counted.
LEMMA CardsCounted ==
  ASSUME NEW S \in SUBSET Boards, NEW size \in Sizes
  PROVE  /\ S \in SUBSET Nat /\ IsFiniteSet(S) /\ Cardinality(S) \in Nat
         /\ size \in Nat \ {0} /\ TotalPages(Cardinality(S), size) \in Nat \ {0}
<1>1. S \in SUBSET Nat /\ IsFiniteSet(S) /\ Cardinality(S) \in Nat
  BY PageAssumption, FS_Subset, FS_CardinalityType
<1>2. size \in Nat \ {0}
  BY PageAssumption
<1> QED BY <1>1, <1>2, OnSomePage

\* The page size that is selected at first is one of those offered.
LEMMA SmallestSize == DefaultSize \in Sizes
<1>1. Sizes \in SUBSET Nat /\ Sizes # {}
  BY PageAssumption
<1>2. \E n \in Sizes : \A m \in Sizes : n <= m
  BY <1>1, LeastNat
<1> QED BY <1>2 DEF DefaultSize

\* Only buttons for pages that exist are offered.
LEMMA OfferedExists ==
  ASSUME NEW total \in Nat \ {0}, NEW current \in Int, NEW p \in Offered(current, total)
  PROVE  p \in 1..total
BY SMT DEF Offered, pagesToShow

\* Rendering shows a page of the cards that match.
LEMMA RenderPaged ==
  ASSUME NEW cards \in SUBSET Boards, NEW before \in SUBSET cards, NEW asked \in Nat \ {0}, NEW size \in Sizes,
         Render(cards, before, asked, size)
  PROVE  /\ filtered' = cards /\ pager'.size = size
         /\ pager'.page \in 1..TotalPages(Cardinality(cards), size)
         /\ visible' = Slice(cards, pager'.page, size)
<1> DEFINE total == TotalPages(Cardinality(cards), size)
           shown == IF asked > total THEN total ELSE asked
<1>1. filtered' = cards /\ pager' = [page |-> shown, size |-> size]
      /\ visible' = (before \ cards) \cup Slice(cards, shown, size)
  BY DEF Render
<1>2. total \in Nat \ {0}
  BY CardsCounted
<1> HIDE DEF total
<1>3. shown \in 1..total
  BY <1>2, SMT
<1> HIDE DEF shown
<1> QED BY <1>1, <1>3 DEF total

\* The filters let through only boards.
LEMMA MatchingBoards ==
  ASSUME NEW f \in Filters
  PROVE  Matching(f) \in SUBSET Boards
BY PageAssumption DEF Matching, Filters

\* Applying filters shows a page of what matches them.
LEMMA FilterPaged ==
  ASSUME ListIsPaged, NEW f \in Filters, applyFilters(f)
  PROVE  ListIsPaged'
<1>1. pager.size \in Sizes /\ Matching(f) \in SUBSET Boards /\ 1 \in Nat \ {0}
  BY MatchingBoards DEF ListIsPaged
<1>2. /\ filtered' = Matching(f) /\ pager'.size = pager.size
      /\ pager'.page \in 1..TotalPages(Cardinality(Matching(f)), pager.size)
      /\ visible' = Slice(Matching(f), pager'.page, pager.size)
      /\ ready' = TRUE /\ filters' = f /\ sprint' = sprint
  BY <1>1, RenderPaged DEF applyFilters
<1>3. Matching(f)' = Matching(f)
  BY <1>2 DEF Matching
<1> QED BY <1>1, <1>2, <1>3 DEF ListIsPaged, Matching

\* Another page, or another page size, of the same cards.
LEMMA TurnPaged ==
  ASSUME ListIsPaged, NEW asked \in Nat \ {0}, NEW size \in Sizes, Render(filtered, visible, asked, size),
         UNCHANGED <<ready, sprint, filters>>
  PROVE  ListIsPaged'
<1>1. CASE ready
  <2>1. filtered \in SUBSET Boards /\ visible \in SUBSET filtered
    BY <1>1 DEF ListIsPaged, Slice
  <2>2. /\ filtered' = filtered /\ pager'.size = size
        /\ pager'.page \in 1..TotalPages(Cardinality(filtered), size)
        /\ visible' = Slice(filtered, pager'.page, size)
    BY <2>1, RenderPaged
  <2> QED BY <1>1, <2>2 DEF ListIsPaged, Matching
<1>2. CASE ~ready
  <2>1. filtered' = filtered /\ filtered = {} /\ filtered \in SUBSET Boards
    BY <1>2 DEF ListIsPaged, Render
  <2>2. pager'.size = size /\ pager'.page \in 1..TotalPages(Cardinality(filtered), size)
    <3> DEFINE total == TotalPages(Cardinality(filtered), size)
               shown == IF asked > total THEN total ELSE asked
    <3>1. pager' = [page |-> shown, size |-> size]
      BY DEF Render
    <3>2. total \in Nat \ {0}
      BY <2>1, CardsCounted
    <3> HIDE DEF total
    <3>3. shown \in 1..total
      BY <3>2, SMT
    <3> HIDE DEF shown
    <3> QED BY <3>1, <3>3 DEF total
  <2> QED BY <1>2, <2>1, <2>2 DEF ListIsPaged
<1> QED BY <1>1, <1>2

\* A page that has just been loaded has nothing to show yet.
LEMMA LoadedPaged ==
  ASSUME ready = FALSE, filtered = {}, filters = Defaults, pager = [page |-> 1, size |-> DefaultSize]
  PROVE  ListIsPaged
<1>1. Defaults \in Filters
  BY PageAssumption DEF Defaults, Filters, Types, Sprints
<1>2. TotalPages(Cardinality({}), DefaultSize) \in Nat \ {0} /\ DefaultSize \in Sizes
  BY CardsCounted, SmallestSize
<1>3. 1 \in 1..TotalPages(Cardinality({}), DefaultSize)
  BY <1>2, SMT
<1> QED BY <1>1, <1>2, <1>3 DEF ListIsPaged

\* The list stays paged, whatever is clicked.
LEMMA ListStep == ListIsPaged /\ [Next]_vars => ListIsPaged'
<1> SUFFICES ASSUME ListIsPaged, [Next]_vars PROVE ListIsPaged'
  OBVIOUS
<1>1. CASE UNCHANGED <<ready, sprint, filters, pager, filtered, visible>>
  BY <1>1 DEF ListIsPaged, Matching
<1>2. ASSUME NEW f \in Filters, applyFilters(f) PROVE ListIsPaged'
  BY <1>2, FilterPaged
<1>3. CASE DOMContentLoaded
  BY <1>2, <1>3 DEF DOMContentLoaded, ListIsPaged
<1>4. ASSUME NEW t \in Types, setType(t) PROVE ListIsPaged'
  <2>1. [filters EXCEPT !.type = t] \in Filters
    BY DEF ListIsPaged, Filters
  <2> QED BY <1>2, <1>4, <2>1 DEF setType
<1>5. ASSUME NEW s \in Sprints, setSprint(s) PROVE ListIsPaged'
  <2>1. [filters EXCEPT !.sprint = s] \in Filters
    BY DEF ListIsPaged, Filters
  <2> QED BY <1>2, <1>5, <2>1 DEF setSprint
<1>6. ASSUME NEW query \in Queries, Search(query) PROVE ListIsPaged'
  <2>1. [filters EXCEPT !.text = query] \in Filters
    BY DEF ListIsPaged, Filters
  <2> QED BY <1>2, <1>6, <2>1 DEF Search
<1>7. ASSUME NEW size \in Sizes, changePageSize(size) PROVE ListIsPaged'
  BY <1>7, TurnPaged DEF changePageSize
<1>8. ASSUME NEW p \in Offered(pager.page, TotalPages(Cardinality(filtered), pager.size)), goPage(p)
      PROVE  ListIsPaged'
  <2>1. pager.size \in Sizes /\ TotalPages(Cardinality(filtered), pager.size) \in Nat \ {0} /\ pager.page \in Int
    BY CardsCounted DEF ListIsPaged
  <2>2. p \in Nat \ {0}
    BY <2>1, OfferedExists, SMT
  <2> QED BY <1>8, <2>1, <2>2, TurnPaged DEF goPage
<1>9. CASE Reload
  <2>1. ready' = FALSE /\ filtered' = {} /\ filters' = Defaults /\ pager' = [page |-> 1, size |-> DefaultSize]
    BY <1>9 DEF Reload
  <2>2. (ready = FALSE /\ filtered = {} /\ filters = Defaults /\ pager = [page |-> 1, size |-> DefaultSize]
           => ListIsPaged)'
    BY LoadedPaged, PTL
  <2> QED BY <2>1, <2>2
<1> QED
  BY <1>1, <1>3, <1>4, <1>5, <1>6, <1>7, <1>8, <1>9
  DEF Next, vars, list, closeModal, openSummary, renderSummary, FetchFails, Settle, issuesGoPage

\* Only whole pages of issues are counted.
LEMMA IssuesCounted ==
  ASSUME NEW b \in Boards
  PROVE  IssueCount[b] \in Nat /\ PerPage \in Nat \ {0} /\ IssuePages(b) \in Nat \ {0}
<1>1. IssueCount[b] \in Nat /\ PerPage \in Nat \ {0}
  BY PageAssumption
<1> QED BY <1>1, OnSomePage DEF IssuePages

\* The panel stays on a page of the issues it shows.
LEMMA PanelStep == Safe /\ PanelIsPaged /\ [Next]_vars => PanelIsPaged'
<1> SUFFICES ASSUME Safe, PanelIsPaged, [Next]_vars PROVE PanelIsPaged'
  OBVIOUS
<1>0. panel \in Panels /\ pending \subseteq PanelFetches
  BY DEF Safe, PanelTypeOK
<1>1. ASSUME panel'.shown = panel.shown, panel'.content = panel.content, panel'.page = panel.page
      PROVE  PanelIsPaged'
  BY <1>1 DEF PanelIsPaged, IssuePages
<1>2. CASE UNCHANGED panel
  BY <1>1, <1>2
<1>3. CASE closeModal
  BY <1>0, <1>1, <1>3, ClosedPanel DEF closeModal
<1>4. CASE Reload
  BY <1>4 DEF Reload, NoPanel, PanelIsPaged
<1>5. ASSUME NEW b \in Boards, openSummary(b) PROVE PanelIsPaged'
  BY <1>0, <1>5, OpenedPanel DEF openSummary, PanelIsPaged
<1>6. ASSUME NEW f \in pending, renderSummary(f) PROVE PanelIsPaged'
  <2>1. f.board \in Boards
    BY <1>0, SMT DEF PanelFetches
  <2>2. panel'.content = f.board /\ panel'.page = 1
    BY <1>0, <1>6, <2>1, RenderedPanel DEF renderSummary
  <2>3. 1 \in 1..IssuePages(f.board)
    BY <2>1, IssuesCounted, SMT
  <2> QED BY <2>1, <2>2, <2>3 DEF PanelIsPaged, IssuePages
<1>7. ASSUME NEW f \in pending, FetchFails(f) PROVE PanelIsPaged'
  BY <1>0, <1>1, <1>7, FailedPanel DEF FetchFails
<1>8. ASSUME panel.shown, NEW p \in Offered(panel.page, IssuePages(panel.content)),
             issuesGoPage(p)
      PROVE  PanelIsPaged'
  <2>1. panel.content \in Boards /\ panel.page \in 1..IssuePages(panel.content)
    BY <1>8 DEF PanelIsPaged
  <2>2. IssuePages(panel.content) \in Nat \ {0}
    BY <2>1, IssuesCounted
  <2>3. p \in 1..IssuePages(panel.content) /\ p \in Int
    BY <2>1, <2>2, OfferedExists, SMT
  <2>4. panel'.content = panel.content /\ panel'.page = p
    BY <1>0, <1>8, <2>3, TurnedPanel DEF issuesGoPage
  <2> QED BY <2>1, <2>3, <2>4 DEF PanelIsPaged, IssuePages
<1> QED
  BY <1>2, <1>3, <1>4, <1>5, <1>6, <1>7, <1>8
  DEF Next, vars, DOMContentLoaded, setType, setSprint, Search, applyFilters, changePageSize, goPage

\* What is displayed is a page of what matches, and not an empty one.
LEMMA ListHolds == ListIsPaged => ListShowsItsFilters
<1> SUFFICES ASSUME ListIsPaged, ready PROVE ListShowsItsFilters
  BY DEF ListShowsItsFilters
<1> DEFINE n == (pager.page - 1) * pager.size
<1>1. /\ filtered = Matching(filters) /\ visible = Slice(filtered, pager.page, pager.size)
      /\ filtered \in SUBSET Boards /\ pager.size \in Sizes
      /\ pager.page \in 1..TotalPages(Cardinality(filtered), pager.size)
  BY DEF ListIsPaged
<1>2. /\ filtered \in SUBSET Nat /\ IsFiniteSet(filtered) /\ Cardinality(filtered) \in Nat
      /\ pager.size \in Nat \ {0}
  BY <1>1, CardsCounted
<1>3. ASSUME filtered # {} PROVE visible # {}
  <2>1. Cardinality(filtered) > 0
    BY <1>2, <1>3, FS_EmptySet, SMT
  <2>2. n \in Nat /\ n < Cardinality(filtered) /\ OnPage(n, pager.page, pager.size)
    BY <1>1, <1>2, <2>1, OnSomePage
  <2>3. PICK b \in filtered : Position(b, filtered) = n
    BY <1>2, <2>2, PositionTaken
  <2> QED BY <1>1, <2>2, <2>3 DEF Slice
<1> QED BY <1>1, <1>3 DEF ListShowsItsFilters, Matching

\* A board is at a position below the number of boards.
LEMMA PositionBelow ==
  ASSUME NEW S \in SUBSET Nat, IsFiniteSet(S), NEW b \in S
  PROVE  Position(b, S) \in Nat /\ Position(b, S) < Cardinality(S)
<1>1. {c \in S : c < b} \in SUBSET (S \ {b})
  BY SMT
<1>2. IsFiniteSet(S \ {b}) /\ Cardinality(S \ {b}) = Cardinality(S) - 1 /\ Cardinality(S) \in Nat
  BY FS_RemoveElement, FS_CardinalityType
<1>3. /\ IsFiniteSet({c \in S : c < b})
      /\ Cardinality({c \in S : c < b}) <= Cardinality(S \ {b})
  BY <1>1, <1>2, FS_Subset
<1>4. Cardinality({c \in S : c < b}) \in Nat
  BY <1>3, FS_CardinalityType
<1> QED BY <1>2, <1>3, <1>4, SMT DEF Position

\* Every number below the total is on a page that clicks lead to.
LEMMA SomeClickShows ==
  ASSUME NEW total \in Nat, NEW size \in Nat \ {0}, NEW current \in 1..TotalPages(total, size),
         NEW n \in Nat, n < total
  PROVE  \E p \in Reachable(current, TotalPages(total, size)) : OnPage(n, p, size)
<1>1. PICK p \in 1..TotalPages(total, size) : OnPage(n, p, size)
  BY OnSomePage
<1>2. p \in Reachable(current, TotalPages(total, size))
  BY OnSomePage, PagesAreConnected
<1> QED BY <1>1, <1>2

\* From the page that is shown, clicks lead to everything.
LEMMA EverythingHolds == ListIsPaged /\ PanelIsPaged => EverythingCanBeReached
<1> SUFFICES ASSUME ListIsPaged, PanelIsPaged PROVE EverythingCanBeReached
  OBVIOUS
<1>1. ASSUME NEW b \in filtered
      PROVE  \E p \in Reachable(pager.page, TotalPages(Cardinality(filtered), pager.size)) :
               OnPage(Position(b, filtered), p, pager.size)
  <2>1. /\ filtered \in SUBSET Boards /\ pager.size \in Sizes
        /\ pager.page \in 1..TotalPages(Cardinality(filtered), pager.size)
    BY DEF ListIsPaged
  <2>2. /\ filtered \in SUBSET Nat /\ IsFiniteSet(filtered) /\ Cardinality(filtered) \in Nat
        /\ pager.size \in Nat \ {0}
    BY <2>1, CardsCounted
  <2>3. Position(b, filtered) \in Nat /\ Position(b, filtered) < Cardinality(filtered)
    BY <2>2, PositionBelow
  <2> QED BY <2>1, <2>2, <2>3, SomeClickShows
<1>2. ASSUME panel.shown, NEW n \in 0..(IssueCount[panel.content] - 1)
      PROVE  \E p \in Reachable(panel.page, IssuePages(panel.content)) : OnPage(n, p, PerPage)
  <2>1. panel.content \in Boards /\ panel.page \in 1..IssuePages(panel.content)
    BY <1>2 DEF PanelIsPaged
  <2>2. IssueCount[panel.content] \in Nat /\ PerPage \in Nat \ {0}
    BY <2>1, IssuesCounted
  <2>3. n \in Nat /\ n < IssueCount[panel.content]
    BY <2>2, SMT
  <2> QED BY <2>1, <2>2, <2>3, SomeClickShows DEF IssuePages
<1> QED BY <1>1, <1>2 DEF EverythingCanBeReached

\* A page that has just been loaded.
LEMMA InitPaged == Init => ListIsPaged /\ PanelIsPaged
<1> SUFFICES ASSUME Init PROVE ListIsPaged /\ PanelIsPaged
  OBVIOUS
<1>1. ListIsPaged
  BY LoadedPaged DEF Init
<1>2. PanelIsPaged
  BY DEF Init, NoPanel, PanelIsPaged
<1> QED BY <1>1, <1>2

\* The cards that are displayed are one page of those that match the filters
\* as they are selected, and it is not empty unless nothing matches.
THEOREM ListIsTrue == Spec => []ListShowsItsFilters
<1>1. Init => ListIsPaged
  BY InitPaged
<1> QED BY <1>1, ListStep, ListHolds, PTL DEF Spec

\* From any page, the buttons lead to every board that matches, and in the
\* panel to every issue, however many there are and whatever the page size.
THEOREM EverythingIsReachable == Spec => []EverythingCanBeReached
<1>1. Init => Safe /\ ListIsPaged /\ PanelIsPaged
  BY InitPaged, LoadedSafe DEF Init, Loaded
<1>2. Safe /\ ListIsPaged /\ PanelIsPaged /\ [Next]_vars
        => Safe' /\ ListIsPaged' /\ PanelIsPaged'
  BY StepSafe, ListStep, PanelStep
<1>3. Safe /\ ListIsPaged /\ PanelIsPaged => EverythingCanBeReached
  BY EverythingHolds
<1> QED BY <1>1, <1>2, <1>3, PTL DEF Spec
=============================================================================
