--------------------------- MODULE GoogleSession ---------------------------
(***************************************************************************)
(* Signing in to the dashboard with Google, in the tabs of one browser.    *)
(* The tabs share two cookies: the state of the sign-in that was begun     *)
(* last, and the session.  Google sends a tab back with the state that it  *)
(* was sent away with; the server keeps nothing.  It compares the state    *)
(* when the callback arrives and asks Google for the account; the cookies  *)
(* of the browser change only when it has answered.                        *)
(***************************************************************************)
EXTENDS FiniteSets

CONSTANTS
  Tabs,    \* tabs of the browser
  States,  \* random states; bound: every sign-in takes a new one
  NoState

ASSUME SessionAssumption == NoState \notin States

VARIABLES
  stateCookie,  \* _jira_state: the state that the next callback must bring
  session,      \* _jira_sess: whether the browser holds a session that is valid
  state,        \* [Tabs -> the state in the URL of the tab's sign-in, or NoState]
  at,           \* [Tabs -> what the tab shows or waits for]
  begun,        \* history: the states that have been handed out
  newest,       \* history: the last of them
  accepted,     \* history: those that a callback has been answered for
  expired,      \* history: those whose cookie reached its ten minutes
  crossed,      \* history: those handed out while a callback was waiting
  overlapped    \* history: tabs waiting with a state that was accepted meanwhile

cookies == <<stateCookie, session>>
signIns == <<begun, newest, expired, crossed>>
answers == <<accepted, overlapped>>
sessionVars == <<cookies, state, at, signIns, answers>>

SessionInit ==
  /\ stateCookie = NoState /\ session = FALSE
  /\ state = [t \in Tabs |-> NoState]
  /\ at = [t \in Tabs |-> "login"]
  /\ begun = {} /\ newest = NoState /\ expired = {} /\ crossed = {}
  /\ accepted = {} /\ overlapped = {}

Waiting == {t \in Tabs : at[t] = "callback"}

-----------------------------------------------------------------------------
\* Any page behind the SessionMiddleware: without a session the tab is sent to
\* the login page, and a session that is not valid is cleared.  A tab that was
\* waiting for the answer to its callback gives it up.
SessionMiddleware(t) ==
  /\ at' = [at EXCEPT ![t] = IF session THEN "page" ELSE "login"]
  /\ overlapped' = overlapped \ {t}
  /\ UNCHANGED <<cookies, state, signIns, accepted>>

\* GoogleLogin: a new state, in the cookie and in the URL.
GoogleLogin(t) ==
  /\ at[t] = "login"
  /\ \E s \in States \ begun :
       /\ stateCookie' = s
       /\ state' = [state EXCEPT ![t] = s]
       /\ begun' = begun \cup {s} /\ newest' = s
       /\ crossed' = IF Waiting = {} THEN crossed ELSE crossed \cup {s}
  /\ at' = [at EXCEPT ![t] = "google"]
  /\ UNCHANGED <<session, expired, answers>>

\* A mistake to be noticed: the cookie is cleared before it is compared.
CallbackClearsFirst(t, u) ==
  /\ state[u] # NoState
  /\ state' = [state EXCEPT ![t] = state[u]]
  /\ at' = [at EXCEPT ![t] = IF state[u] = stateCookie THEN "callback" ELSE "refused"]
  /\ stateCookie' = IF state[u] = stateCookie THEN stateCookie ELSE NoState
  /\ overlapped' = overlapped \ {t}
  /\ UNCHANGED <<session, signIns, accepted>>

\* GoogleCallback, up to the state, when tab t loads the URL of its sign-in or
\* that of another tab's, for the first time or again.  A state that does not
\* match is refused; with one that does the request goes on to Google.
GoogleCallback(t, u) ==
  /\ state[u] # NoState
  /\ state' = [state EXCEPT ![t] = state[u]]
  /\ at' = [at EXCEPT ![t] = IF state[u] = stateCookie THEN "callback" ELSE "refused"]
  /\ overlapped' = overlapped \ {t}
  /\ UNCHANGED <<cookies, signIns, accepted>>

\* A mistake to be noticed: the cookie stays.
CallbackKeeps(t, outcome) ==
  /\ t \in Waiting
  /\ session' = (session \/ outcome = "page")
  /\ at' = [at EXCEPT ![t] = outcome]
  /\ accepted' = accepted \cup {state[t]}
  /\ overlapped' = (overlapped \cup {u \in Waiting : state[u] = state[t]}) \ {t}
  /\ UNCHANGED <<stateCookie, state, signIns>>

\* GoogleCallback, after Google: with a token and a profile of the domain the
\* tab gets a session and the page, and otherwise an error.  Either answer
\* clears the state cookie, whatever state is in it by now.  Google is not part
\* of this: it may say either, for the same URL again too.
CallbackReturns(t, outcome) ==
  /\ t \in Waiting
  /\ stateCookie' = NoState
  /\ session' = (session \/ outcome = "page")
  /\ at' = [at EXCEPT ![t] = outcome]
  /\ accepted' = accepted \cup {state[t]}
  /\ overlapped' = (overlapped \cup {u \in Waiting : state[u] = state[t]}) \ {t}
  /\ UNCHANGED <<state, signIns>>

\* GoogleLogout ends the session of all tabs; the others notice it with their
\* next request.
GoogleLogout(t) ==
  /\ at[t] = "page"
  /\ session' = FALSE
  /\ at' = [at EXCEPT ![t] = "login"]
  /\ UNCHANGED <<stateCookie, state, signIns, answers>>

\* Ten minutes after GoogleLogin, and eight hours after the callback.
StateExpires ==
  /\ stateCookie # NoState
  /\ stateCookie' = NoState
  /\ expired' = expired \cup {stateCookie}
  /\ UNCHANGED <<session, state, at, begun, newest, crossed, answers>>

SessionExpires ==
  /\ session
  /\ session' = FALSE
  /\ UNCHANGED <<stateCookie, state, at, signIns, answers>>

SessionNext ==
  \/ \E t \in Tabs :
       \/ SessionMiddleware(t) \/ GoogleLogin(t) \/ GoogleLogout(t)
       \/ \E u \in Tabs : GoogleCallback(t, u)
       \/ \E outcome \in {"page", "failed"} : CallbackReturns(t, outcome)
  \/ StateExpires \/ SessionExpires

-----------------------------------------------------------------------------
(***************************************************************************)
(* Properties.                                                             *)
(***************************************************************************)
\* The types of the variables; what has been accepted or has expired was begun.
\* A tab is refused as "invalid state", or has failed at Google.
SessionTypeOK ==
  /\ stateCookie \in States \cup {NoState} /\ session \in BOOLEAN
  /\ state \in [Tabs -> States \cup {NoState}]
  /\ at \in [Tabs -> {"login", "google", "callback", "page", "refused", "failed"}]
  /\ newest \in States \cup {NoState}
  /\ begun \subseteq States /\ accepted \subseteq begun /\ expired \subseteq begun
  /\ crossed \subseteq begun /\ overlapped \subseteq Tabs

\* A session begins only for a callback that came with a state that none has
\* been answered for: loading the URL of a callback again later signs nobody
\* in, whatever happened in between and in which tab.  The exception are two
\* loads of one URL that wait for Google at the same time: both have passed the
\* comparison, and it is left to Google to refuse the second.
SignInCountsOnce ==
  [][session' /\ ~session =>
       \E t \in Waiting : state[t] \notin accepted \/ t \in overlapped]_sessionVars

\* A tab is refused as "invalid state" only when its state has been used, when
\* its ten minutes have passed, when some tab has begun another sign-in since,
\* or when it was begun while a callback was waiting, whose answer clears the
\* cookie: never for a refusal or a logout of another tab, nor for an answer
\* that came before the sign-in was begun.
RefusalIsExplained ==
  [][\A t \in Tabs : at'[t] = "refused" /\ <<at'[t], state'[t]>> # <<at[t], state[t]>> =>
       state'[t] # newest \/ state'[t] \in accepted \cup expired \cup crossed]_sessionVars
=============================================================================
