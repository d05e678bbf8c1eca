--------------------------- MODULE ExecutionPages ---------------------------
(***************************************************************************)
(* The pages that show executions of the Claude runner: the page of one    *)
(* execution, which asks for its data and opens the stream of its logs at  *)
(* once, and the page of a ticket, which lists its executions and streams  *)
(* the one that is selected.  The server passes on what the runner sends.  *)
(* One page is open at a time, in one tab.                                 *)
(***************************************************************************)
EXTENDS Naturals, SequencesExt

CONSTANTS
  Executions,  \* 1..n, in the order in which they are created
  MaxWire,     \* bound: events of a stream that are on their way at once
  None

Statuses == {"pending", "running", "done", "failed"}

ASSUME ExecutionAssumption ==
  /\ Executions \subseteq Nat /\ None \notin Executions /\ None \notin Statuses
  /\ MaxWire \in Nat \ {0}

VARIABLES
  status,   \* runner: [Executions -> the status, None before it is created]
  page,     \* the page that is open
  selected, \* the execution that it shows, or None
  fetch,    \* its request for data: the step it is at, and the answer
  cached,   \* allExecutions: [Executions -> the status in the list]
  badge,    \* what the badge says, of which execution, and who said it
  text,     \* the line above the log
  dot,      \* whether the sign of a live stream is shown
  conn,     \* [Executions -> the readyState of its EventSource]
  wire,     \* [Executions -> events of its stream that are on their way]
  sent      \* [Executions -> the status that its stream has told last]

view == <<page, selected, fetch, cached, badge, text, dot>>
stream == <<conn, wire, sent>>
pageVars == <<status, view, stream>>

Final == {"done", "failed"}
Rank(s) == IF s \in Final THEN 2 ELSE IF s = "running" THEN 1 ELSE 0

Nothing == [e \in Executions |-> None]
Existing(snapshot) == {e \in Executions : snapshot[e] # None}
NoFetch == [step |-> "none", answer |-> Nothing]
Arrived == {"answered", "refused", "failed"}
Asked == [step |-> "asked", answer |-> Nothing]
\* setStatus: what the badge says, and by whom.
Badge(e, s, who) == [of |-> e, status |-> s, by |-> who]
NoBadge == Badge(None, None, "nobody")

PagesInit ==
  /\ status = Nothing
  /\ page = "none" /\ selected = None
  /\ fetch = NoFetch /\ cached = Nothing
  /\ badge = NoBadge /\ text = "" /\ dot = FALSE
  /\ conn = [e \in Executions |-> "closed"]
  /\ wire = [e \in Executions |-> <<>>]
  /\ sent = Nothing

-----------------------------------------------------------------------------
\* The runner creates an execution and works on it.
Work(e) ==
  /\ \/ status[e] = None /\ (\A d \in Executions : d < e => status[d] # None)
        /\ status' = [status EXCEPT ![e] = "pending"]
     \/ status[e] = "pending" /\ status' = [status EXCEPT ![e] = "running"]
     \/ status[e] = "running" /\ \E s \in Final : status' = [status EXCEPT ![e] = s]
  /\ UNCHANGED <<view, stream>>

\* A mistake to be noticed: the source that was open is not closed.
OpenAnother(e) ==
  /\ conn' = [conn EXCEPT ![e] = "connecting"]
  /\ wire' = [wire EXCEPT ![e] = <<>>]
  /\ sent' = [sent EXCEPT ![e] = None]

\* A new EventSource for e; the one of the execution that was selected, the
\* currentSource, is closed.
OpenStream(e) ==
  /\ conn' = [d \in Executions |-> IF d = e THEN "connecting"
                                  ELSE IF d = selected THEN "closed" ELSE conn[d]]
  /\ wire' = [d \in Executions |-> IF d \in {e, selected} THEN <<>> ELSE wire[d]]
  /\ sent' = [d \in Executions |-> IF d \in {e, selected} THEN None ELSE sent[d]]

NoStream ==
  /\ conn' = [e \in Executions |-> "closed"]
  /\ wire' = [e \in Executions |-> <<>>]
  /\ sent' = Nothing

\* A page is opened, or left: the browser forgets it all.  Loading a page again
\* is to leave it and to open it.
Open(kind, e) ==
  /\ page' = kind /\ selected' = e
  /\ cached' = Nothing /\ badge' = NoBadge /\ dot' = FALSE
  /\ UNCHANGED status

OpenDetail(e) ==
  /\ page = "none" /\ status[e] # None
  /\ Open("detail", e) /\ fetch' = Asked /\ text' = "Connecting"
  /\ OpenStream(e)

OpenTicket ==
  /\ page = "none"
  /\ Open("ticket", None) /\ fetch' = Asked /\ text' = ""
  /\ NoStream

Leave ==
  /\ page # "none"
  /\ Open("none", None) /\ fetch' = NoFetch /\ text' = ""
  /\ NoStream

-----------------------------------------------------------------------------
(***************************************************************************)
(* The request for data.                                                   *)
(***************************************************************************)
\* The server answers with what the runner has now, or with an error when the
\* runner cannot be reached; without a session the request ends at the login
\* page, which is nothing that the script can read.
Answer(allowed) ==
  /\ fetch.step = "asked"
  /\ \/ allowed /\ fetch' = [step |-> "answered", answer |-> status]
     \/ allowed /\ fetch' = [step |-> "refused", answer |-> Nothing]
     \/ fetch' = [step |-> "failed", answer |-> Nothing]
  /\ UNCHANGED <<status, page, selected, cached, badge, text, dot, stream>>

GetExecutionData(allowed) == page = "detail" /\ Answer(allowed)
ListExecutions(allowed) == page = "ticket" /\ Answer(allowed)

\* loadMeta: the answer is written into the badge whenever it comes; an error
\* is an answer without a status.
MetaArrives ==
  /\ page = "detail" /\ fetch.step \in Arrived
  /\ fetch' = NoFetch
  /\ IF fetch.step = "failed"
     THEN badge' = badge /\ text' = "no data"
     ELSE badge' = Badge(selected, fetch.answer[selected], "answer") /\ text' = text
  /\ UNCHANGED <<status, page, selected, cached, dot, stream>>

\* loadExecution: the badge is taken from the list; the sign of the stream
\* that was open stays until the new one says something.
loadExecution(e, known) ==
  /\ selected' = e
  /\ badge' = Badge(e, known[e], "list") /\ text' = "Connecting"
  /\ OpenStream(e)

\* init: the newest execution is selected; an error, and a list without
\* executions, are both "No executions found".
ListArrives ==
  LET known == Existing(fetch.answer)
  IN /\ page = "ticket" /\ fetch.step \in Arrived
     /\ fetch' = NoFetch
     /\ cached' = fetch.answer
     /\ IF known = {}
        THEN text' = "no executions" /\ UNCHANGED <<selected, badge, stream>>
        ELSE \E e \in known : (\A d \in known : d <= e) /\ loadExecution(e, fetch.answer)
     /\ UNCHANGED <<status, page, dot>>

Select(e) ==
  /\ page = "ticket" /\ cached[e] # None /\ e # selected
  /\ loadExecution(e, cached)
  /\ UNCHANGED <<status, page, fetch, cached, dot>>

-----------------------------------------------------------------------------
(***************************************************************************)
(* The stream: StreamExecutionLogs, and the handlers of the EventSource.   *)
(***************************************************************************)
\* The session is looked at when the stream is opened, and never again.
Connect(e, allowed) ==
  /\ conn[e] = "connecting" /\ allowed
  /\ conn' = [conn EXCEPT ![e] = "open"]
  /\ UNCHANGED <<status, view, wire, sent>>

\* The runner tells every change of the status, and the output in between.
Tell(e) ==
  /\ conn[e] = "open" /\ Len(wire[e]) < MaxWire /\ status[e] # sent[e]
  /\ wire' = [wire EXCEPT ![e] = Append(@, status[e])]
  /\ sent' = [sent EXCEPT ![e] = status[e]]
  /\ UNCHANGED <<status, view, conn>>

Output(e) ==
  /\ conn[e] = "open" /\ Len(wire[e]) < MaxWire /\ sent[e] = "running" /\ status[e] = "running"
  /\ wire' = [wire EXCEPT ![e] = Append(@, "log")]
  /\ UNCHANGED <<status, view, conn, sent>>

Close(e) ==
  /\ conn' = [conn EXCEPT ![e] = "closed"]
  /\ wire' = [wire EXCEPT ![e] = <<>>]
  /\ sent' = [sent EXCEPT ![e] = None]

Take(e, n) ==
  /\ wire' = [wire EXCEPT ![e] = RemoveAt(@, n)]
  /\ dot' = TRUE /\ text' = "Streaming"
  /\ UNCHANGED <<conn, sent>>

\* A mistake to be noticed: the source is closed after "done" only.
HandleDoneOnly(e, n) ==
  LET event == wire[e][n]
  IN /\ conn[e] = "open" /\ n \in DOMAIN wire[e]
     /\ badge' = IF event = "log" THEN badge ELSE Badge(e, event, "stream")
     /\ IF event = "done" THEN Close(e) /\ dot' = FALSE /\ text' = event ELSE Take(e, n)
     /\ UNCHANGED <<status, page, selected, fetch, cached>>

\* The listeners of the events "log" and "status", for the n-th on its way.
Handle(e, n) ==
  LET event == wire[e][n]
  IN /\ conn[e] = "open" /\ n \in DOMAIN wire[e]
     /\ badge' = IF event = "log" THEN badge ELSE Badge(e, event, "stream")
     /\ IF event \in Final THEN Close(e) /\ dot' = FALSE /\ text' = event ELSE Take(e, n)
     /\ UNCHANGED <<status, page, selected, fetch, cached>>

\* A mistake to be noticed: events overtake each other.
DeliverAny(e) == \E n \in 1..MaxWire : Handle(e, n)
Deliver(e) == Handle(e, 1)

\* onerror: the session is gone, the runner cannot be reached, or its stream
\* ends or breaks.  The source is closed, so it never connects again.
Break(e) ==
  /\ conn[e] # "closed"
  /\ Close(e)
  /\ dot' = FALSE /\ text' = "Ended"
  /\ UNCHANGED <<status, page, selected, fetch, cached, badge>>

PagesNext ==
  \/ \E e \in Executions : Work(e) \/ Select(e) \/ Tell(e) \/ Output(e) \/ Deliver(e) \/ Break(e)
  \/ Leave \/ MetaArrives \/ ListArrives

-----------------------------------------------------------------------------
(***************************************************************************)
(* Properties.                                                             *)
(***************************************************************************)
\* The types of the variables.
PagesTypeOK ==
  /\ status \in [Executions -> Statuses \cup {None}]
  /\ page \in {"none", "detail", "ticket"} /\ selected \in Executions \cup {None}
  /\ fetch \in [step : {"none", "asked"} \cup Arrived,
                answer : [Executions -> Statuses \cup {None}]]
  /\ cached \in [Executions -> Statuses \cup {None}]
  /\ badge \in [of : Executions \cup {None}, status : Statuses \cup {None},
               by : {"nobody", "answer", "list", "stream"}]
  /\ text \in Final \cup {"", "Connecting", "Streaming", "Ended", "no data", "no executions"}
  /\ dot \in BOOLEAN
  /\ conn \in [Executions -> {"closed", "connecting", "open"}]
  /\ wire \in [Executions -> Seq(Statuses \cup {"log"})]
  /\ sent \in [Executions -> Statuses \cup {None}]

\* However often another execution is selected: only the one that is selected
\* has a stream, what the badge says was said of it, and the sign of a live
\* stream is shown only while there is one.
OnlyTheSelectedStreams ==
  /\ \A e \in Executions : conn[e] # "closed" => e = selected
  /\ badge # NoBadge => badge.of = selected
  /\ dot => \E e \in Executions : conn[e] # "closed"

\* While one execution is shown its badge never goes back to an earlier status,
\* except on the page of one execution, where the answer and the stream come by
\* two connections and the older of them may come last.
BadgeGoesBackOnlyWhenTheyCross ==
  [][page' = page /\ selected' = selected /\ NoBadge \notin {badge, badge'} =>
       \/ Rank(badge'.status) >= Rank(badge.status)
       \/ page = "detail" /\ {badge.by, badge'.by} = {"answer", "stream"}]_pageVars

\* The stream of an execution that has ended is closed in the end, even when the
\* session has ended meanwhile.
StreamsEnd ==
  \A e \in Executions :
    conn[e] # "closed" /\ status[e] \in Final ~> conn[e] = "closed"
=============================================================================
