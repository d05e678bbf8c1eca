---------------------------- MODULE BoardSummary ----------------------------
(***************************************************************************)
(* The requests that page through a list of Jira.  GetBoardSummary asks    *)
(* which sprint runs, then fetches the issues of the sprint page by page   *)
(* in one goroutine while two more ask for its totals, and joins them;     *)
(* GetBoardStoryPoints adds up the points of the same issues, and GetBoards*)
(* lists the boards, both in one goroutine.  People work on the list in    *)
(* Jira meanwhile.                                                         *)
(***************************************************************************)
EXTENDS Naturals, Sequences, FiniteSets, SequencesExt

CONSTANTS
  Issues,    \* the issues that may come into the sprint
  PageSize,  \* how many issues Jira serves at most for one request
  MaxEdits   \* bound: changes of the sprint while the request runs

ASSUME BoardAssumption ==
  /\ IsFiniteSet(Issues)
  /\ PageSize \in Nat \ {0}
  /\ MaxEdits \in Nat

VARIABLES
  request, \* what is asked: "summary", "points" or "boards"
  sprint,  \* Jira: the issues, or the boards, in the order Jira lists them
  closed,  \* Jira: those whose status category is Done
  pc,      \* [Goroutines -> the next step]
  wg,      \* [{"summary", "stats"} -> counter of the WaitGroup]
  fetched, \* startAt and allIssues of the fetching goroutine
  stats,   \* the two answers of GetSprintStats
  failed,  \* the goroutines to which Jira gave an error
  summary, \* the BoardSummary; of the other two, what was added up or listed
  began,   \* history: sprint when its pages began to be fetched
  edits    \* history: what has been done to the sprint since

jira == <<sprint, closed>>
summaryVars == <<request, jira, pc, wg, fetched, stats, failed, summary, began, edits>>

Goroutines == {"main", "issues", "stats", "total", "done"}
Requests == {"summary", "points", "boards"}
PC == {"off", "board", "active", "future", "fork", "wait", "page", "total", "join", "ended"}

\* An issue as it is served: whether it counts as done in StatusStats.
Served == [issue : Issues, done : BOOLEAN]
Serve(s) == [n \in DOMAIN s |-> [issue |-> s[n], done |-> s[n] \in closed]]

\* What Jira answers to startAt; it serves no more than PageSize issues.
ServedAt(startAt) ==
  Serve(SubSeq(sprint, startAt + 1, Min({startAt + PageSize, Len(sprint)})))

Count(s) == Cardinality({n \in DOMAIN s : s[n].done})
Listed(s) == {s[n].issue : n \in DOMAIN s}
NoStats == [total |-> 0, done |-> 0]

SummaryInit ==
  /\ request \in Requests
  /\ \E S \in SUBSET Issues : sprint \in SetToSeqs(S)
  /\ closed \in SUBSET Range(sprint)
  /\ pc = [g \in Goroutines |-> IF g # "main" THEN "off" ELSE IF request = "boards" THEN "fork" ELSE "board"]
  /\ wg = [summary |-> 0, stats |-> 0]
  /\ fetched = [startAt |-> 0, all |-> <<>>]
  /\ stats = NoStats /\ failed = {}
  /\ summary = [scope |-> "board", issues |-> <<>>, total |-> 0, stats |-> NoStats]
  /\ began = <<>>
  /\ edits = [added |-> 0, removed |-> 0, closed |-> 0]

-----------------------------------------------------------------------------
Goto(g, from, to) == pc[g] = from /\ pc' = [pc EXCEPT ![g] = to]

Ends(g, group) == /\ pc' = [pc EXCEPT ![g] = "ended"]
                  /\ wg' = [wg EXCEPT ![group] = @ - 1]

\* The next page, and all of the pages with it.
Page == ServedAt(fetched.startAt)
All == fetched.all \o Page
Complete == Len(All) >= Len(sprint) \/ Page = <<>>

\* The goroutine that pages: for a summary it is one of its own.
Pager == IF request = "summary" THEN "issues" ELSE "main"

PagerEnds ==
  IF request = "summary" THEN Ends("issues", "summary") ELSE Goto("main", "page", "ended") /\ UNCHANGED wg

\* Only a summary says how many there are.
PageArrives(next, last, shown) ==
  /\ pc[Pager] = "page"
  /\ fetched' = [startAt |-> next, all |-> All]
  /\ summary' = [summary EXCEPT !.total = IF request = "summary" THEN Len(sprint) ELSE @,
                                !.issues = IF last THEN shown ELSE @]
  /\ IF last THEN PagerEnds ELSE UNCHANGED <<pc, wg>>
  /\ UNCHANGED <<request, jira, stats, failed, began, edits>>

StartGoroutines(count) ==
  /\ pc["main"] = "fork" /\ request = "summary"
  /\ pc' = [pc EXCEPT !["main"] = "wait", !["issues"] = "page",
                      !["stats"] = IF summary.scope = "sprint" THEN "fork" ELSE "off"]
  /\ wg' = [wg EXCEPT !.summary = count]
  /\ began' = sprint
  /\ UNCHANGED <<request, jira, fetched, stats, failed, summary, edits>>

-----------------------------------------------------------------------------
(***************************************************************************)
(* Mistakes that the properties must notice; the specification uses none.  *)
(***************************************************************************)
FetchPageShowLast == PageArrives(fetched.startAt + Len(Page), Complete, Page)
FetchPageStopEarly ==
  PageArrives(fetched.startAt + Len(Page), Complete \/ Len(All) + 1 >= Len(sprint), All)
ForkCountsIssuesOnly == StartGoroutines(1)
FailWithoutDone ==
  /\ pc[Pager] = "page"
  /\ pc' = [pc EXCEPT ![Pager] = "ended"]
  /\ failed' = failed \cup {"issues"}
  /\ UNCHANGED <<request, jira, wg, fetched, stats, summary, began, edits>>

-----------------------------------------------------------------------------
\* The board itself, and whether it has sprints at all.
FetchBoard ==
  /\ \/ Goto("main", "board", "active")
     \/ Goto("main", "board", "fork")
  /\ UNCHANGED <<request, jira, wg, fetched, stats, failed, summary, began, edits>>

FetchBoardFails ==
  /\ Goto("main", "board", "ended")
  /\ failed' = failed \cup {"main"}
  /\ UNCHANGED <<request, jira, wg, fetched, stats, summary, began, edits>>

\* The active sprint, and if there is none, or Jira fails, the last future one.
FetchActiveSprint ==
  /\ \/ Goto("main", "active", "fork") /\ summary' = [summary EXCEPT !.scope = "sprint"]
     \/ Goto("main", "active", "future") /\ UNCHANGED summary
  /\ UNCHANGED <<request, jira, wg, fetched, stats, failed, began, edits>>

FetchFutureSprint ==
  /\ Goto("main", "future", "fork")
  /\ \E scope \in {"sprint", "board"} : summary' = [summary EXCEPT !.scope = scope]
  /\ UNCHANGED <<request, jira, wg, fetched, stats, failed, began, edits>>

Fork == StartGoroutines(IF summary.scope = "sprint" THEN 2 ELSE 1)

\* The other two requests page in the goroutine that asked for the sprint.
StartPaging ==
  /\ request # "summary" /\ Goto("main", "fork", "page")
  /\ began' = sprint
  /\ UNCHANGED <<request, jira, wg, fetched, stats, failed, summary, edits>>

\* TotalIssues is overwritten by each page, Issues set by the last.
FetchPage == PageArrives(fetched.startAt + Len(Page), Complete, All)

\* A summary drops the error, and with it the pages that were fetched; the
\* other requests return it.
FetchPageFails ==
  /\ pc[Pager] = "page"
  /\ failed' = failed \cup {Pager}
  /\ PagerEnds
  /\ UNCHANGED <<request, jira, fetched, stats, summary, began, edits>>

-----------------------------------------------------------------------------
\* GetSprintStats
ForkStats ==
  /\ pc["stats"] = "fork"
  /\ pc' = [pc EXCEPT !["stats"] = "wait", !["total"] = "total", !["done"] = "total"]
  /\ wg' = [wg EXCEPT !.stats = 2]
  /\ UNCHANGED <<request, jira, fetched, stats, failed, summary, began, edits>>

FetchTotal ==
  /\ pc["total"] = "total"
  /\ stats' = [stats EXCEPT !.total = Len(sprint)]
  /\ Ends("total", "stats")
  /\ UNCHANGED <<request, jira, fetched, failed, summary, began, edits>>

FetchDone ==
  /\ pc["done"] = "total"
  /\ stats' = [stats EXCEPT !.done = Cardinality(closed)]
  /\ Ends("done", "stats")
  /\ UNCHANGED <<request, jira, fetched, failed, summary, began, edits>>

\* totalErr: GetSprintStats returns it, and nothing is shown.
FetchTotalFails ==
  /\ pc["total"] = "total"
  /\ failed' = failed \cup {"total"}
  /\ Ends("total", "stats")
  /\ UNCHANGED <<request, jira, fetched, stats, summary, began, edits>>

\* doneErr: the answer is taken for zero.
FetchDoneFails ==
  /\ pc["done"] = "total"
  /\ failed' = failed \cup {"done"}
  /\ Ends("done", "stats")
  /\ UNCHANGED <<request, jira, fetched, stats, summary, began, edits>>

JoinStats ==
  /\ pc["stats"] = "wait"
  /\ wg.stats = 0
  /\ summary' = IF "total" \in failed THEN summary ELSE [summary EXCEPT !.stats = stats]
  /\ Ends("stats", "summary")
  /\ UNCHANGED <<request, jira, fetched, stats, failed, began, edits>>

Join ==
  /\ wg.summary = 0
  /\ Goto("main", "wait", "ended")
  /\ UNCHANGED <<request, jira, wg, fetched, stats, failed, summary, began, edits>>

-----------------------------------------------------------------------------
(***************************************************************************)
(* Jira: people add issues to the sprint, at any rank, take them out, and  *)
(* finish them, while the request runs.                                    *)
(***************************************************************************)
MayEdit == /\ pc["main"] \in {"wait", "page"}
           /\ edits.added + edits.removed + edits.closed < MaxEdits
           /\ UNCHANGED <<request, pc, wg, fetched, stats, failed, summary, began>>

AddIssue(i, n) ==
  /\ MayEdit
  /\ i \notin Range(sprint)
  /\ sprint' = InsertAt(sprint, n, i)
  /\ edits' = [edits EXCEPT !.added = @ + 1]
  /\ UNCHANGED closed

RemoveIssue(n) ==
  /\ MayEdit
  /\ sprint' = RemoveAt(sprint, n)
  /\ closed' = closed \ {sprint[n]}
  /\ edits' = [edits EXCEPT !.removed = @ + 1]

CloseIssue(i) ==
  /\ MayEdit
  /\ i \in Range(sprint) \ closed
  /\ closed' = closed \cup {i}
  /\ edits' = [edits EXCEPT !.closed = @ + 1]
  /\ UNCHANGED sprint

Edit == \/ \E i \in Issues, n \in 1..(Len(sprint) + 1) : AddIssue(i, n)
        \/ \E n \in DOMAIN sprint : RemoveIssue(n)
        \/ \E i \in Issues : CloseIssue(i)

Main == FetchBoard \/ FetchBoardFails \/ FetchActiveSprint \/ FetchFutureSprint \/ Fork \/ StartPaging \/ Join
Paging == FetchPage \/ FetchPageFails
AskTotal == FetchTotal \/ FetchTotalFails
AskDone == FetchDone \/ FetchDoneFails
Stats == ForkStats \/ JoinStats

SummaryNext == Main \/ Paging \/ AskTotal \/ AskDone \/ Stats \/ Edit

\* Go schedules every goroutine that can run, and the client of Jira gives up
\* on a request after ten seconds.
SummaryFairness ==
  /\ WF_summaryVars(Main) /\ WF_summaryVars(Paging) /\ WF_summaryVars(Stats)
  /\ WF_summaryVars(AskTotal) /\ WF_summaryVars(AskDone)

SummarySpec == SummaryInit /\ [][SummaryNext]_summaryVars /\ SummaryFairness

-----------------------------------------------------------------------------
(***************************************************************************)
(* Properties                                                              *)
(***************************************************************************)
\* Every page has come, and the answer is not an error.
Answered == pc["main"] = "ended" /\ failed \cap {"main", "issues"} = {}
Edited == edits.added + edits.removed + edits.closed > 0

\* The types, and WaitGroups that count the goroutines that still run.
SummaryTypeOK ==
  /\ request \in Requests /\ sprint \in Seq(Issues) /\ IsInjective(sprint) /\ closed \subseteq Range(sprint)
  /\ pc \in [Goroutines -> PC]
  /\ fetched.startAt \in Nat /\ fetched.all \in Seq(Served)
  /\ stats \in [total : Nat, done : Nat] /\ failed \subseteq Goroutines
  /\ summary \in [scope : {"sprint", "board"}, issues : Seq(Served), total : Nat,
                  stats : [total : Nat, done : Nat]]
  /\ wg.summary = Cardinality({g \in {"issues", "stats"} : pc[g] \notin {"off", "ended"}})
  /\ wg.stats = Cardinality({g \in {"total", "done"} : pc[g] \notin {"off", "ended"}})

\* No goroutine is left that could write into a summary already returned.
NobodyWritesAfterReturn ==
  pc["main"] = "ended" => \A g \in Goroutines : pc[g] \in {"off", "ended"}

\* If nobody touches the list and the pages arrive, what is shown, or added up,
\* is the list: everything once, in order, whatever the page size; and the
\* number of done issues that two goroutines of a summary found separately is
\* the same.
UndisturbedSummaryIsExact ==
  Answered /\ ~Edited =>
    /\ summary.issues = Serve(sprint)
    /\ request = "summary" => summary.total = Len(sprint)
    /\ request = "summary" /\ summary.scope = "sprint" /\ failed = {} =>
         summary.stats = [total |-> Len(sprint), done |-> Count(summary.issues)]

\* What stays in the list is missed only because others were taken out: each
\* removal shifts at most one over a page boundary; and it is listed, or added
\* up, twice only because others were put in, or it was itself moved.
PagesDriftOnlyByEdits ==
  /\ Answered =>
       Cardinality((Range(began) \cap Range(sprint)) \ Listed(summary.issues)) <= edits.removed
  /\ Len(summary.issues) - Cardinality(Listed(summary.issues)) <= edits.added

\* Every request of the dashboard is answered, whatever fails.
EveryRequestEnds == <>(pc["main"] = "ended")
=============================================================================
