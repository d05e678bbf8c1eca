---------------------------- MODULE SprintPages -----------------------------
(***************************************************************************)
(* The two pages of the dashboard that show the issues of a board: the     *)
(* server fetches a BoardSummary and renders it at once, so that a page is *)
(* a function of the summary.                                              *)
(***************************************************************************)
EXTENDS BoardSummary

CONSTANT Subtasks  \* [Issues -> the issues that Jira names as its subtasks]

ASSUME PagesAssumption == Subtasks \in [Issues -> SUBSET Issues]

\* The issues that are shown, by their places in the summary, each with those of
\* its subtasks that are shown too.
Nodes(places) ==
  [n \in places |->
     LET issue == summary.issues[n].issue
     IN [issue |-> issue, children |-> Subtasks[issue] \cap {summary.issues[m].issue : m \in places}]]

Everything == DOMAIN summary.issues
Undone == {n \in Everything : ~summary.issues[n].done}
HasMore == summary.total > Len(summary.issues)

\* RemainingView lists what is not done, and says so when there is nothing.
RemainingView == [nodes |-> Nodes(Undone), more |-> HasMore]
EverythingIsDone == RemainingView.nodes = <<>>

\* IssuesView lists everything, and counts.
IssuesView == [nodes |-> Nodes(Everything), more |-> HasMore, done |-> Count(summary.issues)]

\* The panel in the list of boards shows a card of remaining work, unless the
\* summary has no issues, and then no list of issues either.
PanelIsBare == summary.issues = <<>>

\* The head of both pages: the percentage of done issues, of those that Jira
\* counted; nothing when the count is zero.
Progress == IF summary.stats.total = 0 THEN "hidden"
            ELSE IF summary.stats.done = 0 THEN "nothing done" ELSE "some done"

Shown == request = "summary" /\ pc["main"] = "ended" /\ "main" \notin failed

-----------------------------------------------------------------------------
\* Both pages are shown without an error whatever fails after the board was
\* found.  "Everything is done!" is wrong only when a page of issues failed, or
\* about no more issues than were taken out of the sprint, or put back into it
\* unfinished, while it was read, and the panel of a board with issues is bare for
\* no other reason; the head shows nothing done although
\* issues had been finished only when their count failed; and a page says that
\* there is more than it shows only when it shows nothing, a page having failed.
EmptyPageErrsOnlyByFaults ==
  Shown =>
    /\ EverythingIsDone =>
         \/ "issues" \in failed
         \/ Cardinality((Range(began) \cap Range(sprint)) \ closed) <= edits.removed + edits.added
    /\ PanelIsBare =>
         \/ "issues" \in failed
         \/ Cardinality(Range(began) \cap Range(sprint)) <= edits.removed + edits.added
    /\ Progress = "nothing done" =>
         "done" \in failed \/ Cardinality(closed) <= edits.closed
    /\ HasMore => "issues" \in failed /\ IssuesView.nodes = <<>>
=============================================================================
