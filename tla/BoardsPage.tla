----------------------------- MODULE BoardsPage -----------------------------
(***************************************************************************)
(* The list of boards in the browser: the server renders one card for each *)
(* board, a script shows the cards that match the filters page by page,    *)
(* and a click on a card opens a panel that fetches the summary of that    *)
(* board.  Closing the panel does not cancel the fetch.                    *)
(***************************************************************************)
EXTENDS Integers, FiniteSets

CONSTANTS
  Boards,       \* the ids of the boards, in the order of their cards
  Type,         \* [Boards -> "scrum" or another type]
  EndsIn,       \* [Boards -> hours to the end of the active sprint, or Nil]
  IssueCount,   \* [Boards -> the number of issues in the summary]
  Queries,      \* texts for the search field, "" among them
  Matches,      \* [Queries -> the boards whose name or id matches]
  Sizes,        \* cards per page, as the selection offers them
  PerPage,      \* issues per page of the panel
  MaxOpenings,  \* bound: how often a panel is opened on one page
  Nil

ASSUME PageAssumption ==
  /\ Boards \subseteq Nat /\ IsFiniteSet(Boards) /\ Nil \notin Int
  /\ EndsIn \in [Boards -> Int \cup {Nil}] /\ IssueCount \in [Boards -> Nat]
  /\ "" \in Queries /\ Matches \in [Queries -> SUBSET Boards]
  /\ Sizes \subseteq Nat \ {0} /\ Sizes # {} /\ PerPage \in Nat \ {0} /\ MaxOpenings \in Nat

VARIABLES
  ready,    \* whether the filters have been applied since the page was loaded
  sprint,   \* [Boards -> data-sprint of the card]
  filters,  \* the selected type and sprint, and the text searched for
  pager,    \* currentPage and pageSize
  filtered, \* filteredCards
  visible,  \* the cards that are displayed
  panel,    \* the panel: what of it is shown, and for which board
  pending,  \* the fetches in flight: the board, and the number of the opening
  openings, \* how often the panel has been opened
  late      \* history: an earlier opening's answer has come since the last one

list == <<ready, sprint, filters, pager, filtered, visible>>
vars == <<list, panel, pending, openings, late>>

Types == {"all", "scrum", "kanban"}
Sprints == {"all", "active", "overdue", "none"}

CeilDiv(a, b) == -((-a) \div b)

\* sprintTimeline: a sprint is overdue when its days left, rounded up, are
\* negative.
Overdue(hours) == CeilDiv(hours, 24) < 0

\* The state of the sprint on a card; a request that fails leaves no sprint.
SprintOf(b, failed) ==
  IF Type[b] # "scrum" \/ b \in failed \/ EndsIn[b] = Nil THEN "none"
  ELSE IF Overdue(EndsIn[b]) THEN "overdue" ELSE "active"

\* Pagination, of the cards and of the issues in the panel alike.  A mistake
\* to be noticed: only full pages are counted.
FullPages(total, size) == IF total < size THEN 1 ELSE total \div size
TotalPages(total, size) == IF total = 0 THEN 1 ELSE CeilDiv(total, size)
pagesToShow(current, total) ==
  {1, total} \cup {p \in 1..total : current - 2 <= p /\ p <= current + 2}
\* The buttons that can be clicked: Prev, the other pages that are shown, Next.
Offered(current, total) ==
  IF total <= 1 THEN {}
  ELSE (pagesToShow(current, total) \cup ({current - 1, current + 1} \cap 1..total)) \ {current}

\* initIssuesPagination, for the issues of a board in the panel.
IssuePages(b) == TotalPages(IssueCount[b], PerPage)

Position(b, S) == Cardinality({c \in S : c < b})
OnPage(n, page, size) == (page - 1) * size <= n /\ n < page * size
Slice(S, page, size) == {b \in S : OnPage(Position(b, S), page, size)}

NoPanel == [open |-> FALSE, title |-> Nil, loading |-> TRUE, error |-> FALSE,
            shown |-> FALSE, content |-> Nil, page |-> 1]

Defaults == [type |-> "scrum", sprint |-> "active", text |-> ""]
DefaultSize == CHOOSE n \in Sizes : \A m \in Sizes : n <= m

\* BoardsView asks for all the sprints at once; any of them can fail.
Init ==
  /\ ready = FALSE /\ filtered = {} /\ visible = Boards
  /\ \E failed \in SUBSET {b \in Boards : Type[b] = "scrum"} :
       sprint = [b \in Boards |-> SprintOf(b, failed)]
  /\ filters = Defaults /\ pager = [page |-> 1, size |-> DefaultSize]
  /\ panel = NoPanel /\ pending = {} /\ openings = 0 /\ late = FALSE

-----------------------------------------------------------------------------
(***************************************************************************)
(* The cards.                                                              *)
(***************************************************************************)
\* renderPage, of the cards that match, over those displayed before.
Render(cards, before, page, size) ==
  LET total == TotalPages(Cardinality(cards), size)
      shown == IF page > total THEN total ELSE page
  IN /\ filtered' = cards
     /\ pager' = [page |-> shown, size |-> size]
     /\ visible' = (before \ cards) \cup Slice(cards, shown, size)

\* The cards that pass the filters.
Matching(f) ==
  {b \in Matches[f.text] : f.type \in {"all", Type[b]} /\ f.sprint \in {"all", sprint[b]}}

\* A mistake to be noticed: the cards that no longer match are not hidden.
FilterOver(f) ==
  /\ ready' = TRUE /\ filters' = f
  /\ Render(Matching(f), visible, 1, pager.size)
  /\ UNCHANGED <<sprint, panel, pending, openings, late>>

\* applyFilters: all cards are hidden, and the first page of the matches shown.
applyFilters(f) ==
  /\ ready' = TRUE /\ filters' = f
  /\ Render(Matching(f), {}, 1, pager.size)
  /\ UNCHANGED <<sprint, panel, pending, openings, late>>

DOMContentLoaded == ~ready /\ applyFilters(filters)
setType(t) == ~panel.open /\ applyFilters([filters EXCEPT !.type = t])
setSprint(s) == ~panel.open /\ applyFilters([filters EXCEPT !.sprint = s])
Search(text) == ~panel.open /\ applyFilters([filters EXCEPT !.text = text])

changePageSize(size) ==
  /\ ~panel.open
  /\ Render(filtered, visible, 1, size)
  /\ UNCHANGED <<ready, sprint, filters, panel, pending, openings, late>>

goPage(p) ==
  /\ ~panel.open
  /\ Render(filtered, visible, p, pager.size)
  /\ UNCHANGED <<ready, sprint, filters, panel, pending, openings, late>>

-----------------------------------------------------------------------------
(***************************************************************************)
(* The panel, which covers the cards while it is open.                     *)
(***************************************************************************)
\* A mistake to be noticed: what the panel showed before stays.
OpenOver(b) ==
  /\ b \in visible /\ ~panel.open /\ openings < MaxOpenings
  /\ panel' = [panel EXCEPT !.open = TRUE, !.title = b, !.loading = TRUE]
  /\ openings' = openings + 1
  /\ pending' = pending \cup {[board |-> b, opening |-> openings + 1]}
  /\ late' = FALSE
  /\ UNCHANGED list

openSummary(b) ==
  /\ b \in visible /\ ~panel.open /\ openings < MaxOpenings
  /\ panel' = [panel EXCEPT !.open = TRUE, !.title = b, !.loading = TRUE,
                            !.error = FALSE, !.shown = FALSE]
  /\ openings' = openings + 1
  /\ pending' = pending \cup {[board |-> b, opening |-> openings + 1]}
  /\ late' = FALSE
  /\ UNCHANGED list

closeModal ==
  /\ panel.open
  /\ panel' = [panel EXCEPT !.open = FALSE]
  /\ UNCHANGED <<list, pending, openings, late>>

Settle(f) ==
  /\ f \in pending
  /\ pending' = pending \ {f}
  /\ late' = (late \/ f.opening < openings)
  /\ UNCHANGED <<list, openings>>

\* renderSummary replaces the content and shows it; it leaves the error alone.
renderSummary(f) ==
  /\ Settle(f)
  /\ panel' = [panel EXCEPT !.loading = FALSE, !.shown = TRUE, !.content = f.board, !.page = 1]

\* A mistake to be noticed: the error is put under the spinner.
FetchFailsSpinning(f) ==
  /\ Settle(f)
  /\ panel' = [panel EXCEPT !.error = TRUE]

\* The catch of the fetch; it leaves the content alone.
FetchFails(f) ==
  /\ Settle(f)
  /\ panel' = [panel EXCEPT !.loading = FALSE, !.error = TRUE]

issuesGoPage(p) ==
  /\ panel' = [panel EXCEPT !.page = p]
  /\ UNCHANGED <<list, pending, openings, late>>

\* The browser loads the page again.
Reload ==
  /\ ready' = FALSE /\ filtered' = {} /\ visible' = Boards
  /\ \E failed \in SUBSET {b \in Boards : Type[b] = "scrum"} :
       sprint' = [b \in Boards |-> SprintOf(b, failed)]
  /\ filters' = Defaults /\ pager' = [page |-> 1, size |-> DefaultSize]
  /\ panel' = NoPanel /\ pending' = {} /\ openings' = 0 /\ late' = FALSE

Next ==
  \/ DOMContentLoaded \/ closeModal \/ Reload
  \/ \E t \in Types : setType(t)
  \/ \E s \in Sprints : setSprint(s)
  \/ \E text \in Queries : Search(text)
  \/ \E size \in Sizes : changePageSize(size)
  \/ \E p \in Offered(pager.page, TotalPages(Cardinality(filtered), pager.size)) : goPage(p)
  \/ \E b \in Boards : openSummary(b)
  \/ \E f \in pending : renderSummary(f) \/ FetchFails(f)
  \/ /\ panel.open /\ panel.shown
     /\ \E p \in Offered(panel.page, IssuePages(panel.content)) :
          issuesGoPage(p)

\* Every fetch is answered in the end, and the page's own handlers run.
Fairness ==
  /\ WF_vars(DOMContentLoaded)
  /\ \A n \in 1..MaxOpenings :
       WF_vars(\E f \in pending : f.opening = n /\ (renderSummary(f) \/ FetchFails(f)))

Spec == Init /\ [][Next]_vars /\ Fairness
-----------------------------------------------------------------------------
(***************************************************************************)
(* Properties.                                                             *)
(***************************************************************************)
\* The types of the variables.
TypeOK ==
  /\ ready \in BOOLEAN /\ late \in BOOLEAN
  /\ sprint \in [Boards -> Sprints \ {"all"}]
  /\ filters \in [type : Types, sprint : Sprints, text : Queries]
  /\ pager.page \in Nat \ {0} /\ pager.size \in Sizes
  /\ filtered \subseteq Boards /\ visible \subseteq Boards
  /\ panel \in [open : BOOLEAN, title : Boards \cup {Nil}, loading : BOOLEAN, error : BOOLEAN,
                shown : BOOLEAN, content : Boards \cup {Nil}, page : Nat \ {0}]
  /\ pending \subseteq [board : Boards, opening : 1..MaxOpenings]
  /\ openings \in 0..MaxOpenings

\* The cards that are displayed are one page of those that match the filters
\* as they are selected, and that page is not empty unless nothing matches.
ListShowsItsFilters ==
  ready =>
    LET matches == {b \in Matches[filters.text] : /\ filters.type \in {"all", Type[b]}
                                                  /\ filters.sprint \in {"all", sprint[b]}}
    IN /\ visible = Slice(matches, pager.page, pager.size)
       /\ matches # {} => visible # {}

\* The pages that can be reached from one by clicking.
Reachable(current, total) ==
  LET reach[n \in 0..total] ==
        IF n = 0 THEN {current}
        ELSE reach[n - 1] \cup UNION {Offered(p, total) : p \in reach[n - 1]}
  IN reach[total]

\* From any page, the buttons that are offered lead to every board that
\* matches, and in the panel to every issue of the summary.
EverythingCanBeReached ==
  /\ ready => \A b \in filtered :
       \E p \in Reachable(pager.page, TotalPages(Cardinality(filtered), pager.size)) :
         OnPage(Position(b, filtered), p, pager.size)
  /\ panel.shown => \A n \in 0..(IssueCount[panel.content] - 1) :
       \E p \in Reachable(panel.page, IssuePages(panel.content)) :
         OnPage(n, p, PerPage)

\* Under the title of one board the panel shows the summary of another one, or
\* an error and a summary together, or nothing to wait for while its own fetch
\* is in flight, only after the answer to an earlier opening has come late.
PanelIsMixedOnlyByLateAnswer ==
  panel.open /\ ~late =>
    /\ panel.shown => panel.content = panel.title
    /\ ~(panel.shown /\ panel.error)
    /\ (\E f \in pending : f.opening = openings) <=> panel.loading

\* A panel that is left open stops waiting.
PanelStopsWaiting ==
  \A n \in 1..MaxOpenings :
    panel.open /\ panel.loading /\ openings = n ~> ~(panel.open /\ panel.loading /\ openings = n)
=============================================================================
