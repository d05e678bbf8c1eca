---------------------------- MODULE ClaudeModal -----------------------------
(***************************************************************************)
(* The dialog on the page of remaining tickets that queues an execution    *)
(* of a ticket at the Claude runner.  Opening it loads the ticket and its  *)
(* executions; the submit button is enabled by what has been loaded.  The  *)
(* page keeps one dialog and one set of variables for all tickets, the     *)
(* answers arrive when they will, and nothing tells an answer for which    *)
(* ticket the dialog is open by then.  The runner is another service that  *)
(* accepts every execution; other tabs and users talk to it as well.       *)
(***************************************************************************)
EXTENDS Naturals, FiniteSets

CONSTANTS
  Tickets,     \* the tickets on the page
  Actionable,  \* those whose description has a What, a How or an Acceptance
  Loads,       \* bound: loads in flight at once
  Posts,       \* bound: submissions in flight at once
  ExecIds,     \* bound: the executions that are ever queued
  None,
  Done         \* an execution that has ended

ASSUME ModalAssumption ==
  /\ Actionable \subseteq Tickets
  /\ None \notin Tickets
  /\ Done \notin Tickets \cup {None}

VARIABLES
  dialog,  \* what the dialog shows, and the variables of the script
  loads,   \* [Loads -> the load of a ticket that the page waits for]
  posts,   \* [Posts -> the submission that the runner or the page works on]
  execs,   \* the runner: [ExecIds -> the ticket it works on, None or Done]
  knows    \* history: what this opening of the dialog has been told

vars == <<dialog, loads, posts, execs, knows>>

\* key: _claudeTicketKey.  detail: the ticket that _claudeTicketDetail, with
\* its repository, belongs to.  fields: that of the description in the DOM.
\* notice: "already in progress".
Shows(open, key, detail, fields, notice, enabled) ==
  [open |-> open, key |-> key, detail |-> detail, fields |-> fields,
   notice |-> notice, enabled |-> enabled]

ClosedDialog == Shows(FALSE, None, None, None, FALSE, TRUE)

\* What a closed dialog keeps for the next opening, which sets the rest.
Settled(d) == IF d.open THEN d ELSE Shows(FALSE, None, None, d.fields, FALSE, TRUE)

\* seen: the active executions in the list that this opening was given, if it
\* was given one.  late: an answer of an earlier opening has changed the
\* dialog since it was opened.
KnowsNothing == [seen |-> {}, late |-> FALSE]

\* to: who waits for an answer - this opening of the dialog, the page that
\* opened it since for another time, or nobody, as the page has been left.
Waiting == {"opening", "page", "nobody"}

Load(key, active, read, to) == [key |-> key, active |-> active, read |-> read, to |-> to]
NoLoad == Load(None, {}, FALSE, "nobody")
NoPost == [state |-> "none", key |-> None, repo |-> None, prompt |-> None,
           knew |-> KnowsNothing, to |-> "nobody"]

Name == Tickets \cup {None}
Dialogs == [open : BOOLEAN, key : Name, detail : Name, fields : Name,
            notice : BOOLEAN, enabled : BOOLEAN]
Knowledge == [seen : SUBSET ExecIds, late : BOOLEAN]
LoadRecord == [key : Name, active : SUBSET ExecIds, read : BOOLEAN, to : Waiting]
PostRecord == [state : {"none", "sent", "queued", "failed"}, key : Name, repo : Name,
               prompt : Name, knew : Knowledge, to : Waiting]

\* The types of the variables.  Answers are for this opening only while the
\* dialog is open, and nobody keeps an answer that nobody waits for.
TypeOK ==
  /\ dialog \in Dialogs
  /\ knows \in Knowledge
  /\ loads \in [Loads -> LoadRecord]
  /\ posts \in [Posts -> PostRecord]
  /\ execs \in [ExecIds -> Name \cup {Done}]
  /\ \A l \in Loads : loads[l].to = "opening" => dialog.open
  /\ \A p \in Posts : /\ posts[p].to = "opening" => dialog.open
                      /\ posts[p].state \in {"queued", "failed"} => posts[p].to # "nobody"

Init ==
  /\ dialog = ClosedDialog
  /\ loads = [l \in Loads |-> NoLoad]
  /\ posts = [p \in Posts |-> NoPost]
  /\ execs = [e \in ExecIds |-> None]
  /\ knows = KnowsNothing

ActiveOf(key) == {e \in ExecIds : execs[e] = key}

\* The answers still to come belong to an opening that is over.
Outlived(waiters) ==
  [w \in DOMAIN waiters |-> IF waiters[w].to = "opening"
                            THEN [waiters[w] EXCEPT !.to = "page"] ELSE waiters[w]]

-----------------------------------------------------------------------------
(***************************************************************************)
(* openClaudeModal: first the dialog, then the answers.                    *)
(***************************************************************************)
\* A mistake to be noticed: the button stays as it is.
OpenEnabled(key, l) ==
  /\ ~dialog.open /\ loads[l] = NoLoad
  /\ dialog' = Shows(TRUE, key, None, dialog.fields, FALSE, dialog.enabled)
  /\ knows' = KnowsNothing
  /\ loads' = [loads EXCEPT ![l] = Load(key, {}, FALSE, "opening")]
  /\ UNCHANGED <<posts, execs>>

\* The fields of the form keep what they held, although they are hidden.
Open(key, l) ==
  /\ ~dialog.open /\ loads[l] = NoLoad
  /\ dialog' = Shows(TRUE, key, None, dialog.fields, FALSE, FALSE)
  /\ knows' = KnowsNothing
  /\ loads' = [loads EXCEPT ![l] = Load(key, {}, FALSE, "opening")]
  /\ UNCHANGED <<posts, execs>>

\* The runner lists the executions of the ticket, or the list fails, which
\* the page takes for an empty one.
List(l, ok) ==
  /\ loads[l].key # None /\ ~loads[l].read
  /\ loads' = [loads EXCEPT ![l] =
       Load(@.key, IF ok THEN ActiveOf(@.key) ELSE {}, TRUE, @.to)]
  /\ UNCHANGED <<dialog, posts, execs, knows>>

\* What the user of an open dialog learns from an answer, whether it belongs
\* here or not.
Learn(to, seen) ==
  knows' = IF ~dialog.open THEN knows
           ELSE IF to = "opening" THEN [knows EXCEPT !.seen = seen]
           ELSE [knows EXCEPT !.late = TRUE]

\* A mistake to be noticed: the list is not looked at.
ShowAll(l) ==
  /\ loads[l].to # "nobody" /\ loads[l].read
  /\ dialog' = Settled(Shows(dialog.open, dialog.key, loads[l].key, loads[l].key,
                             dialog.notice \/ loads[l].active # {}, TRUE))
  /\ Learn(loads[l].to, loads[l].active)
  /\ loads' = [loads EXCEPT ![l] = NoLoad]
  /\ UNCHANGED <<posts, execs>>

\* Both answers are there.  They fill the dialog, whatever it is open for.
Show(l) ==
  /\ loads[l].to # "nobody" /\ loads[l].read
  /\ dialog' = Settled(Shows(dialog.open, dialog.key, loads[l].key, loads[l].key,
                             dialog.notice \/ loads[l].active # {},
                             dialog.enabled \/ loads[l].active = {}))
  /\ Learn(loads[l].to, loads[l].active)
  /\ loads' = [loads EXCEPT ![l] = NoLoad]
  /\ UNCHANGED <<posts, execs>>

\* The ticket cannot be loaded.  If Jira said so, the executions have been
\* looked at first; if the fetch itself failed, they have not.
LoadFails(l) ==
  /\ loads[l].to # "nobody"
  /\ \/ UNCHANGED dialog
     \/ /\ loads[l].read
        /\ dialog' = Settled([dialog EXCEPT !.notice = @ \/ loads[l].active # {}])
  /\ Learn(loads[l].to, knows.seen)
  /\ loads' = [loads EXCEPT ![l] = NoLoad]
  /\ UNCHANGED <<posts, execs>>

Close ==
  /\ dialog.open
  /\ dialog' = Settled([dialog EXCEPT !.open = FALSE])
  /\ knows' = KnowsNothing
  /\ loads' = Outlived(loads)
  /\ posts' = Outlived(posts)
  /\ UNCHANGED execs

-----------------------------------------------------------------------------
(***************************************************************************)
(* submitClaudeRunner and ExecuteClaudeRunner.                             *)
(***************************************************************************)
Request == [state |-> "sent", key |-> dialog.key, repo |-> dialog.detail,
            prompt |-> dialog.fields, knew |-> knows, to |-> "opening"]

\* A mistake to be noticed: the button is left enabled.
SubmitTwice(p) ==
  /\ dialog.open /\ dialog.enabled
  /\ dialog.fields \in Actionable
  /\ posts[p] = NoPost
  /\ posts' = [posts EXCEPT ![p] = Request]
  /\ UNCHANGED <<dialog, loads, execs, knows>>

\* The prompt is parsed from the description in the DOM; without a section
\* nothing happens.
Submit(p) ==
  /\ dialog.open /\ dialog.enabled
  /\ dialog.fields \in Actionable
  /\ posts[p] = NoPost
  /\ dialog' = [dialog EXCEPT !.enabled = FALSE]
  /\ posts' = [posts EXCEPT ![p] = Request]
  /\ UNCHANGED <<loads, execs, knows>>

\* The answer is on its way to the page, or nobody waits for it.
Answer(p, answer) ==
  posts' = [posts EXCEPT ![p] =
    IF posts[p].to = "nobody" THEN NoPost ELSE [posts[p] EXCEPT !.state = answer]]

\* The runner queues the execution, and its answer may still be lost on the
\* way back, or come after the time limit of the proxy.
Accept(p, e, answer) ==
  /\ posts[p].state = "sent" /\ execs[e] = None
  /\ execs' = [execs EXCEPT ![e] = posts[p].key]
  /\ Answer(p, answer)
  /\ UNCHANGED <<dialog, loads, knows>>

\* The handler refuses the submission, or cannot reach the runner.
Reject(p) ==
  /\ posts[p].state = "sent"
  /\ Answer(p, "failed")
  /\ UNCHANGED <<dialog, loads, execs, knows>>

\* The page is left: its variables are lost, the server goes on.
Leaving ==
  /\ dialog' = ClosedDialog
  /\ knows' = KnowsNothing
  /\ loads' = [l \in Loads |-> NoLoad]
  /\ posts' = [p \in Posts |-> IF posts[p].state # "sent" THEN NoPost
                               ELSE [posts[p] EXCEPT !.to = "nobody"]]
  /\ UNCHANGED execs

\* The answer to a submission takes the user to the page of the execution.
Navigate(p) ==
  /\ posts[p].state = "queued"
  /\ Leaving

\* The user leaves or reloads the page.
Leave ==
  /\ dialog # ClosedDialog \/ \E l \in Loads : loads[l] # NoLoad
  /\ Leaving

\* The error is shown and the button enabled, whatever the dialog is open for.
SubmitFails(p) ==
  /\ posts[p].state = "failed"
  /\ dialog' = Settled([dialog EXCEPT !.enabled = TRUE])
  /\ Learn(posts[p].to, knows.seen)
  /\ posts' = [posts EXCEPT ![p] = NoPost]
  /\ UNCHANGED <<loads, execs>>

-----------------------------------------------------------------------------
(***************************************************************************)
(* The runner.                                                             *)
(***************************************************************************)
\* Another tab or user queues an execution.
Elsewhere(key, e) ==
  /\ execs[e] = None
  /\ execs' = [execs EXCEPT ![e] = key]
  /\ UNCHANGED <<dialog, loads, posts, knows>>

\* An execution ends, and does not become active again.
End(e) ==
  /\ execs[e] \in Tickets
  /\ execs' = [execs EXCEPT ![e] = Done]
  /\ UNCHANGED <<dialog, loads, posts, knows>>

Next ==
  \/ \E l \in Loads :
       \/ \E key \in Tickets : Open(key, l)
       \/ \E ok \in BOOLEAN : List(l, ok)
       \/ Show(l) \/ LoadFails(l)
  \/ \E p \in Posts :
       \/ Submit(p) \/ Reject(p) \/ Navigate(p) \/ SubmitFails(p)
       \/ \E e \in ExecIds : Accept(p, e, "queued") \/ Accept(p, e, "failed")
  \/ \E e \in ExecIds : End(e) \/ \E key \in Tickets : Elsewhere(key, e)
  \/ Close \/ Leave

Spec == Init /\ [][Next]_vars

-----------------------------------------------------------------------------
(***************************************************************************)
(* Properties.                                                             *)
(***************************************************************************)
\* An execution is queued with the prompt and the repository of its ticket,
\* unless an answer of an earlier opening came while the dialog was open for
\* that ticket: then they may be those of another one.
MixedOnlyByLateAnswer ==
  \A p \in Posts : posts[p].state = "sent" /\ ~posts[p].knew.late =>
    posts[p].repo = posts[p].key /\ posts[p].prompt = posts[p].key

\* Whoever sees the notice cannot submit, short of an answer that came late:
\* in particular no failed submission brings the button back under a notice.
NoticeBlocks ==
  dialog.open /\ dialog.notice /\ dialog.enabled => knows.late

\* One opening has one submission in flight: a double click sends nothing
\* more, and neither does an answer of this opening enable the button while
\* a submission is out.
OneSubmissionPerOpening ==
  \A p, q \in Posts : posts[p].to = "opening" /\ posts[q].to = "opening" /\ p # q
                        => knows.late

\* A second execution of a ticket is queued while another is active only if
\* the dialog could not know: the other was not in its list, being younger or
\* the list having failed, or an answer came late.
DuplicatesAreExplained ==
  [][\A p \in Posts, e, f \in ExecIds :
       /\ Accept(p, f, "queued") \/ Accept(p, f, "failed")
       /\ e \in ActiveOf(posts[p].key)
       => e \notin posts[p].knew.seen \/ posts[p].knew.late]_vars
=============================================================================
