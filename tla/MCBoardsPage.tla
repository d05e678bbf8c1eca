---------------------------- MODULE MCBoardsPage ----------------------------
(* TLC instance of BoardsPage: four boards, three of them with sprints that *)
(* end, and ended an hour and a day ago, in pages of one or three.          *)
EXTENDS BoardsPage, TLC

MCBoards == 1..4
MCType == 1 :> "scrum" @@ 2 :> "scrum" @@ 3 :> "kanban" @@ 4 :> "scrum"
MCEndsIn == 1 :> 5 @@ 2 :> -1 @@ 3 :> Nil @@ 4 :> -24
MCIssueCount == 1 :> 0 @@ 2 :> 9 @@ 3 :> 1 @@ 4 :> 2
MCQueries == {"", "q"}
MCMatches == "" :> MCBoards @@ "q" :> {1, 3}
=============================================================================
