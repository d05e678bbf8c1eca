--------------------------- MODULE MCBoardSummary ---------------------------
(* TLC instance of SprintPages: the first issue has the others as subtasks. *)
(* Its run checks a liveness property and goes without symmetry.            *)
EXTENDS SprintPages

CONSTANT Parent
SubtasksOfParent == [i \in Issues |-> IF i = Parent THEN Issues \ {i} ELSE {}]
=============================================================================
