--------------------------- MODULE SqlStatements ---------------------------
(***************************************************************************)
(* How the body of a migration is cut into statements: line by line, by    *)
(* what a line contains, begins with and ends with.  A line is abstracted  *)
(* to its kind, and a statement to the numbers of the lines it is made of. *)
(***************************************************************************)
EXTENDS Naturals, FiniteSets, Sequences, Functions

CONSTANT MaxLines   \* bound: the length of a body

VARIABLES
  file,  \* the lines of a body that have been read
  cut    \* what splitSQLStatements has made of them: currentStatement,
         \* statements and inBlockComment

\* blank; "-- comment"; SQL without and with a semicolon at its end; a
\* semicolon alone; "/*", "*/" and "/* comment */" alone on a line.
WholeLines == {"blank", "dash", "text", "end", "semi", "open", "close", "both"}
\* SQL in which a quoted text ($$ or ') begins that goes on in the next line;
\* SQL in which such a text ends, without and with a semicolon at its end.
QuotingLines == {"quote", "unquote", "unquoteEnd"}
\* SQL and a comment on one line: "SQL; -- c", "SQL /* c */", "/* c */ SQL;".
MixedLines == {"endDash", "textBoth", "bothEnd"}
Lines == WholeLines \cup QuotingLines \cup MixedLines

Opens(line) == line \in {"open", "both", "textBoth", "bothEnd"}
Closes(line) == line \in {"close", "both", "textBoth", "bothEnd"}
HasSQL(line) == line \in {"text", "end"} \cup QuotingLines \cup MixedLines
HasSemicolon(line) == line \in {"end", "semi", "unquoteEnd", "bothEnd"}

Flush(state) ==
  [state EXCEPT !.current = {},
                !.statements = IF state.current = {} THEN @ ELSE Append(@, state.current)]

Take(state, line) ==
  IF HasSQL(line) THEN [state EXCEPT !.current = @ \cup {Len(file) + 1}] ELSE state

\* A mistake to be noticed: comments within comments are not looked at.
OneLineNaive(state, line) == IF HasSemicolon(line) THEN Flush(Take(state, line)) ELSE Take(state, line)

\* The body of the loop over the lines.
OneLine(state, line) ==
  LET inBlock == (state.inBlock \/ Opens(line)) /\ ~Closes(line)
      skipped == inBlock \/ Closes(line) \/ line \in {"blank", "dash"}
      after == IF skipped THEN state
               ELSE IF HasSemicolon(line) THEN Flush(Take(state, line)) ELSE Take(state, line)
  IN [after EXCEPT !.inBlock = inBlock]

\* The statements of a body that ends here: the last one needs no semicolon.
splitSQLStatements == Flush(cut).statements

NothingYet == [current |-> {}, statements |-> <<>>, inBlock |-> FALSE]
SplitInit == file = <<>> /\ cut = NothingYet

ReadLine(line) ==
  /\ Len(file) < MaxLines
  /\ file' = Append(file, line)
  /\ cut' = OneLine(cut, line)

SplitNext == \E line \in Lines : ReadLine(line)
splitVars == <<file, cut>>
SplitSpec == SplitInit /\ [][SplitNext]_splitVars

-----------------------------------------------------------------------------
(***************************************************************************)
(* What SQL says of such a body: a statement ends at a semicolon, unless   *)
(* the semicolon is in a comment or in a quoted text.                      *)
(***************************************************************************)
\* Line i begins within a comment, within a quoted text.
Commented(lines, i) ==
  \E o \in 1..(i - 1) : lines[o] = "open" /\ \A c \in o..(i - 1) : lines[c] \notin {"close", "both"}
Quoted(lines, i) ==
  \E o \in 1..(i - 1) :
    lines[o] = "quote" /\ \A c \in o..(i - 1) : lines[c] \notin {"unquote", "unquoteEnd"}

IsSQL(lines, i) == HasSQL(lines[i]) /\ ~Commented(lines, i)
Ends(lines, i) ==
  {j \in 1..(i - 1) : /\ lines[j] \in {"end", "semi", "unquoteEnd", "endDash", "bothEnd"}
                      /\ ~Commented(lines, j) /\ ~Quoted(lines, j + 1)}

\* Two lines belong to one statement when no semicolon separates them.
Meaning(lines) ==
  LET sql == {i \in DOMAIN lines : IsSQL(lines, i)}
  IN {{j \in sql : Ends(lines, j) = Ends(lines, i)} : i \in sql}

\* The bodies that this is about: comments do not nest and hold no more than
\* text, a quoted text holds SQL alone and ends only where it has begun.
Regular(lines) ==
  \A i \in DOMAIN lines :
    /\ Commented(lines, i) => lines[i] \in {"blank", "dash", "text", "end", "semi", "close"}
    /\ Quoted(lines, i) => lines[i] \in {"text", "end", "unquote", "unquoteEnd"}
    /\ lines[i] \in {"unquote", "unquoteEnd"} => Quoted(lines, i)

\* Those that the cutter is made for: comments stand on lines of their own, and
\* no line of a quoted text ends in a semicolon.
Plain(lines) ==
  /\ Regular(lines)
  /\ \A i \in DOMAIN lines : /\ lines[i] \notin MixedLines
                             /\ Quoted(lines, i) => lines[i] # "end"

\* The statements that the database gets are those of the file, in their order.
MeaningIsKept ==
  LET statements == splitSQLStatements
  IN /\ Range(statements) = Meaning(file)
     /\ Len(statements) = Cardinality(Meaning(file))
     /\ \A i, j \in DOMAIN statements : i < j =>
          \A a \in statements[i], b \in statements[j] : a < b

\* A plain body reaches the database as the statements that it contains, line
\* for line (line breaks become blanks) and in their order, whatever comments
\* and quoted texts it has, and whether or not it ends in a semicolon.
StatementsAreWhole == Plain(file) => MeaningIsKept
=============================================================================
