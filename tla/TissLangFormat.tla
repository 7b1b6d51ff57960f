---------------------------- MODULE TissLangFormat ----------------------------
(* The editor's formatter (editor.py) and its linter (linter.py), fed with the *)
(* same script line by line.  Both keep one piece of state from line to line:  *)
(* the formatter the level it indents to, the linter a stack of the            *)
(* indentations it expects.  A line is its kind; indentations count levels.    *)
EXTENDS Naturals, Sequences, SequencesExt

CONSTANTS MaxLines,  \* bound: lines of a script
          MaxIndent  \* bound: indentation of a line nobody formatted

VARIABLES formatted,  \* the script goes through the formatter first
          read,       \* lines so far
          misread,    \* one of them is of a kind the two tools count differently
          errors,     \* the linter's errors for the last of them
          level,      \* indent_level of format_buffer
          expected    \* indent_stack of lint

vars == <<formatted, read, misread, errors, level, expected>>

\* RUN, READ with a format error, LOG (unknown to the linter), a TASK line, "STEP
\* .. {", "OPTION .. {", "ELSE {", "CATCH {", "}", "} ELSE {", a comment, one that
\* ends in a brace, and a blank line.
Kinds == {"command", "malformed", "unknown", "task", "step", "option", "else", "catch", "close",
          "close_else", "comment", "comment{", "blank"}

Misread == {"else", "catch", "close_else", "comment{"}
Skipped == {"comment", "comment{", "blank"}
EndsInBrace == {"step", "option", "else", "catch", "close_else", "comment{"}

\* Dedent before an ELSE, a CATCH and a lone brace, never below zero.
LevelOf(kind) ==
  IF kind \in {"else", "catch", "close"} /\ level > 0 THEN level - 1 ELSE level

\* A plausible bug: a line with any brace in it indents what follows.
LevelAfterBrace(kind) ==
  LevelOf(kind) + (IF kind \in EndsInBrace \cup {"task", "close"} THEN 1 ELSE 0)
                + (IF kind = "else" THEN 1 ELSE 0)

\* Indent after a block is opened, and once more after an ELSE.
LevelAfter(kind) ==
  LevelOf(kind) + (IF kind \in EndsInBrace \cup {"task"} THEN 1 ELSE 0)
                + (IF kind = "else" THEN 1 ELSE 0)

\* A line left of what is expected closes one block and is compared once more.
Closes(indent) == expected # <<>> /\ indent < Last(expected)
ExpectedAt(indent) == IF Closes(indent) THEN Front(expected) ELSE expected

IndentErrors(indent) ==
  LET e == ExpectedAt(indent) IN
  CASE Closes(indent) -> IF e # <<>> /\ indent # Last(e) THEN {"unexpected dedent"} ELSE {}
    [] ~Closes(indent) /\ e # <<>> -> IF indent > Last(e) THEN {"unexpected indent"} ELSE {}
    [] OTHER -> IF indent > 0 THEN {"unexpected indent at root"} ELSE {}

\* The closing braces are no keywords: the linter reports every one of them.
SyntaxErrors(kind) ==
  (IF kind \in {"unknown", "close", "close_else"} THEN {"unknown command"} ELSE {})
  \cup (IF kind = "malformed" THEN {"bad format"} ELSE {})

OpensBlock(kind) == kind \in EndsInBrace \cup {"task"}

Init ==
  /\ formatted \in BOOLEAN
  /\ read = 0 /\ misread = FALSE /\ errors = {} /\ level = 0 /\ expected = <<>>

\* format_buffer on the next line, and lint on what came out of it.
Line(kind, indent) ==
  /\ read' = read + 1 /\ misread' = (misread \/ kind \in Misread)
  /\ level' = LevelAfter(kind)
  /\ IF kind \in Skipped
     THEN UNCHANGED expected /\ errors' = {}
     ELSE /\ expected' = IF OpensBlock(kind) THEN Append(ExpectedAt(indent), indent + 1)
                         ELSE ExpectedAt(indent)
          /\ errors' = IndentErrors(indent) \cup SyntaxErrors(kind)
  /\ UNCHANGED formatted

Next ==
  /\ read < MaxLines
  /\ \E kind \in Kinds :
       IF formatted THEN Line(kind, LevelOf(kind))
       ELSE \E indent \in 0..MaxIndent : Line(kind, indent)

Spec == Init /\ [][Next]_vars

IndentationErrors == {"unexpected dedent", "unexpected indent", "unexpected indent at root"}

\* The formatter and the linter agree on indentation: a formatted script has no
\* indentation error, unless it holds an ELSE, a CATCH or a comment that ends in
\* a brace, which the two count differently.
FormattedLintsClean ==
  formatted /\ ~misread => errors \cap IndentationErrors = {}
================================================================================
