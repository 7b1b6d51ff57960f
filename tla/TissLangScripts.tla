---------------------------- MODULE TissLangScripts ----------------------------
(* The parser beside the language its tests and feature files describe: blocks *)
(* nest, an ELSE follows the block of an IF, a CATCH the block of a TRY.  The   *)
(* language is followed line by line, as the parser reads them.                *)
EXTENDS TissLangParser

VARIABLES open,    \* the blocks the script has open, and what each has just closed
          valid,   \* no line so far was out of place
          special  \* the script used ELSE, CATCH, or a note right after an IF or TRY block

scriptVars == <<vars, open, valid, special>>

Frame(kind) == [kind |-> kind, after |-> "none"]
Notes == {"COMMENT", "DIRECTIVE", "BLANK"}
Top == Last(open)

\* The lines that may come next, by the innermost open block.
Allowed ==
  IF open = <<>> THEN Notes \cup {"TASK", "STEP", "SETUP"}
  ELSE CASE Top.kind = "WRITE" -> Lines
         [] Top.kind = "CHOOSE" -> Notes \cup {"OPTION", "STEP", "END"}
         [] OTHER -> Notes \cup Commands \cup Opens
                     \cup {"IF", "TRY", "WRITE", "END"}
                     \cup (IF Top.kind = "IF" THEN {"END_ELSE"} ELSE {})
                     \cup (IF Top.after = "IF" THEN {"ELSE"} ELSE {})
                     \cup (IF Top.after = "TRY" THEN {"CATCH"} ELSE {})

\* The blocks open after line l.
After(l) ==
  LET Closed == IF open = <<>> THEN <<>>
                ELSE [open EXCEPT ![Len(open)].after = "none"] IN
  CASE open # <<>> /\ Top.kind = "WRITE" -> IF l = "DELIMITER" THEN Front(open) ELSE open
    [] l \in Notes -> open
    [] l = "END" -> LET outer == Front(open) IN
                    IF outer = <<>> THEN <<>>
                    ELSE [outer EXCEPT ![Len(outer)].after = Top.kind]
    [] l = "END_ELSE" -> Append(Front(open), Frame("ELSE"))
    [] l \in Commands \cup {"TASK"} -> Closed
    [] OTHER -> Append(Closed, Frame(l))

\* A note that the language takes for part of the block the IF or TRY is in.
NoteAfterBlock(l) == open # <<>> /\ Top.after \in {"IF", "TRY"} /\ l \in {"COMMENT", "DIRECTIVE"}

InitScript == Init /\ open = <<>> /\ valid = TRUE /\ special = FALSE

NextScript ==
  \/ /\ ReadLine
     /\ valid' = (valid /\ line' \in Allowed)
     /\ open' = IF valid' THEN After(line') ELSE open
     /\ special' = (special \/ (valid' /\ (line' \in {"ELSE", "END_ELSE", "CATCH"} \/ NoteAfterBlock(line'))))
  \/ (ParseLine \/ EndOfScript) /\ UNCHANGED <<open, valid, special>>

SpecScript == InitScript /\ [][NextScript]_scriptVars /\ WF_scriptVars(ParseLine)

\* Without ELSE and CATCH the parser accepts exactly the language: it raises on
\* the first line out of place or on a block left open, and on nothing else.
AcceptsTheLanguage ==
  (~special /\ line = "none")
    => CASE outcome = "parsed" -> valid /\ open = <<>>
         [] outcome = "parsing" -> valid
         [] OTHER -> ~valid \/ open # <<>>

\* What tests/features/if_else_conditionals.feature asks for: no line of a script
\* of the language is refused, an ELSE on the line that closes the IF (END_ELSE)
\* included.
ValidLinesParse ==
  [][(line # "none" /\ valid) => outcome' = "parsing"]_scriptVars

\* The two stacks move together except where a heredoc or an extra pop is
\* between them; without ELSE and CATCH the parser is as deep as the script.
DepthOf(k) == IF k.kind = "WRITE" THEN 1 ELSE IF k.kind \in {"IF", "TRY"} THEN 2 ELSE 1
Depth == FoldLeft(LAMBDA d, k : d + DepthOf(k), 0, open)
AfterBlock == IF state \in {"AFTER_IF", "AFTER_TRY"} THEN 1 ELSE 0

StacksFollowScript ==
  (~special /\ valid /\ line = "none" /\ outcome = "parsing")
    => /\ Len(stateStack) = Depth + AfterBlock
       /\ Len(blockStack) = Depth + AfterBlock - (IF state = "IN_WRITE" THEN 1 ELSE 0)

\* An ELSE goes to the IF whose block was closed just before it, whatever other
\* IFs the same block holds.
ElseGoesToLastIf ==
  [][(state = "AFTER_IF" /\ line = "ELSE" /\ valid /\ block'.slot = "else_block")
       => block'.node = block.node]_scriptVars
================================================================================
