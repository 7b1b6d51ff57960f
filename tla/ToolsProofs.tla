------------------------------ MODULE ToolsProofs ------------------------------
(*****************************************************************************)
(* The tools for every size: the formatter and its linter, the search and    *)
(* replace program, the execution engine, the trading chart and the editor.  *)
(* Each component is proved by itself; in a run of MCTools it starts in one  *)
(* of its initial states and makes its own steps, so what is proved of it    *)
(* holds there.                                                              *)
(*****************************************************************************)
EXTENDS MCTools, FiniteSetTheorems, SequenceTheorems, WellFoundedInduction, TLAPS

(*****************************************************************************)
(* The formatter and the linter, for scripts of any length: line by line the *)
(* linter's stack holds exactly the levels up to the one the formatter       *)
(* indents to.                                                               *)
(*****************************************************************************)
(* The stack of a linter that has seen every block down to level n. *)
StackOf(s, n) == s \in Seq(Nat) /\ Len(s) = n /\ \A i \in 1..n : s[i] = i

LevelInv == formatted => level \in Nat

StackInv == formatted /\ ~misread => StackOf(expected, level)

FormatInv == LevelInv /\ StackInv /\ Format!FormattedLintsClean

-----------------------------------------------------------------------------
(* The stack of n levels grows and shrinks to that of n + 1 and n - 1. *)

LEMMA StackGrows ==
    ASSUME NEW s, NEW n \in Nat, StackOf(s, n)
    PROVE  StackOf(Append(s, n + 1), n + 1)
    BY DEF StackOf

LEMMA StackShrinks ==
    ASSUME NEW s, NEW n \in Nat \ {0}, StackOf(s, n)
    PROVE  /\ s # <<>> /\ Format!Last(s) = n
           /\ StackOf(Format!Front(s), n - 1)
<1>1. s # <<>> /\ Format!Last(s) = n
    BY DEF StackOf, Format!Last
<1>2. /\ Format!Front(s) \in Seq(Nat) /\ Len(Format!Front(s)) = n - 1
      /\ \A i \in 1..(n - 1) : Format!Front(s)[i] = s[i]
    BY DEF StackOf, Format!Front
<1> QED
    BY <1>1, <1>2 DEF StackOf

(* The stack of no level is empty. *)
LEMMA StackEmpty ==
    ASSUME NEW s, StackOf(s, 0)
    PROVE  s = <<>>
    BY DEF StackOf

(* At the level of the blocks that are open the linter closes none; one level  *)
(* to the left it closes one, and in both cases it finds what it expects.      *)
LEMMA IndentFits ==
    ASSUME NEW n \in Nat, NEW indent \in Nat, StackOf(expected, n),
           indent = n \/ indent = n - 1
    PROVE  StackOf(Format!ExpectedAt(indent), indent) /\ Format!IndentErrors(indent) = {}
<1>1. CASE n = 0
  <2>1. expected = <<>> /\ indent = 0
    BY <1>1, StackEmpty
  <2> QED
    BY <1>1, <2>1 DEF Format!ExpectedAt, Format!Closes, Format!IndentErrors
<1>2. CASE n # 0 /\ indent = n
  <2>1. expected # <<>> /\ Format!Last(expected) = n
    BY <1>2, StackShrinks
  <2>2. ~Format!Closes(indent)
    BY <1>2, <2>1 DEF Format!Closes
  <2>3. Format!ExpectedAt(indent) = expected
    BY <2>2 DEF Format!ExpectedAt
  <2>4. ~(indent > Format!Last(expected))
    BY <1>2, <2>1
  <2>5. Format!IndentErrors(indent) = {}
    BY <2>1, <2>2, <2>3, <2>4 DEF Format!IndentErrors
  <2> QED
    BY <1>2, <2>3, <2>5
<1>3. CASE n # 0 /\ indent = n - 1
  <2>1. expected # <<>> /\ Format!Last(expected) = n /\ StackOf(Format!Front(expected), indent)
    BY <1>3, StackShrinks
  <2>2. Format!Closes(indent) /\ Format!ExpectedAt(indent) = Format!Front(expected)
    BY <1>3, <2>1 DEF Format!Closes, Format!ExpectedAt
  <2>3. Format!Front(expected) # <<>> => Format!Last(Format!Front(expected)) = indent
    <3>1. CASE indent = 0
      BY <2>1, <3>1, StackEmpty
    <3>2. CASE indent # 0
      BY <2>1, <3>2, StackShrinks
    <3> QED
      BY <3>1, <3>2
  <2> QED
    BY <2>1, <2>2, <2>3 DEF Format!IndentErrors
<1> QED
    BY <1>1, <1>2, <1>3

(* The level a line goes to, and the one it leaves, for the lines both tools   *)
(* count alike.                                                                *)
LEMMA Levels ==
    ASSUME level \in Nat, NEW kind \in Format!Kinds
    PROVE  /\ Format!LevelOf(kind) \in Nat /\ Format!LevelAfter(kind) \in Nat
           /\ Format!LevelOf(kind) = level \/ Format!LevelOf(kind) = level - 1
           /\ kind \notin Format!Misread
                => /\ Format!LevelAfter(kind) = IF Format!OpensBlock(kind) THEN Format!LevelOf(kind) + 1
                                         ELSE Format!LevelOf(kind)
                   /\ kind \in Format!Skipped => Format!LevelAfter(kind) = level
<1>1. Format!LevelOf(kind) \in Nat /\ (Format!LevelOf(kind) = level \/ Format!LevelOf(kind) = level - 1)
    BY DEF Format!LevelOf
<1>2. Format!LevelAfter(kind) \in Nat
    BY <1>1 DEF Format!LevelAfter
<1>3. ASSUME kind \notin Format!Misread
      PROVE  Format!LevelAfter(kind) = IF Format!OpensBlock(kind) THEN Format!LevelOf(kind) + 1
                                       ELSE Format!LevelOf(kind)
  <2>1. kind # "else"
    BY <1>3 DEF Format!Misread
  <2> QED
    BY <1>1, <2>1 DEF Format!LevelAfter, Format!OpensBlock
<1>4. ASSUME kind \notin Format!Misread, kind \in Format!Skipped
      PROVE  Format!LevelAfter(kind) = level
  <2>1. kind \in {"comment", "blank"}
    BY <1>4 DEF Format!Misread, Format!Skipped
  <2>2. Format!LevelOf(kind) = level
    BY <2>1 DEF Format!LevelOf
  <2>3. ~Format!OpensBlock(kind)
    BY <2>1 DEF Format!OpensBlock, Format!EndsInBrace
  <2> QED
    BY <1>3, <1>4, <2>2, <2>3
<1> QED
    BY <1>1, <1>2, <1>3, <1>4

LEMMA SyntaxIsNotIndentation ==
    ASSUME NEW kind
    PROVE  Format!SyntaxErrors(kind) \cap Format!IndentationErrors = {}
    BY DEF Format!SyntaxErrors, Format!IndentationErrors

LEMMA InitFormat == Format!Init => FormatInv
    BY DEF Format!Init, FormatInv, LevelInv, StackInv, StackOf, Format!FormattedLintsClean

LEMMA LineKeeps ==
    ASSUME FormatInv, formatted, NEW kind \in Format!Kinds, Format!Line(kind, Format!LevelOf(kind))
    PROVE  FormatInv'
<1> DEFINE indent == Format!LevelOf(kind)
<1>1. level \in Nat /\ level' = Format!LevelAfter(kind) /\ formatted'
    BY DEF FormatInv, LevelInv, Format!Line
<1>2. LevelInv'
    BY <1>1, Levels DEF LevelInv
<1>3. ASSUME ~misread'
      PROVE  StackOf(expected, level) /\ kind \notin Format!Misread
    BY <1>3 DEF FormatInv, StackInv, Format!Line
<1>4. ASSUME ~misread', kind \in Format!Skipped
      PROVE  StackOf(expected', level') /\ errors' = {}
    BY <1>1, <1>3, <1>4, Levels DEF Format!Line
<1>5. ASSUME ~misread', kind \notin Format!Skipped
      PROVE  StackOf(expected', level') /\ errors' = Format!SyntaxErrors(kind)
  <2>1. indent \in Nat /\ (indent = level \/ indent = level - 1)
    BY <1>1, Levels
  <2>2. StackOf(Format!ExpectedAt(indent), indent) /\ Format!IndentErrors(indent) = {}
    BY <1>1, <1>3, <1>5, <2>1, IndentFits
  <2>3. StackOf(Append(Format!ExpectedAt(indent), indent + 1), indent + 1)
    BY <2>1, <2>2, StackGrows
  <2>4. /\ expected' = IF Format!OpensBlock(kind) THEN Append(Format!ExpectedAt(indent), indent + 1)
                       ELSE Format!ExpectedAt(indent)
        /\ errors' = Format!IndentErrors(indent) \cup Format!SyntaxErrors(kind)
    BY <1>5 DEF Format!Line
  <2>5. level' = IF Format!OpensBlock(kind) THEN indent + 1 ELSE indent
    BY <1>1, <1>3, <1>5, Levels
  <2> HIDE DEF indent
  <2> QED
    BY <2>2, <2>3, <2>4, <2>5
<1>6. StackInv'
    BY <1>4, <1>5 DEF StackInv
<1>7. Format!FormattedLintsClean'
    BY <1>4, <1>5, SyntaxIsNotIndentation DEF Format!FormattedLintsClean, Format!IndentationErrors
<1> QED
    BY <1>2, <1>6, <1>7 DEF FormatInv

LEMMA NextKeeps == FormatInv /\ [Format!Next]_(Format!vars) => FormatInv'
<1> SUFFICES ASSUME FormatInv, [Format!Next]_(Format!vars) PROVE FormatInv'
    OBVIOUS
<1>1. CASE Format!Next /\ formatted
    BY <1>1, LineKeeps DEF Format!Next
<1>2. CASE Format!Next /\ ~formatted
  <2>1. ~formatted'
    BY <1>2 DEF Format!Next, Format!Line
  <2> QED
    BY <2>1 DEF FormatInv, LevelInv, StackInv, Format!FormattedLintsClean
<1>3. CASE UNCHANGED Format!vars
    BY <1>3 DEF Format!vars, FormatInv, LevelInv, StackInv, StackOf, Format!FormattedLintsClean,
                Format!IndentationErrors
<1> QED
    BY <1>1, <1>2, <1>3

(* The formatter and the linter by themselves. *)
LEMMA FormatterAgreesWithLinter == Format!Spec => []Format!FormattedLintsClean
<1>1. FormatInv => Format!FormattedLintsClean
    BY DEF FormatInv
<1> QED
    BY InitFormat, NextKeeps, <1>1, PTL DEF Format!Spec

-----------------------------------------------------------------------------
(*****************************************************************************)
(* A case-sensitive replacement in place leaves the pattern in no file that it*)
(* searched and could read and write, for any number of files.               *)
(*****************************************************************************)
Working == {"search", "apply", "exit 0"}

(* The state of a run: what is held while files are searched and written. *)
RunOK ==
    /\ at \in {"start", "validate", "exit 1"} \cup Working
    /\ at # "start" => args \in Search!Arguments
    /\ at \in {"start", "validate"} => modified = <<>>
    /\ at \in Working => /\ searched \in [SearchedFiles -> Search!Contents]
                         /\ DOMAIN modified \subseteq SearchedFiles
                         /\ \A f \in DOMAIN modified : modified[f] \in Search!Contents
    /\ at = "apply" => todo \subseteq DOMAIN modified

Replacing == args.in_place /\ args.case_sensitive

(* A replacement was given, what is new of a file no longer holds the pattern, *)
(* and a searched file that holds it is among the files to write.              *)
SearchOK ==
    at = "search" /\ Replacing =>
        /\ Search!HasReplace
        /\ \A f \in DOMAIN modified : ~modified[f].exact
        /\ \A f \in (SearchedFiles \ args.exclude) \ todo :
             searched[f].readable /\ searched[f].exact => f \in DOMAIN modified

(* While files are written, those that still hold the pattern are still to do. *)
ApplyOK ==
    at = "apply" /\ Replacing =>
        /\ \A f \in DOMAIN modified : ~modified[f].exact
        /\ \A f \in SearchedFiles \ args.exclude :
             searched[f].readable /\ searched[f].writable /\ searched[f].exact => f \in todo

SearchInv == RunOK /\ SearchOK /\ ApplyOK /\ Search!CaseSensitiveReplacesAll

-----------------------------------------------------------------------------
(* A replacement takes the pattern out of what a file holds, and nothing else. *)
LEMMA ReplacedHasNone ==
    ASSUME NEW c \in Search!Contents
    PROVE  Search!Replaced(c) \in Search!Contents /\ ~Search!Replaced(c).exact
    BY DEF Search!Replaced, Search!Contents

LEMMA InitRun == Search!Init => SearchInv
    BY DEF Search!Init, SearchInv, RunOK, SearchOK, ApplyOK, Search!CaseSensitiveReplacesAll, Working

LEMMA StartKeeps == SearchInv /\ Search!Start => SearchInv'
    BY DEF SearchInv, RunOK, SearchOK, ApplyOK, Search!CaseSensitiveReplacesAll, Working, Search!Start

LEMMA ValidateKeeps == SearchInv /\ Search!Validate => SearchInv'
<1> SUFFICES ASSUME SearchInv, Search!Validate PROVE SearchInv'
    OBVIOUS
<1>1. CASE at' = "exit 1"
    BY <1>1 DEF SearchInv, RunOK, SearchOK, ApplyOK, Search!CaseSensitiveReplacesAll, Working, Search!Validate
<1>2. CASE at' = "search"
  <2>1. /\ at = "validate" /\ ~Search!Refused /\ todo' = SearchedFiles \ args.exclude
        /\ searched' \in [SearchedFiles -> Search!Contents] /\ modified' = <<>> /\ args' = args
        /\ args \in Search!Arguments
    <3>1. Search!Unreadable \in Search!Contents
        BY DEF Search!Unreadable, Search!Contents
    <3> QED
        BY <1>2, <3>1 DEF Search!Validate, SearchInv, RunOK
  <2>2. DOMAIN modified' = {}
    BY <2>1
  <2>3. RunOK'
    BY <1>2, <2>1, <2>2 DEF RunOK, Working
  <2>4. Replacing' => Search!HasReplace'
    BY <2>1 DEF Replacing, Search!HasReplace, Search!Refused
  <2>5. SearchOK'
    BY <2>1, <2>2, <2>4 DEF SearchOK
  <2> QED
    BY <1>2, <2>3, <2>5 DEF SearchInv, ApplyOK, Search!CaseSensitiveReplacesAll
<1> QED
    BY <1>1, <1>2 DEF Search!Validate

LEMMA SearchFileKeeps == SearchInv /\ (\E f \in SearchedFiles : Search!SearchFile(f)) => SearchInv'
<1> SUFFICES ASSUME SearchInv, NEW f \in SearchedFiles, Search!SearchFile(f) PROVE SearchInv'
    OBVIOUS
<1>1. /\ at = "search" /\ at' = "search" /\ args' = args /\ searched' = searched
      /\ todo' = todo \ {f} /\ args \in Search!Arguments
      /\ searched \in [SearchedFiles -> Search!Contents] /\ searched[f] \in Search!Contents
      /\ DOMAIN modified \subseteq SearchedFiles
      /\ \A h \in DOMAIN modified : modified[h] \in Search!Contents
    BY DEF Search!SearchFile, SearchInv, RunOK, Working
<1>2. DOMAIN modified \subseteq DOMAIN modified' /\ DOMAIN modified' \subseteq DOMAIN modified \cup {f}
    BY DEF Search!SearchFile
<1>3. \A h \in DOMAIN modified' :
        modified'[h] = IF h \in DOMAIN modified /\ (h # f \/ modified' = modified)
                       THEN modified[h] ELSE Search!Replaced(searched[f])
    BY DEF Search!SearchFile
<1>4. RunOK'
  <2>1. Search!Replaced(searched[f]) \in Search!Contents
    BY <1>1, ReplacedHasNone
  <2> QED
    BY <1>1, <1>2, <1>3, <2>1 DEF RunOK, Working
<1>5. SearchOK'
  <2> SUFFICES ASSUME Replacing'
               PROVE  /\ Search!HasReplace'
                      /\ \A h \in DOMAIN modified' : ~modified'[h].exact
                      /\ \A h \in (SearchedFiles \ args.exclude) \ todo' :
                           searched[h].readable /\ searched[h].exact => h \in DOMAIN modified'
    BY <1>1 DEF SearchOK
  <2>1. /\ Replacing /\ Search!HasReplace
        /\ \A h \in DOMAIN modified : ~modified[h].exact
        /\ \A h \in (SearchedFiles \ args.exclude) \ todo :
             searched[h].readable /\ searched[h].exact => h \in DOMAIN modified
    BY <1>1 DEF SearchInv, SearchOK, Replacing
  <2>2. Search!HasReplace'
    BY <1>1, <2>1 DEF Search!HasReplace
  <2>3. \A h \in DOMAIN modified' : ~modified'[h].exact
    BY <1>1, <1>3, <2>1, ReplacedHasNone
  <2>4. searched[f].readable /\ searched[f].exact => f \in DOMAIN modified'
    <3> SUFFICES ASSUME searched[f].readable, searched[f].exact PROVE f \in DOMAIN modified'
        OBVIOUS
    <3>1. Search!Found(searched[f])
        BY <2>1 DEF Search!Found, Replacing
    <3>2. Search!Replaced(searched[f]) # searched[f]
        BY <1>1, ReplacedHasNone
    <3>3. args.replace # "none"
        BY <2>1 DEF Search!HasReplace
    <3> QED
        BY <3>1, <3>2, <3>3 DEF Search!SearchFile
  <2> QED
    BY <1>1, <1>2, <2>1, <2>2, <2>3, <2>4
<1> QED
    BY <1>1, <1>4, <1>5 DEF SearchInv, ApplyOK, Search!CaseSensitiveReplacesAll

LEMMA EndSearchKeeps == SearchInv /\ Search!EndSearch => SearchInv'
<1> SUFFICES ASSUME SearchInv, Search!EndSearch PROVE SearchInv'
    OBVIOUS
<1>1. /\ at = "search" /\ todo = {} /\ args' = args /\ searched' = searched /\ modified' = modified
      /\ args \in Search!Arguments /\ at' \in {"apply", "exit 0", "exit 1"}
    BY DEF Search!EndSearch, SearchInv, RunOK
<1>2. RunOK'
    BY <1>1 DEF SearchInv, RunOK, Working, Search!EndSearch
<1>3. ApplyOK'
  <2> SUFFICES ASSUME at' = "apply", Replacing'
               PROVE  /\ \A f \in DOMAIN modified : ~modified[f].exact
                      /\ \A f \in SearchedFiles \ args.exclude :
                           searched[f].readable /\ searched[f].writable /\ searched[f].exact => f \in todo'
    BY <1>1 DEF ApplyOK
  <2>1. todo' = DOMAIN modified
    BY <1>1 DEF Search!EndSearch
  <2> QED
    BY <1>1, <2>1 DEF SearchInv, SearchOK, Replacing
<1>4. at' = "exit 0" => ~Replacing
    BY <1>1 DEF Search!EndSearch, SearchInv, SearchOK, Replacing
<1> QED
    BY <1>1, <1>2, <1>3, <1>4 DEF SearchInv, SearchOK, Search!CaseSensitiveReplacesAll, Replacing

LEMMA ApplyKeeps == SearchInv /\ (\E f \in SearchedFiles : Search!Apply(f)) => SearchInv'
<1> SUFFICES ASSUME SearchInv, NEW f \in SearchedFiles, Search!Apply(f) PROVE SearchInv'
    OBVIOUS
<1>1. /\ at = "apply" /\ at' = "apply" /\ args' = args /\ modified' = modified /\ f \in todo
      /\ todo' = todo \ {f} /\ args \in Search!Arguments
      /\ searched \in [SearchedFiles -> Search!Contents]
      /\ searched' = IF searched[f].writable THEN [searched EXCEPT ![f] = modified[f]] ELSE searched
      /\ DOMAIN modified \subseteq SearchedFiles /\ todo \subseteq DOMAIN modified
      /\ \A h \in DOMAIN modified : modified[h] \in Search!Contents
    BY DEF Search!Apply, SearchInv, RunOK, Working
<1>2. modified[f] \in Search!Contents /\ f \in SearchedFiles /\ f \in DOMAIN modified
    BY <1>1
<1>3. /\ searched' \in [SearchedFiles -> Search!Contents]
      /\ \A h \in SearchedFiles : h # f => searched'[h] = searched[h]
      /\ searched'[f] = IF searched[f].writable THEN modified[f] ELSE searched[f]
    BY <1>1, <1>2
<1>4. RunOK'
    BY <1>1, <1>3 DEF SearchInv, RunOK, Working
<1>5. ApplyOK'
  <2> SUFFICES ASSUME Replacing'
               PROVE  /\ \A h \in DOMAIN modified : ~modified[h].exact
                      /\ \A h \in SearchedFiles \ args.exclude :
                           searched'[h].readable /\ searched'[h].writable /\ searched'[h].exact => h \in todo'
    BY <1>1 DEF ApplyOK
  <2>1. /\ \A h \in DOMAIN modified : ~modified[h].exact
        /\ \A h \in SearchedFiles \ args.exclude :
             searched[h].readable /\ searched[h].writable /\ searched[h].exact => h \in todo
    BY <1>1 DEF SearchInv, ApplyOK, Replacing
  <2>2. ~(searched'[f].writable /\ searched'[f].exact)
    BY <1>2, <1>3, <2>1
  <2> QED
    BY <1>1, <1>3, <2>1, <2>2
<1> QED
    BY <1>1, <1>4, <1>5 DEF SearchInv, SearchOK, Search!CaseSensitiveReplacesAll

LEMMA EndApplyKeeps == SearchInv /\ Search!EndApply => SearchInv'
    BY DEF SearchInv, RunOK, SearchOK, ApplyOK, Search!CaseSensitiveReplacesAll, Replacing, Working,
           Search!EndApply

LEMMA RunKeeps == SearchInv /\ [Search!Next]_(Search!vars) => SearchInv'
<1> SUFFICES ASSUME SearchInv, [Search!Next]_(Search!vars) PROVE SearchInv'
    OBVIOUS
<1>1. CASE UNCHANGED Search!vars
    BY <1>1 DEF Search!vars, SearchInv, RunOK, SearchOK, ApplyOK, Search!CaseSensitiveReplacesAll, Replacing,
       Search!HasReplace, Working
<1> QED
    BY <1>1, StartKeeps, ValidateKeeps, SearchFileKeeps, EndSearchKeeps, ApplyKeeps, EndApplyKeeps
       DEF Search!Next

(* The search and replace program by itself. *)
LEMMA ReplacesAll == Search!Spec => []Search!CaseSensitiveReplacesAll
<1>1. SearchInv => Search!CaseSensitiveReplacesAll
    BY DEF SearchInv
<1> QED
    BY InitRun, RunKeeps, <1>1, PTL DEF Search!Spec

-----------------------------------------------------------------------------
(* What is new of a file stands beside a match in it, and files are written    *)
(* only in the mode that asks for it.                                          *)
ModeInv ==
    /\ DOMAIN modified \subseteq matched
    /\ at = "search" => ~(args.in_place /\ args.dry_run)
    /\ at = "apply" => args.in_place /\ ~args.dry_run /\ todo \subseteq matched

LEMMA InitMode == Search!Init => ModeInv
    BY DEF Search!Init, ModeInv

LEMMA ModeKeeps == ModeInv /\ [Search!Next]_(Search!vars) => ModeInv'
<1> SUFFICES ASSUME ModeInv, [Search!Next]_(Search!vars) PROVE ModeInv'
    OBVIOUS
<1>1. CASE Search!Start \/ Search!EndApply \/ UNCHANGED Search!vars
    BY <1>1 DEF ModeInv, Search!Start, Search!EndApply, Search!vars
<1>2. CASE Search!Validate
    BY <1>2 DEF ModeInv, Search!Validate, Search!Refused
<1>3. CASE \E f \in SearchedFiles : Search!SearchFile(f)
  <2>1. PICK f \in SearchedFiles : Search!SearchFile(f)
    BY <1>3
  <2>2. \/ modified' = modified /\ matched \subseteq matched'
        \/ DOMAIN modified' = DOMAIN modified \cup {f} /\ matched' = matched \cup {f}
    BY <2>1 DEF Search!SearchFile
  <2> QED
    BY <2>1, <2>2 DEF ModeInv, Search!SearchFile
<1>4. CASE Search!EndSearch
    BY <1>4 DEF ModeInv, Search!EndSearch
<1>5. CASE \E f \in SearchedFiles : Search!Apply(f)
    BY <1>5 DEF ModeInv, Search!Apply
<1> QED
    BY <1>1, <1>2, <1>3, <1>4, <1>5 DEF Search!Next

LEMMA OnlyApplyWrites ==
    ASSUME SearchInv, ModeInv, [Search!Next]_(Search!vars), at # "validate",
           NEW f \in SearchedFiles, searched'[f] # searched[f]
    PROVE  args.in_place /\ ~args.dry_run /\ f \in matched
<1>1. PICK h \in SearchedFiles : Search!Apply(h)
    BY DEF Search!Next, Search!vars, Search!Start, Search!Validate, Search!EndSearch, Search!EndApply,
           Search!SearchFile
<1>2. /\ h \in todo /\ at = "apply" /\ searched \in [SearchedFiles -> Search!Contents]
      /\ searched' = IF searched[h].writable THEN [searched EXCEPT ![h] = modified[h]] ELSE searched
    BY <1>1 DEF Search!Apply, SearchInv, RunOK, Working
<1>3. f = h
    BY <1>2
<1> QED
    BY <1>2, <1>3 DEF ModeInv

(* The files it writes. *)
LEMMA ChangesOnlyMatches == Search!Spec => Search!OnlyMatchesChange
<1>1. SearchInv /\ ModeInv /\ [Search!Next]_(Search!vars)
        => [at # "validate" => \A f \in SearchedFiles :
              searched'[f] # searched[f] => args.in_place /\ ~args.dry_run /\ f \in matched]_(Search!vars)
    BY OnlyApplyWrites
<1> QED
    BY InitRun, RunKeeps, InitMode, ModeKeeps, <1>1, PTL DEF Search!Spec, Search!OnlyMatchesChange

-----------------------------------------------------------------------------
(*****************************************************************************)
(* The execution engine, for scripts of any length: what the log holds of the*)
(* step in progress, which failure halted the script, and where the contents *)
(* of the files come from.                                                   *)
(*****************************************************************************)
Entries == [at : Nat \X Nat, status : {"SUCCESS", "FAILURE", "SKIPPED"}]
Nodes == [type : {"TASK", "STEP", "COMMENT"}, commands : Seq(Engine!Commands)]
Unread == {"missing", "unwritable", "binary"}

(* The state of a run: before it starts there is only the tree, and while a *)
(* command of a node is next the node is a step.                            *)
EngineTypes ==
    /\ pc \in {"building", "running", "done", "raised"}
    /\ tree \in Seq(Nodes) /\ log \in Seq(Entries) /\ halted \in BOOLEAN
    /\ position \in (Nat \ {0}) \X Nat /\ position[1] <= Len(tree) + 1
    /\ files \in [Paths -> WrittenTexts \cup Unread]
    /\ variables \in [Paths -> WrittenTexts \cup {"unset"}]
    /\ pc = "building" => /\ position = <<1, 0>> /\ log = <<>> /\ ~halted
                          /\ files \in [Paths -> Unread]
                          /\ \A p \in Paths : variables[p] = "unset"
    /\ position[2] > 0 => /\ position[1] <= Len(tree) /\ Engine!Node.type = "STEP"
                          /\ position[2] <= Len(Engine!Node.commands) + 1
    /\ pc = "done" => position[2] = 0 /\ (halted \/ position[1] > Len(tree))

(* The commands of a step that the log reports as a success. *)
Succeeded(n) == {log[j].at[2] : j \in {k \in Engine!EntriesOf(n) : log[k].status = "SUCCESS"}}

(* The log has nothing of what comes after the position, and of the step the  *)
(* position is in exactly the commands before it, unless one failed.          *)
LogSoFar ==
    /\ \A i \in 1..Len(log) : /\ log[i].at[1] <= position[1]
                              /\ log[i].at[1] = position[1] => log[i].at[2] > 0
                              /\ position[2] = 0 => log[i].at[1] < position[1]
    /\ pc = "running" /\ position[2] > 0 =>
         IF halted THEN Succeeded(position[1]) # 1..Len(Engine!Node.commands)
         ELSE Succeeded(position[1]) = 1..(position[2] - 1)

(* A failure has halted the script, and as long as its step has not ended it *)
(* is in that step; without one every node before the position has an entry. *)
HaltedByFailure ==
    /\ ~halted => /\ \A i \in 1..Len(log) : log[i].status # "FAILURE"
                  /\ \A n \in 1..(position[1] - 1) : Engine!OwnEntries(n) # {}
    /\ position[2] > 0 =>
         \A i \in 1..Len(log) :
            log[i].status = "FAILURE" /\ log[i].at[2] > 0 => log[i].at[1] = position[1]

WrittenBy(i, p, text) ==
    /\ log[i].status = "SUCCESS" /\ log[i].at[2] > 0
    /\ LET c == tree[log[i].at[1]].commands[log[i].at[2]] IN
       c.type = "WRITE" /\ c.path = p /\ c.arg = text

(* What a file holds that did not stand there before a WRITE has written. *)
FilesComeFromWrites ==
    \A p \in Paths : files[p] \notin Unread =>
        \E i \in 1..Len(log) : WrittenBy(i, p, files[p])

EngineInv ==
    /\ EngineTypes /\ LogSoFar /\ HaltedByFailure /\ FilesComeFromWrites
    /\ Engine!StepTellsTruth /\ Engine!FailureIsLast
    /\ Engine!CompleteOrHalted /\ Engine!VariablesComeFromWrites

-----------------------------------------------------------------------------
LEMMA EngineInit == Engine!Init => EngineInv
<1> SUFFICES ASSUME Engine!Init PROVE EngineInv  OBVIOUS
<1>1. tree = <<>> /\ log = <<>> /\ position = <<1, 0>> /\ Len(log) = 0 /\ Len(tree) = 0
  BY DEF Engine!Init
<1>2. EngineTypes
  <2>1. pc = "building" /\ ~halted /\ halted \in BOOLEAN /\ files \in [Paths -> Unread]
        /\ variables \in [Paths -> {"unset"}]
    BY DEF Engine!Init, Unread
  <2>2. position \in (Nat \ {0}) \X Nat /\ position[1] = 1 /\ position[2] = 0  BY <1>1
  <2>3. files \in [Paths -> WrittenTexts \cup Unread]
        /\ variables \in [Paths -> WrittenTexts \cup {"unset"}]
        /\ \A p \in Paths : variables[p] = "unset"
    BY <2>1
  <2>4. tree \in Seq(Nodes) /\ log \in Seq(Entries)  BY <1>1
  <2> QED  BY <1>1, <2>1, <2>2, <2>3, <2>4 DEF EngineTypes
<1>3. \A p \in Paths : files[p] \in Unread /\ variables[p] = "unset"
  BY DEF Engine!Init, Unread
<1> QED  BY <1>1, <1>2, <1>3 DEF Engine!Init, EngineInv, LogSoFar, HaltedByFailure, FilesComeFromWrites,
            Engine!StepTellsTruth, Engine!FailureIsLast, Engine!CompleteOrHalted, Engine!VariablesComeFromWrites

(* One more entry in the log: what it adds to the entries of each node. *)
LEMMA LogGrows ==
    ASSUME log \in Seq(Entries), NEW e \in Entries, log' = Append(log, e)
    PROVE  /\ Len(log') = Len(log) + 1 /\ Len(log) \in Nat /\ log' \in Seq(Entries)
           /\ log'[Len(log) + 1] = e /\ \A i \in 1..Len(log) : log'[i] = log[i]
           /\ \A i \in 1..Len(log') : i = Len(log) + 1 \/ i \in 1..Len(log)
           /\ \A n : e.at[1] # n => /\ Engine!EntriesOf(n)' = Engine!EntriesOf(n)
                                    /\ Engine!OwnEntries(n)' = Engine!OwnEntries(n)
                                    /\ Succeeded(n)' = Succeeded(n)
           /\ \A n : e.at[1] = n /\ e.at[2] = 0 =>
                  /\ Engine!EntriesOf(n)' = Engine!EntriesOf(n)
                  /\ Engine!OwnEntries(n)' = Engine!OwnEntries(n) \cup {Len(log) + 1}
                  /\ Succeeded(n)' = Succeeded(n)
           /\ \A n : e.at[1] = n /\ e.at[2] > 0 =>
                  /\ Engine!EntriesOf(n)' = Engine!EntriesOf(n) \cup {Len(log) + 1}
                  /\ Engine!OwnEntries(n)' = Engine!OwnEntries(n)
                  /\ Succeeded(n)' = IF e.status = "SUCCESS" THEN Succeeded(n) \cup {e.at[2]}
                                     ELSE Succeeded(n)
<1>1. /\ Len(log') = Len(log) + 1 /\ Len(log) \in Nat /\ log' \in Seq(Entries)
      /\ log'[Len(log) + 1] = e /\ \A i \in 1..Len(log) : log'[i] = log[i]
      /\ \A i \in 1..Len(log') : i = Len(log) + 1 \/ i \in 1..Len(log)
      /\ \A i \in 1..Len(log) : i \in 1..Len(log') /\ i # Len(log) + 1
      /\ Len(log) + 1 \in 1..Len(log')
  OBVIOUS
<1>2. e.at \in Nat \X Nat /\ \A n : e.at = <<n, 0>> <=> e.at[1] = n /\ e.at[2] = 0
  BY DEF Entries
<1>3. \A n : Engine!EntriesOf(n)' = Engine!EntriesOf(n) \cup {i \in {Len(log) + 1} : e.at[1] = n /\ e.at[2] > 0}
  BY <1>1 DEF Engine!EntriesOf
<1>4. \A n : Engine!OwnEntries(n)' = Engine!OwnEntries(n)
                                   \cup {i \in {Len(log) + 1} : e.at[1] = n /\ e.at[2] = 0}
  BY <1>1, <1>2 DEF Engine!OwnEntries
<1>5. \A n : Engine!EntriesOf(n) \subseteq 1..Len(log)  BY DEF Engine!EntriesOf
<1>6. \A n : Succeeded(n)' = Succeeded(n) \cup
               {m \in {e.at[2]} : e.at[1] = n /\ e.at[2] > 0 /\ e.status = "SUCCESS"}
  <2> TAKE n
  <2> DEFINE Good == {k \in Engine!EntriesOf(n) : log[k].status = "SUCCESS"}
             New == {i \in {Len(log) + 1} :
                       e.at[1] = n /\ e.at[2] > 0 /\ e.status = "SUCCESS"}
  <2>1. \A k \in Engine!EntriesOf(n) : log'[k] = log[k]  BY <1>1, <1>5
  <2>2. {k \in Engine!EntriesOf(n)' : log'[k].status = "SUCCESS"} = Good \cup New
    BY <1>1, <1>3, <2>1
  <2>3. Succeeded(n)' = {log'[j].at[2] : j \in Good \cup New}  BY <2>2 DEF Succeeded
  <2>4. Succeeded(n) = {log[j].at[2] : j \in Good}  BY DEF Succeeded
  <2>5. \A k \in Good : log'[k] = log[k]  BY <2>1
  <2>6. \A k \in New : log'[k] = e  BY <1>1
  <2>7. {log'[j].at[2] : j \in Good \cup New}
          = {log[j].at[2] : j \in Good} \cup {e.at[2] : j \in New}
    <3> HIDE DEF Good, New
    <3>1. \A v : v \in {log'[j].at[2] : j \in Good \cup New}
                 <=> \E j \in Good \cup New : v = log'[j].at[2]
      OBVIOUS
    <3>2. \A v : v \in {log[j].at[2] : j \in Good} \cup {e.at[2] : j \in New}
                 <=> (\E j \in Good : v = log[j].at[2]) \/ (\E j \in New : v = e.at[2])
      OBVIOUS
    <3>3. \A v : (\E j \in Good \cup New : v = log'[j].at[2])
                 <=> (\E j \in Good : v = log[j].at[2]) \/ (\E j \in New : v = e.at[2])
      BY <2>5, <2>6
    <3> QED  BY <3>1, <3>2, <3>3, Zenon
  <2>8. {e.at[2] : j \in New} = {m \in {e.at[2]} : e.at[1] = n /\ e.at[2] > 0 /\ e.status = "SUCCESS"}
    OBVIOUS
  <2> QED  BY <2>3, <2>4, <2>7, <2>8
<1>7. e.at[2] \in Nat  BY <1>2
<1>8. ASSUME NEW n, e.at[1] # n
      PROVE  Engine!EntriesOf(n)' = Engine!EntriesOf(n) /\ Engine!OwnEntries(n)' = Engine!OwnEntries(n)
             /\ Succeeded(n)' = Succeeded(n)
  BY <1>3, <1>4, <1>6, <1>8
<1>9. ASSUME NEW n, e.at[1] = n, e.at[2] = 0
      PROVE  /\ Engine!EntriesOf(n)' = Engine!EntriesOf(n)
             /\ Engine!OwnEntries(n)' = Engine!OwnEntries(n) \cup {Len(log) + 1}
             /\ Succeeded(n)' = Succeeded(n)
  <2>1. ~(e.at[2] > 0)  BY <1>9
  <2>2. Engine!EntriesOf(n)' = Engine!EntriesOf(n)  BY <1>3, <2>1
  <2>3. Engine!OwnEntries(n)' = Engine!OwnEntries(n) \cup {Len(log) + 1}  BY <1>4, <1>9
  <2>4. Succeeded(n)' = Succeeded(n)  BY <1>6, <2>1
  <2> QED  BY <2>2, <2>3, <2>4
<1>10. ASSUME NEW n, e.at[1] = n, e.at[2] > 0
       PROVE  /\ Engine!EntriesOf(n)' = Engine!EntriesOf(n) \cup {Len(log) + 1}
              /\ Engine!OwnEntries(n)' = Engine!OwnEntries(n)
              /\ Succeeded(n)' = IF e.status = "SUCCESS" THEN Succeeded(n) \cup {e.at[2]}
                                  ELSE Succeeded(n)
  <2>1. e.at[2] # 0  BY <1>7, <1>10
  <2>2. Engine!EntriesOf(n)' = Engine!EntriesOf(n) \cup {Len(log) + 1}  BY <1>3, <1>10
  <2>3. Engine!OwnEntries(n)' = Engine!OwnEntries(n)  BY <1>4, <2>1
  <2>4. Succeeded(n)' = IF e.status = "SUCCESS" THEN Succeeded(n) \cup {e.at[2]}
                        ELSE Succeeded(n)
    BY <1>6, <1>10
  <2> QED  BY <2>2, <2>3, <2>4
<1> QED  BY <1>1, <1>8, <1>9, <1>10

(* Entries stay, and with them what they say has been written. *)
LEMMA WrittenStays ==
    ASSUME log \in Seq(Entries), NEW e \in Entries, log' = Append(log, e), tree' = tree,
           NEW i \in 1..Len(log), NEW p, NEW text, WrittenBy(i, p, text)
    PROVE  i \in 1..Len(log') /\ WrittenBy(i, p, text)'
<1>1. i \in 1..Len(log') /\ log'[i] = log[i]  BY LogGrows
<1> QED  BY <1>1 DEF WrittenBy

LEMMA VariablesOfWritten ==
    Engine!VariablesComeFromWrites <=>
        \A p \in Paths : variables[p] # "unset" =>
            \E i \in 1..Len(log) : WrittenBy(i, p, variables[p])
BY Zenon DEF Engine!VariablesComeFromWrites, WrittenBy

(* StepTellsTruth and VariablesComeFromWrites, by what succeeded and was written. *)
Truth ==
    \A n \in 1..Len(tree) : tree[n].type = "STEP" =>
        \A i \in Engine!OwnEntries(n) :
            /\ \A j \in Engine!EntriesOf(n) : j < i
            /\ log[i].status = "SUCCESS" <=> Succeeded(n) = 1..Len(tree[n].commands)

Written ==
    \A p \in Paths : variables[p] # "unset" =>
        \E i \in 1..Len(log) : WrittenBy(i, p, variables[p])

LEMMA TruthOfSteps ==
    /\ Engine!StepTellsTruth <=> Truth
    /\ Engine!VariablesComeFromWrites <=> Written
<1>1. Engine!StepTellsTruth <=> Truth  BY Zenon DEF Engine!StepTellsTruth, Truth, Succeeded
<1> QED  BY <1>1, VariablesOfWritten DEF Written

(* Building the tree, and the start of the run: the log is empty. *)
LEMMA BuildingKeeps ==
    ASSUME EngineInv, Engine!AddNode \/ Engine!AddCommand \/ Engine!Execute
    PROVE  EngineInv'
<1>1. /\ pc = "building" /\ position = <<1, 0>> /\ position' = <<1, 0>> /\ log = <<>> /\ log' = <<>>
      /\ ~halted /\ ~halted' /\ pc' \in {"building", "running"}
      /\ files' = files /\ variables' = variables
      /\ files \in [Paths -> Unread] /\ \A p \in Paths : variables[p] = "unset"
  BY DEF EngineInv, EngineTypes, Engine!AddNode, Engine!AddCommand, Engine!Execute
<1>2. tree' \in Seq(Nodes)
  <2>1. tree \in Seq(Nodes)  BY DEF EngineInv, EngineTypes
  <2>2. CASE Engine!AddNode
    <3>1. \A ty \in {"TASK", "STEP", "COMMENT"} : [type |-> ty, commands |-> <<>>] \in Nodes
      BY DEF Nodes
    <3> QED  BY <2>1, <2>2, <3>1 DEF Engine!AddNode
  <2>3. CASE Engine!AddCommand
    <3>1. PICK c \in Engine!Commands : tree' = [tree EXCEPT ![Len(tree)].commands = Append(@, c)]
      BY <2>3 DEF Engine!AddCommand
    <3>2. Len(tree) \in DOMAIN tree /\ tree[Len(tree)] \in Nodes
      BY <2>1, <2>3 DEF Engine!AddCommand
    <3>3. Append(tree[Len(tree)].commands, c) \in Seq(Engine!Commands)
      BY <3>2 DEF Nodes
    <3>4. [tree[Len(tree)] EXCEPT !.commands = Append(@, c)] \in Nodes
      BY <3>2, <3>3 DEF Nodes
    <3> QED  BY <2>1, <3>1, <3>2, <3>4
  <2>4. CASE Engine!Execute  BY <2>1, <2>4 DEF Engine!Execute
  <2> QED  BY <2>2, <2>3, <2>4
<1>3. position'[1] = 1 /\ position'[2] = 0 /\ Len(log') = 0 /\ Len(tree') \in Nat
  BY <1>1, <1>2
<1>4. EngineTypes'
  <2>1. /\ position' \in (Nat \ {0}) \X Nat /\ position'[1] <= Len(tree') + 1
        /\ log' \in Seq(Entries) /\ ~(position'[2] > 0)
    BY <1>1, <1>3
  <2>2. /\ files' \in [Paths -> WrittenTexts \cup Unread] /\ halted' \in BOOLEAN
        /\ variables' \in [Paths -> WrittenTexts \cup {"unset"}]
        /\ files' \in [Paths -> Unread] /\ \A p \in Paths : variables'[p] = "unset"
    <3>1. files \in [Paths -> WrittenTexts \cup Unread] /\ variables \in [Paths -> WrittenTexts \cup {"unset"}]
      BY DEF EngineInv, EngineTypes
    <3>2. files' \in [Paths -> WrittenTexts \cup Unread]  BY <1>1, <3>1
    <3>3. variables' \in [Paths -> WrittenTexts \cup {"unset"}]  BY <1>1, <3>1
    <3>4. halted' \in BOOLEAN  BY DEF EngineInv, EngineTypes, Engine!AddNode, Engine!AddCommand, Engine!Execute
    <3> QED  BY <1>1, <3>2, <3>3, <3>4
  <2> QED  BY <1>1, <1>2, <2>1, <2>2 DEF EngineTypes
<1> QED  BY <1>1, <1>3, <1>4 DEF EngineInv, LogSoFar, HaltedByFailure, FilesComeFromWrites,
            Engine!StepTellsTruth, Engine!FailureIsLast, Engine!CompleteOrHalted,
            Engine!VariablesComeFromWrites, Engine!OwnEntries

(* Entering a step and finishing leave the log alone. *)
LEMMA SilentKeeps ==
    ASSUME EngineInv, Engine!EnterStep \/ Engine!Finish
    PROVE  EngineInv'
<1>1. /\ pc = "running" /\ log' = log /\ tree' = tree /\ halted' = halted
      /\ files' = files /\ variables' = variables /\ position'[1] = position[1]
      /\ position[2] = 0 /\ position \in (Nat \ {0}) \X Nat
      /\ log \in Seq(Entries)
  BY DEF EngineInv, EngineTypes, Engine!EnterStep, Engine!Finish, Engine!AtNode, Engine!NextCommand
<1>2. EngineTypes'
  <2>1. CASE Engine!EnterStep
    <3>1. tree \in Seq(Nodes) /\ position[1] \in 1..Len(tree) /\ position' = <<position[1], 1>>
      BY <1>1, <2>1 DEF Engine!EnterStep, Engine!AtNode, Engine!NextCommand, EngineInv, EngineTypes
    <3>2. Engine!Node.commands \in Seq(Engine!Commands) /\ Engine!Node' = Engine!Node
      <4>1. tree[position[1]] \in Nodes  BY <3>1
      <4>2. tree[position[1]].commands \in Seq(Engine!Commands)  BY <4>1 DEF Nodes
      <4>3. tree'[position'[1]] = tree[position[1]]  BY <1>1
      <4> QED  BY <4>2, <4>3 DEF Engine!Node
    <3>3. Len(Engine!Node.commands) + 1 >= 1  BY <3>2
    <3>4. position' \in (Nat \ {0}) \X Nat /\ position'[1] <= Len(tree) + 1 /\ position'[2] = 1
      BY <3>1
    <3> QED  BY <1>1, <2>1, <3>1, <3>2, <3>3, <3>4 DEF Engine!EnterStep, Engine!AtNode, EngineInv, EngineTypes
  <2>2. CASE Engine!Finish
    BY <1>1, <2>2 DEF Engine!Finish, EngineInv, EngineTypes, Engine!Node
  <2> QED  BY <2>1, <2>2
<1>3. /\ \A n : Engine!EntriesOf(n)' = Engine!EntriesOf(n) /\ Engine!OwnEntries(n)' = Engine!OwnEntries(n)
      /\ \A n : Succeeded(n)' = Succeeded(n)
  BY <1>1 DEF Engine!EntriesOf, Engine!OwnEntries, Succeeded
<1>4. Succeeded(position[1]) = {}
  <2>1. Engine!EntriesOf(position[1]) = {}  BY <1>1 DEF EngineInv, LogSoFar, Engine!EntriesOf
  <2> QED  BY <2>1 DEF Succeeded
<1>5. LogSoFar'
  <2>1. CASE Engine!EnterStep
    <3>1. ~halted' /\ position'[2] = 1  BY <2>1, <1>1 DEF Engine!EnterStep, Engine!NextCommand
    <3>2. 1..(position'[2] - 1) = {}  BY <3>1
    <3> QED  BY <1>1, <1>3, <1>4, <3>1, <3>2 DEF EngineInv, LogSoFar
  <2>2. CASE Engine!Finish
    BY <1>1, <2>2 DEF EngineInv, LogSoFar, Engine!Finish
  <2> QED  BY <2>1, <2>2
<1>6. HaltedByFailure'
  <2>1. CASE Engine!EnterStep
    <3>1. ~halted  BY <2>1 DEF Engine!EnterStep
    <3> QED  BY <1>1, <1>3, <3>1 DEF EngineInv, HaltedByFailure
  <2>2. CASE Engine!Finish
    <3>1. position' = position  BY <2>2 DEF Engine!Finish
    <3> QED  BY <1>1, <1>3, <3>1 DEF EngineInv, HaltedByFailure
  <2> QED  BY <2>1, <2>2
<1>7. \A i, p, text : WrittenBy(i, p, text)' <=> WrittenBy(i, p, text)
  BY <1>1 DEF WrittenBy
<1>8. FilesComeFromWrites' /\ Engine!VariablesComeFromWrites'
  <2>1. Len(log) = Len(log') /\ files' = files /\ variables' = variables  BY <1>1
  <2>2. FilesComeFromWrites'  BY <2>1, <1>7 DEF EngineInv, FilesComeFromWrites
  <2>3. Written'
    <3>1. Written  BY TruthOfSteps DEF EngineInv
    <3> QED  BY <2>1, <1>7, <3>1 DEF Written
  <2>4. (Engine!VariablesComeFromWrites <=> Written)'  BY TruthOfSteps, PTL
  <2> QED  BY <2>2, <2>3, <2>4
<1>9. Engine!StepTellsTruth' /\ Engine!FailureIsLast'
  <2>1. Engine!StepTellsTruth /\ Engine!FailureIsLast  BY DEF EngineInv
  <2>2. log' = log /\ tree' = tree  BY <1>1
  <2>3. \A n : Engine!OwnEntries(n)' = Engine!OwnEntries(n)  BY <1>3
  <2>4. \A n : Engine!EntriesOf(n)' = Engine!EntriesOf(n)  BY <1>3
  <2>5. \A n : Succeeded(n)' = Succeeded(n)  BY <1>3
  <2>6. Engine!FailureIsLast'  BY <2>1, <2>2 DEF Engine!FailureIsLast
  <2>7. Truth'
    <3>1. Truth  BY <2>1, TruthOfSteps
    <3> QED  BY <2>2, <2>3, <2>4, <2>5, <3>1 DEF Truth
  <2>8. (Engine!StepTellsTruth <=> Truth)'  BY TruthOfSteps, PTL
  <2> QED  BY <2>6, <2>7, <2>8
<1>10. Engine!CompleteOrHalted'
  <2>1. CASE Engine!EnterStep  BY <1>1, <2>1 DEF Engine!EnterStep, Engine!CompleteOrHalted
  <2>2. CASE Engine!Finish
    <3>1. tree \in Seq(Nodes)  BY DEF EngineInv, EngineTypes
    <3>2. ~halted => \A n \in 1..Len(tree) : n \in 1..(position[1] - 1)
      BY <1>1, <2>2, <3>1 DEF Engine!Finish
    <3> QED  BY <1>1, <1>3, <3>2 DEF EngineInv, HaltedByFailure, Engine!CompleteOrHalted
  <2> QED  BY <2>1, <2>2
<1> QED  BY <1>2, <1>5, <1>6, <1>8, <1>9, <1>10 DEF EngineInv

(* A node's own entry, after which the next node is next. *)
LEMMA NodeEnds ==
    ASSUME EngineInv, pc = "running", position[1] <= Len(tree),
           NEW status \in {"SUCCESS", "FAILURE"},
           log' = Append(log, [at |-> <<position[1], 0>>, status |-> status]),
           position' = Engine!NextNode, UNCHANGED <<tree, files, variables, pc>>,
           halted' \in BOOLEAN, status = "FAILURE" => halted', halted => halted',
           halted => position[2] > 0,
           Engine!Node.type = "STEP" =>
               (status = "SUCCESS" <=> Succeeded(position[1]) = 1..Len(Engine!Node.commands))
    PROVE  EngineInv'
<1> DEFINE e == [at |-> <<position[1], 0>>, status |-> status]
<1>0. PICK n : n = position[1]  OBVIOUS
<1>1. /\ n = position[1] /\ n \in Nat \ {0}
      /\ position' = <<n + 1, 0>> /\ position'[1] = n + 1 /\ position'[2] = 0
      /\ tree \in Seq(Nodes) /\ log \in Seq(Entries) /\ Len(tree) \in Nat
      /\ e.at = <<n, 0>> /\ e.at[1] = n /\ e.at[2] = 0 /\ e.status = status
  BY <1>0 DEF EngineInv, EngineTypes, Engine!NextNode
<1>2. e \in Entries  BY <1>1 DEF Entries
<1>3. log' = Append(log, e)  OBVIOUS
<1> HIDE DEF e
<1>4. /\ Len(log') = Len(log) + 1 /\ Len(log) \in Nat /\ log' \in Seq(Entries)
      /\ log'[Len(log) + 1] = e /\ \A i \in 1..Len(log) : log'[i] = log[i]
      /\ \A i \in 1..Len(log') : i = Len(log) + 1 \/ i \in 1..Len(log)
  BY <1>1, <1>2, <1>3, LogGrows
<1>5. /\ \A m : m # n => /\ Engine!EntriesOf(m)' = Engine!EntriesOf(m) /\ Engine!OwnEntries(m)' = Engine!OwnEntries(m)
                         /\ Succeeded(m)' = Succeeded(m)
      /\ Engine!EntriesOf(n)' = Engine!EntriesOf(n)
      /\ Engine!OwnEntries(n)' = Engine!OwnEntries(n) \cup {Len(log) + 1}
      /\ Succeeded(n)' = Succeeded(n)
  BY <1>1, <1>2, <1>3, LogGrows
<1>6. EngineTypes'
  BY <1>1, <1>4 DEF EngineInv, EngineTypes
<1>7. \A i \in 1..Len(log) : log[i].at \in Nat \X Nat /\ log[i].at[1] \in Nat /\ log[i].at[1] <= n
  <2>1. \A i \in 1..Len(log) : log[i] \in Entries  BY <1>1
  <2>2. \A i \in 1..Len(log) : log[i].at[1] <= n  BY <1>1 DEF EngineInv, LogSoFar
  <2> QED  BY <2>1, <2>2 DEF Entries
<1>8. LogSoFar'
  <2>1. \A i \in 1..Len(log') : log'[i].at[1] \in Nat /\ log'[i].at[1] <= n
    BY <1>1, <1>4, <1>7
  <2> QED  BY <1>1, <2>1 DEF LogSoFar
<1>9. HaltedByFailure'
  <2>1. ASSUME ~halted'
        PROVE  /\ \A i \in 1..Len(log') : log'[i].status # "FAILURE"
               /\ \A m \in 1..(position'[1] - 1) : Engine!OwnEntries(m)' # {}
    <3>1. ~halted /\ status # "FAILURE"  BY <2>1
    <3>2. \A i \in 1..Len(log) : log[i].status # "FAILURE"
      BY <3>1 DEF EngineInv, HaltedByFailure
    <3>3. \A m \in 1..(n - 1) : Engine!OwnEntries(m) # {}
      BY <1>1, <3>1 DEF EngineInv, HaltedByFailure
    <3>4. \A m \in 1..n : m = n \/ m \in 1..(n - 1)  BY <1>1
    <3>5. \A m \in 1..n : Engine!OwnEntries(m)' # {}  BY <1>5, <3>3, <3>4
    <3>6. \A i \in 1..Len(log') : log'[i].status # "FAILURE"  BY <1>1, <1>4, <3>1, <3>2
    <3> QED  BY <1>1, <3>5, <3>6
  <2> QED  BY <1>1, <2>1 DEF HaltedByFailure
<1>10. FilesComeFromWrites' /\ Engine!VariablesComeFromWrites'
  <2>1. \A i \in 1..Len(log) : \A p, text : WrittenBy(i, p, text) =>
            i \in 1..Len(log') /\ WrittenBy(i, p, text)'
    BY <1>1, <1>2, <1>3, WrittenStays
  <2>2. FilesComeFromWrites'  BY <2>1 DEF EngineInv, FilesComeFromWrites
  <2>3. \A p \in Paths : variables[p] # "unset" => \E i \in 1..Len(log) : WrittenBy(i, p, variables[p])
    BY VariablesOfWritten DEF EngineInv
  <2>4. \A p \in Paths : variables'[p] # "unset" => \E i \in 1..Len(log') : WrittenBy(i, p, variables[p])'
    BY <2>1, <2>3
  <2>5. Written'  BY <2>4 DEF Written
  <2>6. (Engine!VariablesComeFromWrites <=> Written)'  BY TruthOfSteps, PTL
  <2> QED  BY <2>2, <2>5, <2>6
<1>11. Engine!StepTellsTruth'
  <2> SUFFICES ASSUME NEW m \in 1..Len(tree), tree[m].type = "STEP", NEW i \in Engine!OwnEntries(m)'
               PROVE  /\ \A j \in Engine!EntriesOf(m)' : j < i
                      /\ log'[i].status = "SUCCESS" <=> Succeeded(m)' = 1..Len(tree[m].commands)
    BY DEF Engine!StepTellsTruth, Succeeded
  <2>1. CASE i \in Engine!OwnEntries(m)
    <3>1. m # n
      <4>1. i \in 1..Len(log) /\ log[i].at = <<m, 0>>  BY <2>1 DEF Engine!OwnEntries
      <4>2. log[i].at[1] = m /\ ~(log[i].at[2] > 0)  BY <4>1
      <4>3. log[i].at[1] = position[1] => log[i].at[2] > 0  BY <4>1 DEF EngineInv, LogSoFar
      <4> QED  BY <1>1, <4>2, <4>3
    <3>2. log'[i] = log[i]  BY <1>4, <2>1 DEF Engine!OwnEntries
    <3>3. /\ \A j \in Engine!EntriesOf(m) : j < i
          /\ log[i].status = "SUCCESS" <=> Succeeded(m) = 1..Len(tree[m].commands)
      BY <2>1 DEF EngineInv, Engine!StepTellsTruth, Succeeded
    <3> QED  BY <1>5, <3>1, <3>2, <3>3
  <2>2. CASE i \notin Engine!OwnEntries(m)
    <3>1. m = n /\ i = Len(log) + 1  BY <1>5, <2>2
    <3>2. tree[m] = Engine!Node  BY <1>1, <3>1 DEF Engine!Node
    <3>3. log'[i].status = status  BY <1>1, <1>4, <3>1
    <3>4. \A j \in Engine!EntriesOf(n) : j < Len(log) + 1  BY <1>4 DEF Engine!EntriesOf
    <3>5. tree[n].type = "STEP" /\ tree[n] = Engine!Node  BY <3>1, <3>2
    <3>6. status = "SUCCESS" <=> Succeeded(n) = 1..Len(tree[n].commands)  BY <1>1, <3>5
    <3>7. Engine!EntriesOf(m)' = Engine!EntriesOf(n) /\ Succeeded(m)' = Succeeded(n)  BY <1>5, <3>1
    <3> QED  BY <3>1, <3>3, <3>4, <3>6, <3>7
  <2> QED  BY <2>1, <2>2
<1>12. Engine!FailureIsLast'
  <2> SUFFICES ASSUME NEW i \in 1..Len(log'), log'[i].status = "FAILURE", log'[i].at[2] > 0,
                      NEW j \in (i + 1)..Len(log')
               PROVE  log'[j].at = <<log'[i].at[1], 0>>
    BY DEF Engine!FailureIsLast
  <2>1. i \in 1..Len(log) /\ log'[i] = log[i]  BY <1>1, <1>4
  <2>2. CASE j = Len(log) + 1
    <3>1. halted  BY <2>1 DEF EngineInv, HaltedByFailure
    <3>2. log[i].at[1] = n  BY <1>1, <2>1, <3>1 DEF EngineInv, HaltedByFailure
    <3> QED  BY <1>1, <1>4, <2>1, <2>2, <3>2
  <2>3. CASE j # Len(log) + 1
    <3>1. j \in (i + 1)..Len(log) /\ log'[j] = log[j]  BY <1>4, <2>1, <2>3
    <3> QED  BY <2>1, <3>1 DEF EngineInv, Engine!FailureIsLast
  <2> QED  BY <2>2, <2>3
<1>13. Engine!CompleteOrHalted'  BY DEF Engine!CompleteOrHalted
<1> QED  BY <1>6, <1>8, <1>9, <1>10, <1>11, <1>12, <1>13 DEF EngineInv

(* The entry of a step's command that returned or failed: the next is next. *)
LEMMA CommandEnds ==
    ASSUME EngineInv, pc = "running", ~halted, position[1] <= Len(tree),
           position[2] \in 1..Len(Engine!Node.commands),
           NEW status \in {"SUCCESS", "FAILURE"},
           log' = Append(log, [at |-> position, status |-> status]),
           position' = Engine!NextCommand, UNCHANGED <<tree, pc>>,
           halted' = (status = "FAILURE"),
           files' \in [Paths -> WrittenTexts \cup Unread],
           variables' \in [Paths -> WrittenTexts \cup {"unset"}],
           FilesComeFromWrites', Engine!VariablesComeFromWrites'
    PROVE  EngineInv'
<1> DEFINE e == [at |-> position, status |-> status]
<1>0. PICK n, c : n = position[1] /\ c = position[2]  OBVIOUS
<1>1. /\ n = position[1] /\ c = position[2] /\ n \in Nat \ {0} /\ c \in Nat \ {0}
      /\ position' = <<n, c + 1>> /\ position'[1] = n /\ position'[2] = c + 1
      /\ tree \in Seq(Nodes) /\ log \in Seq(Entries) /\ Len(tree) \in Nat /\ n \in 1..Len(tree)
      /\ position \in Nat \X Nat
      /\ e.at[1] = n /\ e.at[2] = c /\ e.status = status
  BY <1>0 DEF EngineInv, EngineTypes, Engine!NextCommand
<1>2. e \in Entries  BY <1>1 DEF Entries
<1>3. log' = Append(log, e)  OBVIOUS
<1> HIDE DEF e
<1>4. /\ Len(log') = Len(log) + 1 /\ Len(log) \in Nat /\ log' \in Seq(Entries)
      /\ log'[Len(log) + 1] = e /\ \A i \in 1..Len(log) : log'[i] = log[i]
      /\ \A i \in 1..Len(log') : i = Len(log) + 1 \/ i \in 1..Len(log)
  BY <1>1, <1>2, <1>3, LogGrows
<1>5. /\ \A m : m # n => /\ Engine!EntriesOf(m)' = Engine!EntriesOf(m) /\ Succeeded(m)' = Succeeded(m)
      /\ \A m : Engine!OwnEntries(m)' = Engine!OwnEntries(m)
      /\ Succeeded(n)' = IF status = "SUCCESS" THEN Succeeded(n) \cup {c} ELSE Succeeded(n)
  <2>1. e.at[2] > 0 /\ e.at[1] = n  BY <1>1
  <2>2. \A m : m # n => /\ Engine!EntriesOf(m)' = Engine!EntriesOf(m) /\ Succeeded(m)' = Succeeded(m)
                        /\ Engine!OwnEntries(m)' = Engine!OwnEntries(m)
    BY <1>1, <1>2, <1>3, <2>1, LogGrows
  <2>3. /\ Engine!OwnEntries(n)' = Engine!OwnEntries(n)
        /\ Succeeded(n)' = IF status = "SUCCESS" THEN Succeeded(n) \cup {c} ELSE Succeeded(n)
    BY <1>1, <1>2, <1>3, <2>1, LogGrows
  <2> QED  BY <2>2, <2>3
<1>6. /\ Engine!Node = tree[n] /\ Engine!Node' = Engine!Node
      /\ Engine!Node \in Nodes /\ Engine!Node.type = "STEP"
      /\ Len(Engine!Node.commands) \in Nat /\ c <= Len(Engine!Node.commands)
  <2>1. Engine!Node = tree[n] /\ Engine!Node' = tree[n]  BY <1>1 DEF Engine!Node
  <2>2. tree[n] \in Nodes  BY <1>1
  <2>3. Engine!Node.type = "STEP"  BY <1>1 DEF EngineInv, EngineTypes
  <2>4. Len(Engine!Node.commands) \in Nat  BY <2>1, <2>2 DEF Nodes
  <2> QED  BY <1>1, <2>1, <2>2, <2>3, <2>4
<1>7. Succeeded(n) = 1..(c - 1)  BY <1>1 DEF EngineInv, LogSoFar
<1>8. EngineTypes'
  <2>1. position' \in (Nat \ {0}) \X Nat  BY <1>1
  <2>2. c + 1 <= Len(Engine!Node.commands) + 1  BY <1>1, <1>6
  <2> QED  BY <1>1, <1>4, <1>6, <2>1, <2>2 DEF EngineTypes
<1>9. \A i \in 1..Len(log) : log[i].at[1] <= n /\ (log[i].at[1] = n => log[i].at[2] > 0)
  BY <1>1 DEF EngineInv, LogSoFar
<1>10. LogSoFar'
  <2>1. \A i \in 1..Len(log') : log'[i].at[1] <= n /\ (log'[i].at[1] = n => log'[i].at[2] > 0)
    BY <1>1, <1>4, <1>9
  <2>2. CASE status = "SUCCESS"
    <3>1. Succeeded(n)' = (1..(c - 1)) \cup {c}  BY <1>5, <1>7, <2>2
    <3>2. (1..(c - 1)) \cup {c} = 1..((c + 1) - 1)  BY <1>1
    <3>3. ~halted'  BY <2>2
    <3>4. position'[2] - 1 = (c + 1) - 1  BY <1>1
    <3>5. Succeeded(n)' = 1..(position'[2] - 1)  BY <3>1, <3>2, <3>4
    <3> QED  BY <1>1, <2>1, <3>3, <3>5 DEF LogSoFar
  <2>3. CASE status = "FAILURE"
    <3>1. Succeeded(n)' = 1..(c - 1)  BY <1>5, <1>7, <2>3
    <3>2. 1..(c - 1) # 1..Len(Engine!Node.commands)
      <4>1. c \in 1..Len(Engine!Node.commands) /\ c \notin 1..(c - 1)  BY <1>1, <1>6
      <4> QED  BY <4>1
    <3>3. halted'  BY <2>3
    <3> QED  BY <1>1, <1>6, <2>1, <3>1, <3>2, <3>3 DEF LogSoFar
  <2> QED  BY <2>2, <2>3
<1>11. \A i \in 1..Len(log) : log[i].status # "FAILURE"
  BY DEF EngineInv, HaltedByFailure
<1>12. HaltedByFailure'
  <2>1. \A i \in 1..Len(log') : log'[i].status = "FAILURE" => log'[i].at[1] = n /\ status = "FAILURE"
    BY <1>1, <1>4, <1>11
  <2>2. \A m \in 1..(n - 1) : Engine!OwnEntries(m)' # {}
    BY <1>1, <1>5 DEF EngineInv, HaltedByFailure
  <2> QED  BY <1>1, <2>1, <2>2 DEF HaltedByFailure
<1>13. Engine!StepTellsTruth'
  <2> SUFFICES ASSUME NEW m \in 1..Len(tree), tree[m].type = "STEP", NEW i \in Engine!OwnEntries(m)'
               PROVE  /\ \A j \in Engine!EntriesOf(m)' : j < i
                      /\ log'[i].status = "SUCCESS" <=> Succeeded(m)' = 1..Len(tree[m].commands)
    BY DEF Engine!StepTellsTruth, Succeeded
  <2>1. i \in Engine!OwnEntries(m)  BY <1>5
  <2>2. m # n  BY <1>1, <2>1 DEF EngineInv, LogSoFar, Engine!OwnEntries
  <2>3. log'[i] = log[i]  BY <1>4, <2>1 DEF Engine!OwnEntries
  <2>4. /\ \A j \in Engine!EntriesOf(m) : j < i
        /\ log[i].status = "SUCCESS" <=> Succeeded(m) = 1..Len(tree[m].commands)
    BY <2>1 DEF EngineInv, Engine!StepTellsTruth, Succeeded
  <2> QED  BY <1>5, <2>2, <2>3, <2>4
<1>14. Engine!FailureIsLast'
  <2>1. \A i \in 1..Len(log') : log'[i].status = "FAILURE" => i = Len(log) + 1
    BY <1>4, <1>11
  <2>2. (Len(log) + 2)..Len(log') = {}  BY <1>4
  <2> QED  BY <1>4, <2>1, <2>2 DEF Engine!FailureIsLast
<1>15. Engine!CompleteOrHalted'  BY DEF Engine!CompleteOrHalted
<1> QED  BY <1>8, <1>10, <1>12, <1>13, <1>14, <1>15 DEF EngineInv

(* A command that succeeds keeps what WRITEs have written, and adds to it. *)
LEMMA SuccessKeepsWritten ==
    ASSUME EngineInv, NEW status \in {"SUCCESS", "FAILURE"},
           log' = Append(log, [at |-> position, status |-> status]), tree' = tree
    PROVE  /\ files' = files => FilesComeFromWrites'
           /\ variables' = variables => Engine!VariablesComeFromWrites'
<1>1. log \in Seq(Entries) /\ [at |-> position, status |-> status] \in Entries
  BY DEF EngineInv, EngineTypes, Entries
<1>2. \A i \in 1..Len(log) : \A p, text : WrittenBy(i, p, text) =>
          i \in 1..Len(log') /\ WrittenBy(i, p, text)'
  BY <1>1, WrittenStays
<1>3. ASSUME files' = files PROVE FilesComeFromWrites'
  <2>1. FilesComeFromWrites  BY DEF EngineInv
  <2>2. \A p \in Paths : files[p] \notin Unread => \E i \in 1..Len(log') : WrittenBy(i, p, files[p])'
    BY <1>2, <1>3, <2>1 DEF FilesComeFromWrites
  <2> QED  BY <1>3, <2>2 DEF FilesComeFromWrites
<1>4. ASSUME variables' = variables PROVE Engine!VariablesComeFromWrites'
  <2>1. \A p \in Paths : variables[p] # "unset" => \E i \in 1..Len(log) : WrittenBy(i, p, variables[p])
    BY VariablesOfWritten DEF EngineInv
  <2>2. \A p \in Paths : variables'[p] # "unset" => \E i \in 1..Len(log') : WrittenBy(i, p, variables[p])'
    BY <1>2, <1>4, <2>1
  <2>3. Written'  BY <2>2 DEF Written
  <2>4. (Engine!VariablesComeFromWrites <=> Written)'  BY TruthOfSteps, PTL
  <2> QED  BY <2>3, <2>4
<1> QED  BY <1>3, <1>4

(* Where a tool is called there is a command of a step, or a comment. *)
LEMMA AtACommand ==
    ASSUME EngineInv, NEW type, Engine!AtCommand(type), type # "STEP", type # "TASK"
    PROVE  /\ pc = "running" /\ ~halted /\ position[1] \in 1..Len(tree)
           /\ IF position[2] = 0 THEN Engine!Node.type = "COMMENT" /\ type = "COMMENT"
              ELSE /\ position[2] \in 1..Len(Engine!Node.commands) /\ Engine!Node.type = "STEP"
                   /\ Engine!Command \in Engine!Commands /\ Engine!Command.type = type
<1>1. pc = "running" /\ ~halted /\ position[1] \in 1..Len(tree) /\ tree \in Seq(Nodes)
      /\ position[2] \in Nat
  BY DEF Engine!AtCommand, Engine!AtNode, EngineInv, EngineTypes
<1>2. Engine!Node \in Nodes  BY <1>1 DEF Engine!Node
<1>3. CASE position[2] = 0
  <2>1. Engine!Node.type = type  BY <1>3 DEF Engine!AtCommand
  <2> QED  BY <1>1, <1>2, <1>3, <2>1 DEF Nodes
<1>4. CASE position[2] # 0
  <2>1. position[2] \in 1..Len(Engine!Node.commands) /\ Engine!Command.type = type
    BY <1>4 DEF Engine!AtCommand, Engine!Command
  <2>2. Engine!Node.type = "STEP"  BY <1>1, <1>4 DEF EngineInv, EngineTypes
  <2>3. Engine!Node.commands \in Seq(Engine!Commands)  BY <1>2 DEF Nodes
  <2>4. Engine!Command \in Engine!Commands  BY <2>1, <2>3 DEF Engine!Command
  <2> QED  BY <1>1, <1>4, <2>1, <2>2, <2>4
<1> QED  BY <1>3, <1>4

LEMMA HaltKeeps ==
    ASSUME EngineInv, NEW type, Engine!AtCommand(type), type # "STEP", type # "TASK", Engine!Halt
    PROVE  EngineInv'
<1>1. /\ pc = "running" /\ ~halted /\ position[1] \in 1..Len(tree) /\ tree \in Seq(Nodes)
      /\ position \in (Nat \ {0}) \X Nat
      /\ files \in [Paths -> WrittenTexts \cup Unread]
      /\ variables \in [Paths -> WrittenTexts \cup {"unset"}]
  BY AtACommand DEF EngineInv, EngineTypes
<1>2. /\ log' = Append(log, [at |-> position, status |-> "FAILURE"]) /\ halted'
      /\ halted' = TRUE
      /\ UNCHANGED <<tree, files, variables, pc>>
      /\ position' = IF position[2] = 0 THEN Engine!NextNode ELSE Engine!NextCommand
  BY DEF Engine!Halt, Engine!Log, Engine!Advance
<1>3. CASE position[2] = 0
  <2>1. position = <<position[1], 0>> /\ Engine!Node.type = "COMMENT"  BY <1>1, <1>3, AtACommand
  <2>2. position[1] <= Len(tree)  BY <1>1
  <2> QED  BY <1>1, <1>2, <1>3, <2>1, <2>2, NodeEnds
<1>4. CASE position[2] # 0
  <2>1. position[2] \in 1..Len(Engine!Node.commands)  BY <1>4, AtACommand
  <2>2. FilesComeFromWrites' /\ Engine!VariablesComeFromWrites'  BY <1>2, SuccessKeepsWritten
  <2>3. position[1] <= Len(tree)  BY <1>1
  <2> QED  BY <1>1, <1>2, <1>4, <2>1, <2>2, <2>3, CommandEnds
<1> QED  BY <1>3, <1>4

(* An exception ends the run at the command; its entry is no success. *)
LEMMA EscapeKeeps ==
    ASSUME EngineInv, NEW type \in {"READ", "ASSERT"}, Engine!AtCommand(type), Engine!Escape
    PROVE  EngineInv'
<1> DEFINE e == [at |-> position, status |-> "SKIPPED"]
<1>0. PICK n, c : n = position[1] /\ c = position[2]  OBVIOUS
<1>1. /\ n = position[1] /\ c = position[2] /\ n \in Nat \ {0} /\ c \in Nat \ {0}
      /\ position \in Nat \X Nat /\ log \in Seq(Entries)
      /\ log' = Append(log, e) /\ pc' = "raised" /\ pc = "running" /\ ~halted
      /\ UNCHANGED <<tree, position, files, variables, halted>>
      /\ e.at[1] = n /\ e.at[2] = c /\ e.status = "SKIPPED"
  BY <1>0, AtACommand DEF Engine!Escape, Engine!Log, EngineInv, EngineTypes
<1>2. e \in Entries  BY <1>1 DEF Entries
<1> HIDE DEF e
<1>3. /\ Len(log') = Len(log) + 1 /\ Len(log) \in Nat /\ log' \in Seq(Entries)
      /\ log'[Len(log) + 1] = e /\ \A i \in 1..Len(log) : log'[i] = log[i]
      /\ \A i \in 1..Len(log') : i = Len(log) + 1 \/ i \in 1..Len(log)
  BY <1>1, <1>2, LogGrows
<1>4. /\ \A m : m # n => Engine!EntriesOf(m)' = Engine!EntriesOf(m) /\ Succeeded(m)' = Succeeded(m)
      /\ \A m : Engine!OwnEntries(m)' = Engine!OwnEntries(m)
  <2>1. e.at[2] > 0 /\ e.at[1] = n  BY <1>1
  <2>2. \A m : m # n => /\ Engine!EntriesOf(m)' = Engine!EntriesOf(m) /\ Succeeded(m)' = Succeeded(m)
                        /\ Engine!OwnEntries(m)' = Engine!OwnEntries(m)
    BY <1>1, <1>2, <2>1, LogGrows
  <2>3. Engine!OwnEntries(n)' = Engine!OwnEntries(n)  BY <1>1, <1>2, <2>1, LogGrows
  <2> QED  BY <2>2, <2>3
<1>5. EngineTypes'
  <2>1. Engine!Node' = Engine!Node  BY <1>1 DEF Engine!Node
  <2> QED  BY <1>1, <1>3, <2>1 DEF EngineInv, EngineTypes
<1>6. LogSoFar'
  <2>1. \A i \in 1..Len(log) : log[i].at[1] <= n /\ (log[i].at[1] = n => log[i].at[2] > 0)
    BY <1>1 DEF EngineInv, LogSoFar
  <2>2. \A i \in 1..Len(log') : log'[i].at[1] <= n /\ (log'[i].at[1] = n => log'[i].at[2] > 0)
    BY <1>1, <1>3, <2>1
  <2> QED  BY <1>1, <2>2 DEF LogSoFar
<1>7. \A i \in 1..Len(log') : log'[i].status # "FAILURE"
  BY <1>1, <1>3 DEF EngineInv, HaltedByFailure
<1>8. HaltedByFailure'
  <2>1. \A m \in 1..(n - 1) : Engine!OwnEntries(m)' # {}
    BY <1>1, <1>4 DEF EngineInv, HaltedByFailure
  <2>2. position'[1] = n  BY <1>1
  <2>3. \A i \in 1..Len(log') : ~ (log'[i].status = "FAILURE" /\ log'[i].at[2] > 0)  BY <1>7
  <2> QED  BY <1>7, <2>1, <2>2, <2>3, Zenon DEF HaltedByFailure
<1>9. FilesComeFromWrites' /\ Engine!VariablesComeFromWrites'
  <2>1. \A i \in 1..Len(log) : \A p, text : WrittenBy(i, p, text) =>
            i \in 1..Len(log') /\ WrittenBy(i, p, text)'
    BY <1>1, <1>2, WrittenStays
  <2>2. FilesComeFromWrites'  BY <1>1, <2>1 DEF EngineInv, FilesComeFromWrites
  <2>3. \A p \in Paths : variables[p] # "unset" => \E i \in 1..Len(log) : WrittenBy(i, p, variables[p])
    BY VariablesOfWritten DEF EngineInv
  <2>4. \A p \in Paths : variables'[p] # "unset" => \E i \in 1..Len(log') : WrittenBy(i, p, variables[p])'
    BY <1>1, <2>1, <2>3
  <2>5. Written'  BY <2>4 DEF Written
  <2>6. (Engine!VariablesComeFromWrites <=> Written)'  BY TruthOfSteps, PTL
  <2> QED  BY <2>2, <2>5, <2>6
<1>10. Engine!StepTellsTruth'
  <2> SUFFICES ASSUME NEW m \in 1..Len(tree), tree[m].type = "STEP", NEW i \in Engine!OwnEntries(m)'
               PROVE  /\ \A j \in Engine!EntriesOf(m)' : j < i
                      /\ log'[i].status = "SUCCESS" <=> Succeeded(m)' = 1..Len(tree[m].commands)
    BY <1>1 DEF Engine!StepTellsTruth, Succeeded
  <2>1. i \in Engine!OwnEntries(m)  BY <1>4
  <2>2. m # n  BY <1>1, <2>1 DEF EngineInv, LogSoFar, Engine!OwnEntries
  <2>3. log'[i] = log[i]  BY <1>3, <2>1 DEF Engine!OwnEntries
  <2>4. /\ \A j \in Engine!EntriesOf(m) : j < i
        /\ log[i].status = "SUCCESS" <=> Succeeded(m) = 1..Len(tree[m].commands)
    BY <2>1 DEF EngineInv, Engine!StepTellsTruth, Succeeded
  <2> QED  BY <1>4, <2>2, <2>3, <2>4
<1>11. Engine!FailureIsLast'  BY <1>7 DEF Engine!FailureIsLast
<1>12. Engine!CompleteOrHalted'  BY <1>1 DEF Engine!CompleteOrHalted
<1> QED  BY <1>5, <1>6, <1>8, <1>9, <1>10, <1>11, <1>12 DEF EngineInv

LEMMA TaskKeeps == ASSUME EngineInv, Engine!ExecuteTask PROVE EngineInv'
<1>1. pc = "running" /\ position[1] <= Len(tree) /\ ~halted /\ Engine!Node.type = "TASK"
  BY DEF Engine!ExecuteTask, Engine!AtNode
<1>2. position \in (Nat \ {0}) \X Nat /\ position[2] = 0
  BY <1>1 DEF EngineInv, EngineTypes
<1>3. position = <<position[1], 0>>  BY <1>2
<1>4. log' = Append(log, [at |-> <<position[1], 0>>, status |-> "SUCCESS"])
  BY <1>3 DEF Engine!ExecuteTask, Engine!Log
<1>5. halted \in BOOLEAN  BY DEF EngineInv, EngineTypes
<1> QED  BY <1>1, <1>4, <1>5, NodeEnds DEF Engine!ExecuteTask

LEMMA EndStepKeeps == ASSUME EngineInv, Engine!EndStep PROVE EngineInv'
<1> DEFINE status == IF halted THEN "FAILURE" ELSE "SUCCESS"
<1>1. /\ pc = "running" /\ position[1] <= Len(tree) /\ position[2] > 0 /\ halted \in BOOLEAN
      /\ tree \in Seq(Nodes) /\ position \in (Nat \ {0}) \X Nat
      /\ position[2] <= Len(Engine!Node.commands) + 1
  BY DEF Engine!EndStep, Engine!AtNode, EngineInv, EngineTypes
<1>2. Len(Engine!Node.commands) \in Nat
  <2>1. tree[position[1]] \in Nodes  BY <1>1
  <2> QED  BY <2>1 DEF Engine!Node, Nodes
<1>3. status = "SUCCESS" <=> Succeeded(position[1]) = 1..Len(Engine!Node.commands)
  <2>1. CASE halted  BY <1>1, <2>1 DEF EngineInv, LogSoFar
  <2>2. CASE ~halted
    <3>1. position[2] - 1 = Len(Engine!Node.commands)  BY <1>1, <1>2, <2>2 DEF Engine!EndStep
    <3> QED  BY <1>1, <2>2, <3>1 DEF EngineInv, LogSoFar
  <2> QED  BY <2>1, <2>2
<1>4. /\ log' = Append(log, [at |-> <<position[1], 0>>, status |-> status])
      /\ position' = Engine!NextNode /\ UNCHANGED <<tree, files, variables, pc>> /\ halted' = halted
  BY DEF Engine!EndStep
<1>5. status \in {"SUCCESS", "FAILURE"} /\ (status = "FAILURE" => halted)  OBVIOUS
<1> HIDE DEF status
<1> QED  BY <1>1, <1>3, <1>4, <1>5, NodeEnds

(* A command that returns: RUN and ASSERT change no file and no variable. *)
LEMMA SucceedKeeps ==
    ASSUME EngineInv, NEW type \in {"RUN", "WRITE", "READ", "ASSERT"}, Engine!AtCommand(type), Engine!Succeed,
           files' \in [Paths -> WrittenTexts \cup Unread],
           variables' \in [Paths -> WrittenTexts \cup {"unset"}],
           FilesComeFromWrites', Engine!VariablesComeFromWrites'
    PROVE  EngineInv'
<1>1. /\ pc = "running" /\ ~halted /\ position[1] <= Len(tree) /\ halted \in BOOLEAN
      /\ position[2] \in 1..Len(Engine!Node.commands) /\ position[2] # 0
  BY AtACommand DEF EngineInv, EngineTypes
<1>2. /\ log' = Append(log, [at |-> position, status |-> "SUCCESS"]) /\ position' = Engine!NextCommand
      /\ UNCHANGED <<tree, pc>> /\ halted' = halted
  BY <1>1 DEF Engine!Succeed, Engine!Log, Engine!Advance
<1>3. halted' = ("SUCCESS" = "FAILURE")  BY <1>1, <1>2
<1> QED  BY <1>1, <1>2, <1>3, CommandEnds

LEMMA SucceedUnchanged ==
    ASSUME EngineInv, NEW type \in {"RUN", "WRITE", "READ", "ASSERT"}, Engine!AtCommand(type), Engine!Succeed,
           UNCHANGED <<files, variables>>
    PROVE  EngineInv'
<1>1. log' = Append(log, [at |-> position, status |-> "SUCCESS"]) /\ tree' = tree
  BY DEF Engine!Succeed, Engine!Log
<1>2. FilesComeFromWrites' /\ Engine!VariablesComeFromWrites'  BY <1>1, SuccessKeepsWritten
<1>3. files' \in [Paths -> WrittenTexts \cup Unread] /\ variables' \in [Paths -> WrittenTexts \cup {"unset"}]
  BY DEF EngineInv, EngineTypes
<1> QED  BY <1>2, <1>3, SucceedKeeps

LEMMA WriteKeeps == ASSUME EngineInv, Engine!WriteFile PROVE EngineInv'
<1>1. Engine!AtCommand("WRITE")  BY DEF Engine!WriteFile
<1>2. CASE Engine!Halt  BY <1>1, <1>2, HaltKeeps
<1>3. CASE ~(Engine!Command.path = "outside" \/ files[Engine!Command.path] = "unwritable")
  <2>1. /\ files' = [files EXCEPT ![Engine!Command.path] = Engine!Command.arg]
        /\ Engine!Succeed /\ variables' = variables
    BY <1>3 DEF Engine!WriteFile
  <2>2. Engine!Command \in Engine!Commands /\ Engine!Command.type = "WRITE" /\ position[2] # 0
        /\ Engine!Command.path # "outside"
    BY <1>1, <1>3, AtACommand
  <2>3. Engine!Command.path \in Paths /\ Engine!Command.arg \in WrittenTexts  BY <2>2 DEF Engine!Commands
  <2>4. log' = Append(log, [at |-> position, status |-> "SUCCESS"]) /\ tree' = tree
    BY <2>1 DEF Engine!Succeed, Engine!Log
  <2>5. files \in [Paths -> WrittenTexts \cup Unread]
        /\ variables' \in [Paths -> WrittenTexts \cup {"unset"}]
        /\ log \in Seq(Entries) /\ position \in (Nat \ {0}) \X Nat
        /\ [at |-> position, status |-> "SUCCESS"] \in Entries
    BY <2>1 DEF EngineInv, EngineTypes, Entries
  <2>6. files' \in [Paths -> WrittenTexts \cup Unread]
        /\ files'[Engine!Command.path] = Engine!Command.arg
        /\ \A p \in Paths : p # Engine!Command.path => files'[p] = files[p]
    BY <2>1, <2>3, <2>5
  <2>7. Engine!VariablesComeFromWrites'  BY <2>1, <2>4, SuccessKeepsWritten, SMTT(30)
  <2>8. FilesComeFromWrites'
    <3>1. \A i \in 1..Len(log) : \A p, text : WrittenBy(i, p, text) =>
              i \in 1..Len(log') /\ WrittenBy(i, p, text)'
      BY <2>4, <2>5, WrittenStays
    <3>2. /\ Len(log) + 1 \in 1..Len(log')
          /\ log'[Len(log) + 1] = [at |-> position, status |-> "SUCCESS"]
      BY <2>4, <2>5, LogGrows
    <3>3. tree'[position[1]].commands[position[2]] = Engine!Command  BY <2>4 DEF Engine!Command, Engine!Node
    <3>4. PICK q, text : q = Engine!Command.path /\ text = Engine!Command.arg  OBVIOUS
    <3>5. PICK k : k = Len(log) + 1  OBVIOUS
    <3>6. /\ k \in 1..Len(log') /\ log'[k].status = "SUCCESS" /\ log'[k].at[2] > 0
          /\ tree'[log'[k].at[1]].commands[log'[k].at[2]] = Engine!Command
      BY <2>2, <2>5, <3>2, <3>3, <3>5
    <3>7. Engine!Command.type = "WRITE" /\ Engine!Command.path = q /\ Engine!Command.arg = text  BY <2>2, <3>4
    <3>8. WrittenBy(k, q, text)'  BY <3>6, <3>7 DEF WrittenBy
    <3>9. \A p \in Paths : files[p] \notin Unread => \E i \in 1..Len(log) : WrittenBy(i, p, files[p])
      BY DEF EngineInv, FilesComeFromWrites
    <3>10. ASSUME NEW p \in Paths, NEW held, held = files'[p], held \notin Unread
           PROVE  \E i \in 1..Len(log') : WrittenBy(i, p, held)'
      <4>1. CASE p = q  BY <2>6, <3>4, <3>6, <3>8, <3>10, <4>1
      <4>2. CASE p # q  BY <2>6, <3>1, <3>4, <3>9, <3>10, <4>2
      <4> QED  BY <4>1, <4>2
    <3>11. \A p \in Paths : files'[p] \notin Unread =>
              \E i \in 1..Len(log') : WrittenBy(i, p, files[p])'
      BY <3>10 DEF WrittenBy
    <3> QED  BY <3>11 DEF FilesComeFromWrites, WrittenBy
  <2> QED  BY <1>1, <2>1, <2>5, <2>6, <2>7, <2>8, SucceedKeeps
<1> QED  BY <1>2, <1>3 DEF Engine!WriteFile

LEMMA ReadKeeps == ASSUME EngineInv, Engine!ReadFile PROVE EngineInv'
<1>1. Engine!AtCommand("READ")  BY DEF Engine!ReadFile
<1>2. CASE Engine!Halt  BY <1>1, <1>2, HaltKeeps
<1>3. CASE Engine!Escape  BY <1>1, <1>3, EscapeKeeps
<1>4. CASE ~Engine!Halt /\ ~Engine!Escape
  <2>1. /\ variables' = [variables EXCEPT ![Engine!Command.path] = files[Engine!Command.path]]
        /\ Engine!Succeed /\ files' = files
        /\ Engine!Command.path # "outside"
        /\ Engine!Command.path \in Paths => files[Engine!Command.path] \notin Unread
    BY <1>4 DEF Engine!ReadFile, Unread
  <2>2. Engine!Command \in Engine!Commands /\ Engine!Command.type = "READ" /\ position[2] # 0
    BY <1>1, AtACommand
  <2>3. Engine!Command.path \in Paths  BY <2>1, <2>2 DEF Engine!Commands
  <2>4. log' = Append(log, [at |-> position, status |-> "SUCCESS"]) /\ tree' = tree
    BY <2>1 DEF Engine!Succeed, Engine!Log
  <2>5. /\ files \in [Paths -> WrittenTexts \cup Unread]
        /\ variables \in [Paths -> WrittenTexts \cup {"unset"}]
        /\ log \in Seq(Entries) /\ [at |-> position, status |-> "SUCCESS"] \in Entries
    BY DEF EngineInv, EngineTypes, Entries
  <2>6. PICK q : q = Engine!Command.path  OBVIOUS
  <2>7. /\ variables' \in [Paths -> WrittenTexts \cup {"unset"}]
        /\ variables'[q] = files[q]
        /\ \A p \in Paths : p # q => variables'[p] = variables[p]
    BY <2>1, <2>3, <2>5, <2>6
  <2>8. FilesComeFromWrites'  BY <2>1, <2>4, SuccessKeepsWritten, SMTT(30)
  <2>9. Engine!VariablesComeFromWrites'
    <3>1. \A i \in 1..Len(log) : \A p, text : WrittenBy(i, p, text) =>
              i \in 1..Len(log') /\ WrittenBy(i, p, text)'
      BY <2>4, <2>5, WrittenStays
    <3>2. \E i \in 1..Len(log) : WrittenBy(i, q, files[q])
      BY <2>1, <2>3, <2>6 DEF EngineInv, FilesComeFromWrites
    <3>3. \A p \in Paths : variables[p] # "unset" =>
              \E i \in 1..Len(log) : WrittenBy(i, p, variables[p])
      BY VariablesOfWritten DEF EngineInv
    <3>4. \A p \in Paths : \E text : text = variables'[p]  OBVIOUS
    <3>5. ASSUME NEW p \in Paths, NEW text, text = variables'[p], text # "unset"
          PROVE  \E i \in 1..Len(log') : WrittenBy(i, p, text)'
      <4>1. CASE p = q  BY <2>7, <3>1, <3>2, <3>5, <4>1
      <4>2. CASE p # q  BY <2>7, <3>1, <3>3, <3>5, <4>2
      <4> QED  BY <4>1, <4>2
    <3>6. Written'  BY <3>5 DEF Written
    <3>7. (Engine!VariablesComeFromWrites <=> Written)'  BY TruthOfSteps, PTL
    <3> QED  BY <3>6, <3>7
  <2> QED  BY <1>1, <2>1, <2>5, <2>7, <2>8, <2>9, SucceedKeeps
<1> QED  BY <1>2, <1>3, <1>4

LEMMA ToolKeeps == ASSUME EngineInv, Engine!Tool PROVE EngineInv'
<1>1. CASE Engine!Unregistered  BY <1>1, HaltKeeps DEF Engine!Unregistered
<1>2. CASE Engine!RunCommand
  <2>1. Engine!AtCommand("RUN")  BY <1>2 DEF Engine!RunCommand
  <2>2. CASE Engine!Halt  BY <2>1, <2>2, HaltKeeps
  <2>3. CASE Engine!Succeed /\ UNCHANGED <<files, variables>>  BY <2>1, <2>3, SucceedUnchanged
  <2> QED  BY <1>2, <2>2, <2>3 DEF Engine!RunCommand
<1>3. CASE Engine!AssertCondition
  <2>1. Engine!AtCommand("ASSERT")  BY <1>3 DEF Engine!AssertCondition
  <2>2. CASE Engine!Halt  BY <2>1, <2>2, HaltKeeps
  <2>3. CASE Engine!Escape  BY <2>1, <2>3, EscapeKeeps
  <2>4. CASE Engine!Succeed /\ UNCHANGED <<files, variables>>  BY <2>1, <2>4, SucceedUnchanged
  <2> QED  BY <1>3, <2>2, <2>3, <2>4 DEF Engine!AssertCondition
<1> QED  BY <1>1, <1>2, <1>3, WriteKeeps, ReadKeeps DEF Engine!Tool

LEMMA EngineNext == EngineInv /\ [Engine!Next]_(Engine!vars) => EngineInv'
<1> SUFFICES ASSUME EngineInv, [Engine!Next]_(Engine!vars) PROVE EngineInv'  OBVIOUS
<1>1. CASE UNCHANGED Engine!vars
  <2>1. UNCHANGED <<tree, position, files, variables, halted, log, pc>>  BY <1>1 DEF Engine!vars
  <2>2. EngineTypes'  BY <2>1 DEF EngineInv, EngineTypes, Engine!Node
  <2>3. LogSoFar'  BY <2>1 DEF EngineInv, LogSoFar, Engine!Node, Succeeded, Engine!EntriesOf
  <2>4. HaltedByFailure'  BY <2>1 DEF EngineInv, HaltedByFailure, Engine!OwnEntries
  <2>5. FilesComeFromWrites'  BY <2>1 DEF EngineInv, FilesComeFromWrites, WrittenBy
  <2>6. Engine!StepTellsTruth'
    <3>1. Truth  BY TruthOfSteps DEF EngineInv
    <3>2. \A m : Engine!EntriesOf(m)' = Engine!EntriesOf(m) /\ Engine!OwnEntries(m)' = Engine!OwnEntries(m)
      BY <2>1 DEF Engine!EntriesOf, Engine!OwnEntries
    <3>3. \A m : Succeeded(m)' = Succeeded(m)  BY <2>1, <3>2 DEF Succeeded
    <3>4. Truth'  BY <2>1, <3>1, <3>2, <3>3 DEF Truth
    <3>5. (Engine!StepTellsTruth <=> Truth)'  BY TruthOfSteps, PTL
    <3> QED  BY <3>4, <3>5
  <2>7. Engine!FailureIsLast'  BY <2>1 DEF EngineInv, Engine!FailureIsLast
  <2>8. Engine!CompleteOrHalted'  BY <2>1 DEF EngineInv, Engine!CompleteOrHalted, Engine!OwnEntries
  <2>9. Engine!VariablesComeFromWrites'  BY <2>1 DEF EngineInv, Engine!VariablesComeFromWrites
  <2> QED  BY <2>2, <2>3, <2>4, <2>5, <2>6, <2>7, <2>8, <2>9 DEF EngineInv
<1> QED  BY <1>1, BuildingKeeps, SilentKeeps, TaskKeeps, EndStepKeeps, ToolKeeps DEF Engine!Next

(* The engine by itself. *)
LEMMA EngineLog ==
    Engine!Init /\ [][Engine!Next]_(Engine!vars) =>
        [](/\ Engine!StepTellsTruth /\ Engine!FailureIsLast
           /\ Engine!CompleteOrHalted /\ Engine!VariablesComeFromWrites)
<1>1. EngineInv => /\ Engine!StepTellsTruth /\ Engine!FailureIsLast
                   /\ Engine!CompleteOrHalted /\ Engine!VariablesComeFromWrites
  BY DEF EngineInv
<1> QED  BY EngineInit, EngineNext, <1>1, PTL

-----------------------------------------------------------------------------
(*****************************************************************************)
(* The chart, for histories of any length and any prices.  A set of prices has *)
(* a least and a greatest member: the least counterexample of the library's  *)
(* well-founded induction gives them, and the row of a price grows with it.  *)
(*****************************************************************************)
(* Least numbers, from the order of the naturals being well-founded. *)
Less == {ss \in Nat \X Nat : ss[1] < ss[2]}

LEMMA HasLeast == ASSUME NEW T, T \subseteq Nat, T # {} PROVE \E n \in T : \A m \in T : n <= m
<1>1. IsWellFoundedOn(Less, Nat)
  BY NatLessThanWellFounded DEF Less, OpToRel
<1>2. \E n \in T : \A m \in T : ~ (<<m, n>> \in Less)
  BY <1>1, WFMin
<1>3. PICK n \in T : \A m \in T : ~ (<<m, n>> \in Less)
  BY <1>2
<1>4. ASSUME NEW m \in T PROVE n <= m
  <2>1. n \in Nat /\ m \in Nat  OBVIOUS
  <2>2. <<m, n>> \in Less <=> m < n  BY <2>1 DEF Less
  <2> QED  BY <1>3, <2>1, <2>2
<1> QED  BY <1>4

LEMMA LeastAndGreatest ==
    ASSUME NEW S, S # {}, S \subseteq (-Largest)..Largest
    PROVE  /\ Trading!Min(S) \in S /\ \A v \in S : Trading!Min(S) <= v
           /\ Trading!Max(S) \in S /\ \A v \in S : v <= Trading!Max(S)
<1> USE ChartAssumption
<1>1. \E m \in S : \A v \in S : m <= v
  <2> DEFINE T == {v + Largest : v \in S}
  <2>1. T \subseteq Nat /\ T # {}  OBVIOUS
  <2>2. PICK n \in T : \A k \in T : n <= k  BY <2>1, HasLeast
  <2>3. PICK m \in S : n = m + Largest  BY <2>2
  <2>4. \A v \in S : m <= v
    <3> TAKE v \in S
    <3>1. n <= v + Largest  BY <2>2
    <3> QED  BY <2>3, <3>1
  <2> QED  BY <2>4
<1>2. \E m \in S : \A v \in S : v <= m
  <2> DEFINE T == {Largest - v : v \in S}
  <2>1. T \subseteq Nat /\ T # {}  OBVIOUS
  <2>2. PICK n \in T : \A k \in T : n <= k  BY <2>1, HasLeast
  <2>3. PICK m \in S : n = Largest - m  BY <2>2
  <2>4. \A v \in S : v <= m
    <3> TAKE v \in S
    <3>1. n <= Largest - v  BY <2>2
    <3> QED  BY <2>3, <3>1
  <2> QED  BY <2>4
<1>3. Trading!Min(S) \in S /\ \A v \in S : Trading!Min(S) <= v
  BY <1>1 DEF Trading!Min
<1>4. Trading!Max(S) \in S /\ \A v \in S : Trading!Max(S) >= v
  <2>1. \E m \in S : \A v \in S : m >= v  BY <1>2
  <2> QED  BY <2>1 DEF Trading!Max
<1> QED  BY <1>3, <1>4

(* Division rounds down, in order. *)
LEMMA DivisionKeepsOrder ==
    ASSUME NEW a \in Int, NEW b \in Int, NEW d \in Nat \ {0}, a <= b
    PROVE  a \div d \in Int /\ b \div d \in Int /\ a \div d <= b \div d
OBVIOUS

LEMMA DivisionUndone ==
    ASSUME NEW k \in Nat \ {0}, NEW h \in Int
    PROVE  (k * h) \div k = h /\ 0 \div k = 0
OBVIOUS

LEMMA ProductKeepsOrder ==
    ASSUME NEW a \in Int, NEW b \in Int, NEW h \in Nat, a <= b
    PROVE  a * h \in Int /\ b * h \in Int /\ a * h <= b * h
OBVIOUS

HistoryOK == history \in Seq(ChartBars)

LEMMA HistoryIsOfBars == Trading!Init /\ [][Trading!Next]_(Trading!vars) => []HistoryOK
<1>1. Trading!Init => HistoryOK  BY DEF Trading!Init, HistoryOK
<1>2. HistoryOK /\ [Trading!Next]_(Trading!vars) => HistoryOK'
  <2> SUFFICES ASSUME HistoryOK, [Trading!Next]_(Trading!vars) PROVE HistoryOK'  OBVIOUS
  <2>1. CASE Trading!AddBar  BY <2>1 DEF HistoryOK, Trading!AddBar
  <2>2. CASE UNCHANGED history  BY <2>2 DEF HistoryOK
  <2> QED
    BY <2>1, <2>2 DEF Trading!Next, Trading!vars, Trading!Run, Trading!Connect, Trading!LoadModel,
       Trading!FetchMarketData, Trading!DrawChart, Trading!GetSignal, Trading!ExecuteTrade,
       Trading!Disconnect
<1> QED  BY <1>1, <1>2, PTL

LEMMA BarsOfHistory ==
    ASSUME HistoryOK, NEW n \in DOMAIN history
    PROVE  /\ history[n] \in ChartBars
           /\ {history[n].open, history[n].high, history[n].low, history[n].close}
                \subseteq (-Largest)..Largest
           /\ history[n].volume \in 0..Largest /\ history[n].low <= history[n].high
BY ChartAssumption DEF HistoryOK

(* The bounds of the chart and its scale. *)
LEMMA PricesInBounds ==
    ASSUME HistoryOK, history # <<>>
    PROVE  /\ Trading!MinPrice \in Int /\ Trading!MaxPrice \in Int
           /\ Trading!MinPrice <= Trading!MaxPrice
           /\ Trading!Range_ \in Nat \ {0}
           /\ \A n \in DOMAIN history : Trading!MinPrice <= history[n].low
           /\ \A n \in DOMAIN history : history[n].high <= Trading!MaxPrice
<1>1. 1 \in DOMAIN history  BY DEF HistoryOK
<1>2. /\ Trading!Values("low") = {history[n].low : n \in DOMAIN history}
      /\ Trading!Values("high") = {history[n].high : n \in DOMAIN history}
  BY DEF Trading!Values
<1>3. /\ Trading!Values("low") # {} /\ Trading!Values("low") \subseteq (-Largest)..Largest
      /\ Trading!Values("high") # {} /\ Trading!Values("high") \subseteq (-Largest)..Largest
  <2>1. \A n \in DOMAIN history : history[n].low \in (-Largest)..Largest /\ history[n].high \in (-Largest)..Largest
    BY BarsOfHistory
  <2> DEFINE Low == {history[n].low : n \in DOMAIN history}
             High == {history[n].high : n \in DOMAIN history}
  <2>2. Low # {} /\ High # {}  BY <1>1
  <2>3. Low \subseteq (-Largest)..Largest  BY <2>1
  <2>4. High \subseteq (-Largest)..Largest  BY <2>1
  <2>5. Trading!Values("low") = Low /\ Trading!Values("high") = High  BY <1>2
  <2> QED  BY <2>2, <2>3, <2>4, <2>5
<1>4. /\ Trading!MinPrice \in Trading!Values("low")
      /\ \A v \in Trading!Values("low") : Trading!MinPrice <= v
      /\ Trading!MaxPrice \in Trading!Values("high")
      /\ \A v \in Trading!Values("high") : v <= Trading!MaxPrice
  BY <1>3, LeastAndGreatest DEF Trading!MinPrice, Trading!MaxPrice
<1>5. \A n \in DOMAIN history : Trading!MinPrice <= history[n].low /\ history[n].high <= Trading!MaxPrice
  BY <1>2, <1>4
<1>6. Trading!MinPrice \in Int /\ Trading!MaxPrice \in Int  BY <1>3, <1>4, ChartAssumption
<1>7. history[1].low \in Int /\ history[1].high \in Int /\ history[1].low <= history[1].high
  BY <1>1, BarsOfHistory, ChartAssumption
<1>8. Trading!MinPrice <= Trading!MaxPrice  BY <1>1, <1>5, <1>6, <1>7
<1> QED  BY <1>5, <1>6, <1>8 DEF Trading!Range_

LEMMA RowsOfPrices ==
    ASSUME HistoryOK, history # <<>>
    PROVE  /\ \A p, q \in Int : p <= q => Trading!PriceRow(p) <= Trading!PriceRow(q)
           /\ Trading!PriceRow(Trading!MinPrice) = 0
           /\ Trading!MaxPrice # Trading!MinPrice => Trading!PriceRow(Trading!MaxPrice) = Height - 1
<1>1. /\ Trading!MinPrice \in Int /\ Trading!MaxPrice \in Int /\ Trading!Range_ \in Nat \ {0}
      /\ Trading!MinPrice <= Trading!MaxPrice /\ Height - 1 \in Nat
  BY PricesInBounds, ChartAssumption
<1>2. \A p \in Int : Trading!PriceRow(p) = ((p - Trading!MinPrice) * (Height - 1)) \div Trading!Range_
  <2> TAKE p \in Int
  <2>1. Trading!MinPrice * 1 = Trading!MinPrice /\ Trading!Range_ * 1 = Trading!Range_  BY <1>1
  <2> QED  BY <2>1 DEF Trading!PriceRow, Trading!Row
<1>3. ASSUME NEW p \in Int, NEW q \in Int, p <= q PROVE Trading!PriceRow(p) <= Trading!PriceRow(q)
  <2>1. p - Trading!MinPrice \in Int /\ q - Trading!MinPrice \in Int /\ p - Trading!MinPrice <= q - Trading!MinPrice
    BY <1>1, <1>3
  <2>2. /\ (p - Trading!MinPrice) * (Height - 1) \in Int /\ (q - Trading!MinPrice) * (Height - 1) \in Int
        /\ (p - Trading!MinPrice) * (Height - 1) <= (q - Trading!MinPrice) * (Height - 1)
    BY <1>1, <2>1, ProductKeepsOrder
  <2> QED  BY <1>1, <1>2, <2>2, DivisionKeepsOrder
<1>4. Trading!PriceRow(Trading!MinPrice) = 0
  <2>1. (Trading!MinPrice - Trading!MinPrice) * (Height - 1) = 0  BY <1>1
  <2> QED  BY <1>1, <1>2, <2>1, DivisionUndone
<1>5. ASSUME Trading!MaxPrice # Trading!MinPrice PROVE Trading!PriceRow(Trading!MaxPrice) = Height - 1
  <2>1. Trading!Range_ = Trading!MaxPrice - Trading!MinPrice  BY <1>5 DEF Trading!Range_
  <2>2. Trading!PriceRow(Trading!MaxPrice) = (Trading!Range_ * (Height - 1)) \div Trading!Range_
    BY <1>1, <1>2, <2>1
  <2> QED  BY <1>1, <2>2, DivisionUndone
<1> QED  BY <1>3, <1>4, <1>5

LEMMA VolumesFit ==
    ASSUME HistoryOK, NEW n \in DOMAIN history
    PROVE  Trading!VolumeRows(n) \in 0..VolumeHeight
<1> DEFINE S == Trading!Values("volume")
           top == Trading!Max(S)
           v == history[n].volume
<1>1. S = {history[m].volume : m \in DOMAIN history}  BY DEF Trading!Values
<1>2. v \in S /\ S \subseteq 0..Largest  BY <1>1, BarsOfHistory
<1>3. S \subseteq (-Largest)..Largest /\ S # {}  BY <1>2, ChartAssumption
<1>4. top \in S /\ v <= top  BY <1>2, <1>3, LeastAndGreatest
<1>5. v \in Nat /\ top \in Nat /\ VolumeHeight \in Nat  BY <1>2, <1>4, ChartAssumption
<1> HIDE DEF S
<1>6. CASE top = 0
  <2>1. Trading!VolumeRows(n) = 0  BY <1>6 DEF Trading!VolumeRows, S
  <2> QED  BY <1>5, <2>1
<1>7. CASE top # 0
  <2>1. Trading!VolumeRows(n) = (v * VolumeHeight) \div top  BY <1>7 DEF Trading!VolumeRows, S
  <2> HIDE DEF v, top
  <2>2. /\ 0 * VolumeHeight = 0 /\ v * VolumeHeight \in Int /\ top * VolumeHeight \in Int
        /\ 0 <= v * VolumeHeight /\ v * VolumeHeight <= top * VolumeHeight
    BY <1>4, <1>5, ProductKeepsOrder
  <2>3. /\ (v * VolumeHeight) \div top \in Int
        /\ 0 \div top <= (v * VolumeHeight) \div top
        /\ (v * VolumeHeight) \div top <= (top * VolumeHeight) \div top
    BY <1>5, <1>7, <2>2, DivisionKeepsOrder
  <2>4. 0 \div top = 0 /\ (top * VolumeHeight) \div top = VolumeHeight
    BY <1>5, <1>7, DivisionUndone
  <2> QED  BY <1>5, <2>1, <2>3, <2>4
<1> QED  BY <1>6, <1>7

LEMMA ChartOrdered == HistoryOK => Trading!ChartKeepsOrder
<1> SUFFICES ASSUME HistoryOK, history # <<>> PROVE Trading!ChartKeepsOrder
  BY DEF Trading!ChartKeepsOrder
<1>1. ASSUME NEW n \in DOMAIN history, NEW r \in 0..(Height - 1)
      PROVE  /\ Trading!Chart[n][r] = IF Trading!OnTrend(n - 1, r) THEN "trend"
                                     ELSE Trading!Candle(history[n], r)
             /\ Trading!Candle(history[n], r) # "trend"
             /\ Trading!Candle(history[n], r) # "blank" =>
                  r \in Trading!PriceRow(history[n].low)..Trading!PriceRow(history[n].high)
  BY DEF Trading!Chart, Trading!Candle
<1>2. ASSUME NEW n \in DOMAIN history
      PROVE  {r \in 0..(Height - 1) : Trading!Chart[n][r] = "trend"}
               \subseteq {Trading!Row(Trading!TrendAt(n - 1)[1], Trading!TrendAt(n - 1)[2])}
  <2>1. \A r : Trading!OnTrend(n - 1, r) => r = Trading!Row(Trading!TrendAt(n - 1)[1], Trading!TrendAt(n - 1)[2])
    BY DEF Trading!OnTrend
  <2> QED  BY <1>1, <2>1
<1>3. ASSUME NEW n \in DOMAIN history, NEW r \in 0..(Height - 1), Trading!Chart[n][r] \notin {"blank", "trend"}
      PROVE  r \in Trading!PriceRow(history[n].low)..Trading!PriceRow(history[n].high)
  BY <1>1, <1>3
<1>4. \A a, b \in DOMAIN history :
         history[a].close <= history[b].close
           => Trading!PriceRow(history[a].close) <= Trading!PriceRow(history[b].close)
  <2>1. \A a \in DOMAIN history : history[a].close \in Int  BY BarsOfHistory, ChartAssumption
  <2> QED  BY <2>1, RowsOfPrices
<1> QED  BY <1>2, <1>3, <1>4, RowsOfPrices, VolumesFit DEF Trading!ChartKeepsOrder

LEMMA ChartHolds == Trading!Init /\ [][Trading!Next]_(Trading!vars) => []Trading!ChartKeepsOrder
BY HistoryIsOfBars, ChartOrdered, PTL

-----------------------------------------------------------------------------
(*****************************************************************************)
(* The editor, for any files, macros and texts.                              *)
(*****************************************************************************)
Lines == Seq({"a", " "})
Docs == Seq(Lines)

LEMMA UpTo ==
    ASSUME NEW N \in Nat, NEW G, 0 \in G, \A n \in 1..N : n - 1 \in G => n \in G
    PROVE  \A n \in 0..N : n \in G
<1> DEFINE T == {n \in 0..N : n \notin G}
<1>1. IsWellFoundedOn(Less, Nat)  BY NatLessThanWellFounded DEF OpToRel, Less
<1> SUFFICES ASSUME T # {} PROVE FALSE  OBVIOUS
<1>2. PICK n \in T : \A m \in T : ~(<<m, n>> \in Less)
  <2>1. T \subseteq Nat  OBVIOUS
  <2> HIDE DEF T
  <2> QED  BY <1>1, <2>1, WFMin, Zenon
<1>3. n \in 1..N /\ n - 1 \in 0..N  OBVIOUS
<1>4. n - 1 \notin T
  <2>1. <<n - 1, n>> \in Less  BY <1>3 DEF Less
  <2> QED  BY <1>2, <2>1
<1> QED  BY <1>2, <1>3, <1>4

LEMMA LinesJoinInAnyOrder ==
    ASSUME NEW s \in Lines, NEW t \in Lines, NEW u \in Lines
    PROVE  (s \o t) \o u = s \o (t \o u)
<1>1. PICK S : Lines = Seq(S)  BY DEF Lines
<1>2. s \in Seq(S) /\ t \in Seq(S) /\ u \in Seq(S)  BY <1>1
<1> QED  BY <1>2, ConcatAssociative

(* The lines of a document joined one by one. *)
Joins(h, b) ==
  /\ h \in [0..Len(b) -> Lines] /\ h[0] = <<>>
  /\ \A i \in 1..Len(b) : h[i] = h[i - 1] \o b[i]

LEMMA JoinsExists == ASSUME NEW b \in Docs PROVE \E h : Joins(h, b)
<1> DEFINE Is(h, n) == /\ h \in [0..n -> Lines] /\ h[0] = <<>>
                       /\ \A i \in 1..n : h[i] = h[i - 1] \o b[i]
           G == {n \in 0..Len(b) : \E h : Is(h, n)}
<1>1. Len(b) \in Nat /\ \A i \in 1..Len(b) : b[i] \in Lines  BY DEF Docs
<1>2. 0 \in G
  <2>1. <<>> \in Lines  BY DEF Lines
  <2>2. Is([i \in 0..0 |-> <<>>], 0)  BY <2>1
  <2>3. \E h : Is(h, 0)
    <3> HIDE DEF Is
    <3> QED  BY <2>2, Zenon
  <2> HIDE DEF Is
  <2> QED  BY <1>1, <2>3
<1>3. ASSUME NEW n \in 1..Len(b), n - 1 \in G PROVE n \in G
  <2>1. PICK g : Is(g, n - 1)  BY <1>3
  <2>2. n \in Nat /\ n >= 1 /\ n - 1 \in 0..(n - 1)  BY <1>1
  <2>3. g[n - 1] \o b[n] \in Lines
    <3>1. g[n - 1] \in Lines /\ b[n] \in Lines  BY <1>1, <2>1, <2>2
    <3> QED  BY <3>1, ConcatProperties DEF Lines
  <2> DEFINE h == [i \in 0..n |-> IF i = n THEN g[n - 1] \o b[n] ELSE g[i]]
  <2>4. h \in [0..n -> Lines] /\ h[0] = <<>>  BY <2>1, <2>2, <2>3
  <2>5. \A i \in 1..n : h[i] = h[i - 1] \o b[i]
    <3> TAKE i \in 1..n
    <3>1. CASE i = n
      <4>1. h[n - 1] = g[n - 1]  BY <2>2
      <4>3. n \in 0..n  BY <2>2
      <4>2. h[n] = g[n - 1] \o b[n]  BY <4>3, Zenon
      <4> HIDE DEF h
      <4> QED  BY <3>1, <4>1, <4>2
    <3>2. CASE i # n
      <4>1. i \in 1..(n - 1) /\ i \in 0..n /\ i - 1 \in 0..n /\ i - 1 # n  BY <2>2, <3>2
      <4>2. h[i] = g[i] /\ h[i - 1] = g[i - 1]  BY <3>2, <4>1
      <4>4. \A j \in 1..(n - 1) : g[j] = g[j - 1] \o b[j]  BY <2>1, Zenon
      <4>3. g[i] = g[i - 1] \o b[i]  BY <4>1, <4>4, Zenon
      <4> HIDE DEF h
      <4> QED  BY <4>2, <4>3
    <3> QED  BY <3>1, <3>2
  <2> HIDE DEF h
  <2>6. Is(h, n)  BY <2>4, <2>5
  <2> QED  BY <2>6
<1>4. Len(b) \in G
  <2> HIDE DEF G
  <2>1. \A n \in 0..Len(b) : n \in G  BY <1>1, <1>2, <1>3, UpTo, Zenon
  <2> QED  BY <1>1, <2>1
<1> QED  BY <1>4 DEF Joins

LEMMA JoinStep ==
    ASSUME NEW b \in Docs, NEW h, Joins(h, b), NEW i \in Nat, i + 1 \in 1..Len(b)
    PROVE  b[i + 1] \in Lines /\ h[i] \in Lines /\ h[i + 1] = h[i] \o b[i + 1]
<1>1. Len(b) \in Nat /\ i \in 0..Len(b) /\ (i + 1) - 1 = i  BY DEF Docs
<1>2. b[i + 1] \in Lines  BY DEF Docs
<1>3. h[i] \in Lines  BY <1>1 DEF Joins
<1>4. h[i + 1] = h[(i + 1) - 1] \o b[i + 1]  BY Zenon DEF Joins
<1> QED  BY <1>1, <1>2, <1>3, <1>4

LEMMA JoinFirst ==
    ASSUME NEW b \in Docs, NEW h, Joins(h, b), 1 \in 1..Len(b)
    PROVE  h[1] = b[1]
<1>1. 0 \in Nat /\ 0 + 1 = 1  OBVIOUS
<1>2. b[0 + 1] \in Lines /\ h[0] \in Lines /\ h[0 + 1] = h[0] \o b[0 + 1]
  BY <1>1, JoinStep
<1>3. b[1] \in Lines /\ h[1] = <<>> \o b[1]  BY <1>1, <1>2, Zenon DEF Joins
<1>4. <<>> \o b[1] = b[1]  BY <1>3, ConcatEmptySeq, Zenon DEF Lines
<1> QED  BY <1>3, <1>4, Zenon

LEMMA FlattenJoins ==
    ASSUME NEW b \in Docs, NEW h, Joins(h, b)
    PROVE  Ide!FlattenSeq(b) = h[Len(b)]
<1>1. Len(b) \in Nat /\ \A i \in 1..Len(b) : b[i] \in Lines  BY DEF Docs
<1>2. CASE Len(b) = 0
  <2>1. b = <<>>  BY <1>2 DEF Docs
  <2>2. Ide!FlattenSeq(b) = b  BY <1>2 DEF Ide!FlattenSeq
  <2> QED  BY <1>2, <2>1, <2>2 DEF Joins
<1>3. CASE Len(b) # 0
  <2> DEFINE Of(f) == [i \in 1..Len(b) |-> IF i = 1 THEN b[i] ELSE f[i - 1] \o b[i]]
             f == CHOOSE f : f = Of(f)
  <2>1. Ide!FlattenSeq(b) = f[Len(b)]  BY <1>3, Zenon DEF Ide!FlattenSeq
  <2>2. \E g : g = Of(g)
    <3> DEFINE g == [i \in 1..Len(b) |-> h[i]]
    <3>1. \A i \in 1..Len(b) : g[i] = IF i = 1 THEN b[i] ELSE g[i - 1] \o b[i]
      <4> TAKE i \in 1..Len(b)
      <4>1. h[i] = h[i - 1] \o b[i]  BY DEF Joins
      <4>2. CASE i = 1
        <5>1. h[1] = b[1]  BY <1>1, <4>2, JoinFirst
        <5> QED  BY <4>2, <5>1
      <4>3. CASE i # 1
        <5>1. g[i - 1] = h[i - 1]  BY <1>1, <4>3
        <5> QED  BY <4>1, <4>3, <5>1
      <4> QED  BY <4>2, <4>3
    <3>2. g = [i \in 1..Len(b) |-> g[i]]  OBVIOUS
    <3> HIDE DEF g
    <3>3. g = Of(g)  BY <3>1, <3>2
    <3> QED  BY <3>3
  <2>3. f = Of(f)
    <3> HIDE DEF Of
    <3> QED  BY <2>2, Zenon
  <2> HIDE DEF f
  <2> DEFINE G == {n \in 0..Len(b) : n = 0 \/ f[n] = h[n]}
  <2>4. 0 \in G  BY <1>1
  <2>5. ASSUME NEW n \in 1..Len(b), n - 1 \in G PROVE n \in G
    <3>1. f[n] = IF n = 1 THEN b[n] ELSE f[n - 1] \o b[n]  BY <2>3
    <3>2. h[n] = h[n - 1] \o b[n]  BY DEF Joins
    <3>3. CASE n = 1
      <4>1. h[1] = b[1]  BY <1>1, <3>3, JoinFirst
      <4> QED  BY <1>1, <3>1, <3>3, <4>1
    <3>4. CASE n # 1
      <4>1. f[n - 1] = h[n - 1]  BY <2>5, <3>4
      <4>2. f[n] = h[n]  BY <3>1, <3>2, <3>4, <4>1, Zenon
      <4> QED  BY <1>1, <4>2
    <3> QED  BY <3>3, <3>4
  <2>6. Len(b) \in G
    <3> HIDE DEF G
    <3>1. \A n \in 0..Len(b) : n \in G  BY <1>1, <2>4, <2>5, UpTo, Zenon
    <3> QED  BY <1>1, <3>1
  <2> QED  BY <1>3, <2>1, <2>6
<1> QED  BY <1>2, <1>3

(* Two documents with the same lines up to k, and the same after l in the   *)
(* one and after m in the other.                                             *)
Around(b, c, k, l, m) ==
  /\ k \in 0..Len(b) /\ k <= Len(c) /\ \A i \in 1..k : b[i] = c[i]
  /\ l \in k..Len(b) /\ m \in k..Len(c) /\ Len(b) - l = Len(c) - m
  /\ \A i \in 1..(Len(b) - l) : b[l + i] = c[m + i]

(* Their texts begin and end alike. *)
LEMMA SameEnds ==
    ASSUME NEW b \in Docs, NEW c \in Docs, NEW g, NEW h, Joins(g, b), Joins(h, c),
           NEW k, NEW l, NEW m, Around(b, c, k, l, m)
    PROVE  /\ g[k] = h[k]
           /\ \E tail \in Lines : g[Len(b)] = g[l] \o tail /\ h[Len(c)] = h[m] \o tail
<1>1. /\ Len(b) \in Nat /\ \A i \in 1..Len(b) : b[i] \in Lines
      /\ Len(c) \in Nat /\ \A i \in 1..Len(c) : c[i] \in Lines
      /\ k \in 0..Len(b) /\ k <= Len(c) /\ l \in k..Len(b) /\ m \in k..Len(c)
      /\ Len(b) - l = Len(c) - m
      /\ \A i \in 1..k : b[i] = c[i]
      /\ \A i \in 1..(Len(b) - l) : b[l + i] = c[m + i]
  BY DEF Docs, Around
<1>2. k \in Nat /\ l \in Nat /\ m \in Nat  BY <1>1
<1>3. g[k] = h[k]
  <2> DEFINE G == {n \in 0..k : g[n] = h[n]}
  <2>1. 0 \in G  BY <1>2 DEF Joins
  <2>2. ASSUME NEW n \in 1..k, n - 1 \in G PROVE n \in G
    <3>1. n \in 1..Len(b) /\ n \in 1..Len(c)  BY <1>1, <1>2
    <3>2. g[n] = g[n - 1] \o b[n] /\ h[n] = h[n - 1] \o c[n]  BY <3>1 DEF Joins
    <3>3. b[n] = c[n] /\ g[n - 1] = h[n - 1]  BY <1>1, <2>2
    <3>4. g[n] = h[n]  BY <3>2, <3>3
    <3> QED  BY <1>2, <3>4
  <2> HIDE DEF G
  <2>3. \A n \in 0..k : n \in G  BY <1>2, <2>1, <2>2, UpTo, Zenon
  <2> USE DEF G
  <2> QED  BY <1>2, <2>3
<1> DEFINE d == Len(b) - l
           Ends(n) == \E tail \in Lines : g[l + n] = g[l] \o tail /\ h[m + n] = h[m] \o tail
           G == {n \in 0..d : Ends(n)}
<1>4. d \in Nat  BY <1>1, <1>2
<1>9. g[l] \in Lines /\ h[m] \in Lines  BY <1>1, <1>2 DEF Joins
<1>5. 0 \in G
  <2>2. g[l] = g[l] \o <<>> /\ h[m] = h[m] \o <<>>  BY <1>9, ConcatEmptySeq DEF Lines
  <2>3. g[l + 0] = g[l] /\ h[m + 0] = h[m]  BY <1>2
  <2>4. <<>> \in Lines  BY DEF Lines
  <2>5. Ends(0)  BY <2>2, <2>3, <2>4, Zenon
  <2> HIDE DEF Ends
  <2> QED  BY <1>4, <2>5
<1>6. ASSUME NEW n \in 1..d, n - 1 \in G PROVE n \in G
  <2>1. PICK tail \in Lines : g[l + (n - 1)] = g[l] \o tail /\ h[m + (n - 1)] = h[m] \o tail  BY <1>6
  <2>2. l + n \in 1..Len(b) /\ m + n \in 1..Len(c)  BY <1>1, <1>2
  <2>3. /\ l + (n - 1) \in Nat /\ l + (n - 1) + 1 = l + n
        /\ m + (n - 1) \in Nat /\ m + (n - 1) + 1 = m + n
    BY <1>2, <1>4
  <2>4. g[l + n] = g[l + (n - 1)] \o b[l + n]
    <3>1. g[l + (n - 1) + 1] = g[l + (n - 1)] \o b[l + (n - 1) + 1]  BY <2>2, <2>3, JoinStep
    <3> QED  BY <2>3, <3>1
  <2>5. h[m + n] = h[m + (n - 1)] \o c[m + n]
    <3>1. h[m + (n - 1) + 1] = h[m + (n - 1)] \o c[m + (n - 1) + 1]  BY <2>2, <2>3, JoinStep
    <3> QED  BY <2>3, <3>1
  <2>6. b[l + n] = c[m + n] /\ b[l + n] \in Lines  BY <1>1, <2>2
  <2>8. tail \o b[l + n] \in Lines  BY <2>6, ConcatProperties DEF Lines
  <2>9. /\ (g[l] \o tail) \o b[l + n] = g[l] \o (tail \o b[l + n])
        /\ (h[m] \o tail) \o b[l + n] = h[m] \o (tail \o b[l + n])
    BY <1>9, <2>6, LinesJoinInAnyOrder
  <2>10. Ends(n)
    <3>1. g[l + n] = g[l] \o (tail \o b[l + n])  BY <2>1, <2>4, <2>9, Zenon
    <3>2. h[m + n] = h[m] \o (tail \o b[l + n])  BY <2>1, <2>5, <2>6, <2>9, Zenon
    <3> QED  BY <2>8, <3>1, <3>2, Zenon
  <2> HIDE DEF Ends
  <2> QED  BY <1>4, <2>10
<1>7. d \in G
  <2> HIDE DEF G, d
  <2>1. \A n \in 0..d : n \in G  BY <1>4, <1>5, <1>6, UpTo, Zenon
  <2> QED  BY <1>4, <2>1
<1>8. l + d = Len(b) /\ m + d = Len(c)  BY <1>1, <1>2
<1> QED  BY <1>3, <1>7, <1>8

LEMMA Joined ==
    ASSUME NEW S, NEW s \in Seq(S), NEW t \in Seq(S), NEW r, r = s \o t
    PROVE  /\ r \in Seq(S) /\ Len(r) = Len(s) + Len(t)
           /\ \A k \in 1..(Len(s) + Len(t)) : r[k] = IF k <= Len(s) THEN s[k] ELSE t[k - Len(s)]
BY ConcatProperties

(* A sequence without one element, or with one more. *)
LEMMA Removed ==
    ASSUME NEW S, NEW s \in Seq(S), NEW i \in 1..Len(s)
    PROVE  /\ Ide!RemoveAt(s, i) \in Seq(S) /\ Len(Ide!RemoveAt(s, i)) = Len(s) - 1
           /\ \A k \in 1..(Len(s) - 1) :
                Ide!RemoveAt(s, i)[k] = IF k < i THEN s[k] ELSE s[k + 1]
<1>1. Len(s) \in Nat /\ i \in Nat /\ \A k \in 1..Len(s) : s[k] \in S  BY LenProperties
<1> DEFINE p == SubSeq(s, 1, i - 1)
           q == SubSeq(s, i + 1, Len(s))
<1>2. /\ p \in Seq(S) /\ Len(p) = i - 1 /\ \A k \in 1..(i - 1) : p[k] = s[k]
  <2>1. 1 \in Int /\ i - 1 \in Int /\ \A k \in 1..(i - 1) : s[k] \in S  BY <1>1
  <2>2. /\ p \in Seq(S) /\ Len(p) = (IF 1 <= i - 1 THEN (i - 1) - 1 + 1 ELSE 0)
        /\ \A k \in 1..((i - 1) - 1 + 1) : p[k] = s[1 + k - 1]
    BY <2>1, SubSeqProperties
  <2> HIDE DEF p
  <2> QED  BY <1>1, <2>2
<1>3. /\ q \in Seq(S) /\ Len(q) = Len(s) - i /\ \A k \in 1..(Len(s) - i) : q[k] = s[i + k]
  <2>1. i + 1 \in Int /\ Len(s) \in Int /\ \A k \in (i + 1)..Len(s) : s[k] \in S  BY <1>1
  <2>2. /\ q \in Seq(S) /\ Len(q) = (IF i + 1 <= Len(s) THEN Len(s) - (i + 1) + 1 ELSE 0)
        /\ \A k \in 1..(Len(s) - (i + 1) + 1) : q[k] = s[(i + 1) + k - 1]
    BY <2>1, SubSeqProperties
  <2>3. /\ Len(s) - (i + 1) + 1 = Len(s) - i /\ (i + 1 <= Len(s) <=> Len(s) - i # 0)
        /\ \A k \in 1..(Len(s) - i) : (i + 1) + k - 1 = i + k
    <3>1. PICK n \in Nat : n = Len(s)  BY <1>1
    <3> QED  BY <1>1, <3>1
  <2> HIDE DEF q
  <2> QED  BY <1>1, <2>2, <2>3
<1>4. Ide!RemoveAt(s, i) = p \o q  BY DEF Ide!RemoveAt
<1> HIDE DEF p, q
<1>5. /\ p \o q \in Seq(S) /\ Len(p \o q) = Len(p) + Len(q)
      /\ \A k \in 1..(Len(p) + Len(q)) : (p \o q)[k] = IF k <= Len(p) THEN p[k] ELSE q[k - Len(p)]
  BY <1>2, <1>3, ConcatProperties
<1>6. PICK r : r = p \o q  OBVIOUS
<1>7. \A k \in 1..(Len(s) - 1) : r[k] = IF k < i THEN s[k] ELSE s[k + 1]
  <2> TAKE k \in 1..(Len(s) - 1)
  <2>1. k \in 1..(Len(p) + Len(q))  BY <1>1, <1>2, <1>3
  <2>2. CASE k < i
    <3>1. k <= Len(p) /\ k \in 1..(i - 1)  BY <1>1, <1>2, <2>2
    <3> QED  BY <1>2, <1>5, <1>6, <2>1, <2>2, <3>1
  <2>3. CASE ~(k < i)
    <3>1. ~(k <= Len(p)) /\ k - Len(p) \in 1..(Len(s) - i) /\ i + (k - Len(p)) = k + 1
      BY <1>1, <1>2, <2>3
    <3> QED  BY <1>3, <1>5, <1>6, <2>1, <2>3, <3>1
  <2> QED  BY <2>2, <2>3
<1>8. Len(r) = Len(s) - 1 /\ r \in Seq(S)
  <2>1. Len(r) = Len(p) + Len(q) /\ r \in Seq(S)  BY <1>5, <1>6
  <2>2. Len(p) = i - 1 /\ Len(q) = Len(s) - i  BY <1>2, <1>3
  <2> QED  BY <1>1, <2>1, <2>2
<1> QED  BY <1>4, <1>6, <1>7, <1>8

LEMMA Inserted ==
    ASSUME NEW S, NEW s \in Seq(S), NEW i \in 1..(Len(s) + 1), NEW e \in S
    PROVE  /\ Ide!InsertAt(s, i, e) \in Seq(S) /\ Len(Ide!InsertAt(s, i, e)) = Len(s) + 1
           /\ \A k \in 1..(Len(s) + 1) :
                Ide!InsertAt(s, i, e)[k] = IF k < i THEN s[k] ELSE IF k = i THEN e ELSE s[k - 1]
<1>1. Len(s) \in Nat /\ i \in Nat /\ \A k \in 1..Len(s) : s[k] \in S  BY LenProperties
<1> DEFINE p == SubSeq(s, 1, i - 1)
           q == SubSeq(s, i, Len(s))
           u == <<e>>
<1>2. /\ p \in Seq(S) /\ Len(p) = i - 1 /\ \A k \in 1..(i - 1) : p[k] = s[k]
  <2>1. 1 \in Int /\ i - 1 \in Int /\ \A k \in 1..(i - 1) : s[k] \in S  BY <1>1
  <2>2. /\ p \in Seq(S) /\ Len(p) = (IF 1 <= i - 1 THEN (i - 1) - 1 + 1 ELSE 0)
        /\ \A k \in 1..((i - 1) - 1 + 1) : p[k] = s[1 + k - 1]
    BY <2>1, SubSeqProperties
  <2> HIDE DEF p
  <2> QED  BY <1>1, <2>2
<1>3. /\ q \in Seq(S) /\ Len(q) = Len(s) - i + 1 /\ \A k \in 1..(Len(s) - i + 1) : q[k] = s[i + k - 1]
  <2>1. i \in Int /\ Len(s) \in Int /\ \A k \in i..Len(s) : s[k] \in S  BY <1>1
  <2>2. /\ q \in Seq(S) /\ Len(q) = (IF i <= Len(s) THEN Len(s) - i + 1 ELSE 0)
        /\ \A k \in 1..(Len(s) - i + 1) : q[k] = s[i + k - 1]
    BY <2>1, SubSeqProperties
  <2> HIDE DEF q
  <2> QED  BY <1>1, <2>2
<1>4. Ide!InsertAt(s, i, e) = (p \o u) \o q  BY DEF Ide!InsertAt
<1>5. u \in Seq(S) /\ Len(u) = 1 /\ u[1] = e  OBVIOUS
<1> HIDE DEF p, q, u
<1>6. PICK r : r = p \o u  OBVIOUS
<1>7. /\ r \in Seq(S) /\ Len(r) = Len(p) + Len(u)
      /\ \A k \in 1..(Len(p) + Len(u)) : r[k] = IF k <= Len(p) THEN p[k] ELSE u[k - Len(p)]
  BY <1>2, <1>5, <1>6, ConcatProperties
<1>8. PICK t : t = r \o q  OBVIOUS
<1>9. /\ t \in Seq(S) /\ Len(t) = Len(r) + Len(q)
      /\ \A k \in 1..(Len(r) + Len(q)) : t[k] = IF k <= Len(r) THEN r[k] ELSE q[k - Len(r)]
  <2>1. r \in Seq(S)  BY <1>7
  <2>2. PICK v : v = q  OBVIOUS
  <2>3. v \in Seq(S) /\ t = r \o v  BY <1>3, <1>8, <2>2
  <2>4. /\ t \in Seq(S) /\ Len(t) = Len(r) + Len(v)
        /\ \A k \in 1..(Len(r) + Len(v)) : t[k] = IF k <= Len(r) THEN r[k] ELSE v[k - Len(r)]
    BY ONLY <2>1, <2>3, Joined, SMTT(40)
  <2> QED  BY <2>2, <2>4, Zenon
<1>10. Len(r) = i  BY <1>1, <1>2, <1>5, <1>7
<1>11. \A k \in 1..(Len(s) + 1) : t[k] = IF k < i THEN s[k] ELSE IF k = i THEN e ELSE s[k - 1]
  <2> TAKE k \in 1..(Len(s) + 1)
  <2>1. k \in 1..(Len(r) + Len(q))  BY <1>1, <1>3, <1>10
  <2>2. CASE k < i
    <3>1. k <= Len(r) /\ k <= Len(p) /\ k \in 1..(i - 1) /\ k \in 1..(Len(p) + Len(u))
      BY <1>1, <1>2, <1>5, <1>10, <2>2
    <3>2. t[k] = s[k]  BY <1>2, <1>7, <1>9, <2>1, <3>1
    <3> QED  BY <2>2, <3>2
  <2>3. CASE k = i
    <3>1. k <= Len(r) /\ ~(k <= Len(p)) /\ k - Len(p) = 1 /\ k \in 1..(Len(p) + Len(u))
      BY <1>1, <1>2, <1>5, <1>10, <2>3
    <3>2. t[k] = e  BY <1>5, <1>7, <1>9, <2>1, <3>1
    <3> QED  BY <1>1, <2>3, <3>2
  <2>4. CASE k > i
    <3>1. ~(k <= Len(r)) /\ k - Len(r) \in 1..(Len(s) - i + 1) /\ i + (k - Len(r)) - 1 = k - 1
      BY <1>1, <1>10, <2>4
    <3>2. t[k] = s[k - 1]  BY <1>3, <1>9, <2>1, <3>1
    <3> QED  BY <1>1, <2>4, <3>2
  <2> QED  BY <1>1, <2>2, <2>3, <2>4
<1>12. t \in Seq(S) /\ Len(t) = Len(s) + 1  BY <1>1, <1>3, <1>9, <1>10
<1> QED  BY <1>4, <1>6, <1>8, <1>11, <1>12

LEMMA TakesBackInsertion ==
    ASSUME NEW S, NEW s \in Seq(S), NEW i \in 1..(Len(s) + 1), NEW e \in S
    PROVE  Ide!RemoveAt(Ide!InsertAt(s, i, e), i) = s
<1>0. s \in Seq(S) /\ i \in 1..(Len(s) + 1) /\ e \in S  OBVIOUS
<1>1. PICK t : t = Ide!InsertAt(s, i, e)  OBVIOUS
<1>2. /\ t \in Seq(S) /\ Len(t) = Len(s) + 1
      /\ \A k \in 1..(Len(s) + 1) : t[k] = IF k < i THEN s[k] ELSE IF k = i THEN e ELSE s[k - 1]
  BY ONLY <1>0, <1>1, Inserted, SMTT(40)
<1>3. Len(s) \in Nat  BY LenProperties
<1>4. i \in 1..Len(t)  BY <1>2
<1>5. PICK r : r = Ide!RemoveAt(t, i)  OBVIOUS
<1>6. /\ r \in Seq(S) /\ Len(r) = Len(t) - 1
      /\ \A k \in 1..(Len(t) - 1) : r[k] = IF k < i THEN t[k] ELSE t[k + 1]
  BY ONLY <1>2, <1>4, <1>5, Removed, Zenon
<1>7. \A k \in 1..Len(s) : r[k] = s[k]
  <2> TAKE k \in 1..Len(s)
  <2>1. CASE k < i  BY <1>2, <1>3, <1>6, <2>1
  <2>2. CASE ~(k < i)
    <3>1. k + 1 \in 1..(Len(s) + 1) /\ ~(k + 1 < i) /\ k + 1 # i /\ (k + 1) - 1 = k  BY <1>3, <2>2
    <3> QED  BY <1>2, <1>3, <1>6, <2>2, <3>1
  <2> QED  BY <2>1, <2>2
<1>8. r = s
  <2>1. Len(r) = Len(s)  BY <1>2, <1>3, <1>6
  <2> QED  BY <1>6, <1>7, <2>1, SeqEqual
<1> QED  BY <1>1, <1>5, <1>8

(* Taking a character from a line takes it from the whole text. *)
LEMMA RemovedInside ==
    ASSUME NEW S, NEW s \in Seq(S), NEW t \in Seq(S), NEW u \in Seq(S), NEW i \in 1..Len(t)
    PROVE  /\ Len(s) + i \in DOMAIN ((s \o t) \o u)
           /\ (s \o Ide!RemoveAt(t, i)) \o u = Ide!RemoveAt((s \o t) \o u, Len(s) + i)
<1>1. Len(s) \in Nat /\ Len(t) \in Nat /\ Len(u) \in Nat /\ i \in Nat  BY LenProperties
<1>2. PICK r : r = Ide!RemoveAt(t, i)  OBVIOUS
<1>3. /\ r \in Seq(S) /\ Len(r) = Len(t) - 1
      /\ \A k \in 1..(Len(t) - 1) : r[k] = IF k < i THEN t[k] ELSE t[k + 1]
  BY <1>2, Removed
<1>4. PICK v : v = s \o t  OBVIOUS
<1>5. /\ v \in Seq(S) /\ Len(v) = Len(s) + Len(t)
      /\ \A k \in 1..(Len(s) + Len(t)) : v[k] = IF k <= Len(s) THEN s[k] ELSE t[k - Len(s)]
  BY <1>4, ConcatProperties
<1>6. PICK w : w = v \o u  OBVIOUS
<1>7. /\ w \in Seq(S) /\ Len(w) = Len(v) + Len(u)
      /\ \A k \in 1..(Len(v) + Len(u)) : w[k] = IF k <= Len(v) THEN v[k] ELSE u[k - Len(v)]
  <2>1. v \in Seq(S)  BY <1>5
  <2> QED  BY <1>6, <2>1, Joined
<1>8. PICK p : p = s \o r  OBVIOUS
<1>9. /\ p \in Seq(S) /\ Len(p) = Len(s) + Len(r)
      /\ \A k \in 1..(Len(s) + Len(r)) : p[k] = IF k <= Len(s) THEN s[k] ELSE r[k - Len(s)]
  BY <1>3, <1>8, ConcatProperties
<1>10. PICK q : q = p \o u  OBVIOUS
<1>11. /\ q \in Seq(S) /\ Len(q) = Len(p) + Len(u)
       /\ \A k \in 1..(Len(p) + Len(u)) : q[k] = IF k <= Len(p) THEN p[k] ELSE u[k - Len(p)]
  <2>1. p \in Seq(S)  BY <1>9
  <2> QED  BY <1>10, <2>1, Joined
<1>12. Len(s) + i \in 1..Len(w) /\ DOMAIN w = 1..Len(w)
  <2>1. DOMAIN w = 1..Len(w)  BY <1>7, LenProperties
  <2> QED  BY <1>1, <1>5, <1>7, <2>1
<1>13. PICK z : z = Ide!RemoveAt(w, Len(s) + i)  OBVIOUS
<1>14. /\ z \in Seq(S) /\ Len(z) = Len(w) - 1
       /\ \A k \in 1..(Len(w) - 1) : z[k] = IF k < Len(s) + i THEN w[k] ELSE w[k + 1]
  BY ONLY <1>7, <1>12, <1>13, Removed, Zenon
<1>15. Len(q) = Len(z) /\ Len(q) = Len(s) + Len(t) + Len(u) - 1
  BY <1>1, <1>3, <1>5, <1>7, <1>9, <1>11, <1>14
<1>16. \A k \in 1..Len(q) : q[k] = z[k]
  <2> TAKE k \in 1..Len(q)
  <2>1. k \in Nat /\ k >= 1 /\ k \in 1..(Len(w) - 1) /\ k \in 1..(Len(p) + Len(u))
    BY <1>1, <1>11, <1>14, <1>15
  <2>2. CASE k <= Len(s)
    <3>1. q[k] = s[k]  BY <1>1, <1>3, <1>9, <1>11, <2>1, <2>2
    <3>2. w[k] = s[k]  BY <1>1, <1>5, <1>7, <2>1, <2>2
    <3>3. z[k] = w[k]  BY <1>1, <1>14, <2>1, <2>2
    <3> QED  BY <3>1, <3>2, <3>3
  <2>3. CASE Len(s) < k /\ k < Len(s) + i
    <3>1. k - Len(s) \in 1..(Len(t) - 1) /\ k - Len(s) < i  BY <1>1, <2>1, <2>3
    <3>2. q[k] = r[k - Len(s)]  BY <1>1, <1>3, <1>9, <1>11, <2>1, <2>3
    <3>3. r[k - Len(s)] = t[k - Len(s)]  BY <1>3, <3>1
    <3>4. w[k] = t[k - Len(s)]  BY <1>1, <1>5, <1>7, <2>1, <2>3
    <3>5. z[k] = w[k]  BY <1>1, <1>14, <2>1, <2>3
    <3> QED  BY <3>2, <3>3, <3>4, <3>5
  <2>4. CASE Len(s) + i <= k /\ k < Len(s) + Len(t)
    <3>1. /\ k - Len(s) \in 1..(Len(t) - 1) /\ ~(k - Len(s) < i)
          /\ (k + 1) - Len(s) = (k - Len(s)) + 1
      BY <1>1, <2>1, <2>4
    <3>2. q[k] = r[k - Len(s)]  BY <1>1, <1>3, <1>9, <1>11, <2>1, <2>4, SMTT(30)
    <3>3. r[k - Len(s)] = t[(k + 1) - Len(s)]  BY <1>3, <3>1
    <3>4. w[k + 1] = t[(k + 1) - Len(s)]  BY <1>1, <1>5, <1>7, <2>1, <2>4, SMTT(30)
    <3>5. z[k] = w[k + 1]  BY <1>1, <1>14, <2>1, <2>4, SMTT(30)
    <3> QED  BY <3>2, <3>3, <3>4, <3>5
  <2>5. CASE Len(s) + Len(t) <= k
    <3>1. (k + 1) - Len(v) = k - Len(p)  BY <1>1, <1>3, <1>5, <1>9, <2>1
    <3>2. q[k] = u[k - Len(p)]  BY <1>1, <1>3, <1>9, <1>11, <2>1, <2>5
    <3>3. w[k + 1] = u[(k + 1) - Len(v)]  BY <1>1, <1>5, <1>7, <2>1, <2>5
    <3>4. z[k] = w[k + 1]  BY <1>1, <1>14, <2>1, <2>5
    <3> QED  BY <3>1, <3>2, <3>3, <3>4
  <2> QED  BY <1>1, <2>1, <2>2, <2>3, <2>4, <2>5
<1>17. q = z  BY <1>11, <1>14, <1>15, <1>16, SeqEqual
<1> QED  BY <1>2, <1>4, <1>6, <1>8, <1>10, <1>12, <1>13, <1>17

LEMMA DocFacts ==
    ASSUME NEW b \in Docs
    PROVE  /\ Len(b) \in Nat /\ DOMAIN b = 1..Len(b) /\ \A i \in 1..Len(b) : b[i] \in Lines
           /\ Ide!FlattenSeq(b) \in Lines
<1>1. Len(b) \in Nat /\ DOMAIN b = 1..Len(b) /\ \A i \in 1..Len(b) : b[i] \in Lines  BY DEF Docs
<1>2. PICK h : Joins(h, b)  BY JoinsExists
<1>3. Ide!FlattenSeq(b) = h[Len(b)]  BY <1>2, FlattenJoins
<1>4. h[Len(b)] \in Lines  BY <1>1, <1>2 DEF Joins
<1> QED  BY <1>1, <1>3, <1>4

LEMMA LineLengths ==
    ASSUME NEW s \in Lines, NEW t \in Lines
    PROVE  Len(s) \in Nat /\ s \o t \in Lines /\ Len(s \o t) = Len(s) + Len(t)
<1>1. PICK S : Lines = Seq(S)  BY DEF Lines
<1>2. s \in Seq(S) /\ t \in Seq(S)  BY <1>1
<1>3. s \o t \in Seq(S) /\ Len(s \o t) = Len(s) + Len(t)  BY <1>2, ConcatProperties
<1> QED  BY <1>1, <1>2, <1>3, LenProperties

(* The text is what stands before some lines, the lines, and what stands after. *)
Middle(b, k, l, head, tail) ==
  /\ l = k => Ide!FlattenSeq(b) = head \o tail
  /\ l = k + 1 => Ide!FlattenSeq(b) = (head \o b[k + 1]) \o tail
  /\ l = k + 2 => Ide!FlattenSeq(b) = ((head \o b[k + 1]) \o b[k + 2]) \o tail

LEMMA MiddleOf ==
    ASSUME NEW b \in Docs, NEW h, Joins(h, b), NEW k \in Nat, NEW l \in k..Len(b),
           NEW tail \in Lines, h[Len(b)] = h[l] \o tail
    PROVE  Middle(b, k, l, h[k], tail)
<1>1. Len(b) \in Nat  BY DEF Docs
<1>2. Ide!FlattenSeq(b) = h[l] \o tail  BY FlattenJoins
<1>3. CASE l = k
  <2>1. k # k + 1 /\ k # k + 2  OBVIOUS
  <2> QED  BY <1>2, <1>3, <2>1, Zenon DEF Middle
<1>4. CASE l = k + 1
  <2>1. l # k /\ k + 1 # k + 2 /\ k + 1 \in 1..Len(b)  BY <1>1, <1>4
  <2>2. h[k + 1] = h[k] \o b[k + 1]  BY <2>1, JoinStep
  <2> QED  BY <1>2, <1>4, <2>1, <2>2, Zenon DEF Middle
<1>5. CASE l = k + 2
  <2>1. /\ l # k /\ k + 2 # k + 1 /\ k + 1 \in 1..Len(b) /\ k + 1 \in Nat
        /\ (k + 1) + 1 \in 1..Len(b) /\ (k + 1) + 1 = k + 2
    BY <1>1, <1>5
  <2>2. h[k + 1] = h[k] \o b[k + 1]  BY <2>1, JoinStep
  <2>3. h[(k + 1) + 1] = h[k + 1] \o b[(k + 1) + 1]  BY <2>1, JoinStep
  <2>4. h[k + 2] = (h[k] \o b[k + 1]) \o b[k + 2]  BY <2>1, <2>2, <2>3, Zenon
  <2> QED  BY <1>2, <1>5, <2>1, <2>4, Zenon DEF Middle
<1> QED  BY <1>3, <1>4, <1>5 DEF Middle

LEMMA SameAround ==
    ASSUME NEW b \in Docs, NEW c \in Docs, NEW k, NEW l, NEW m, Around(b, c, k, l, m)
    PROVE  \E head, tail \in Lines : Middle(b, k, l, head, tail) /\ Middle(c, k, m, head, tail)
<1>1. PICK g : Joins(g, b)  BY JoinsExists
<1>2. PICK h : Joins(h, c)  BY JoinsExists
<1>3. /\ g[k] = h[k]
      /\ \E tail \in Lines : g[Len(b)] = g[l] \o tail /\ h[Len(c)] = h[m] \o tail
  <2>1. \A p, q : Joins(p, b) /\ Joins(q, c)
          => /\ p[k] = q[k]
             /\ \E tail \in Lines : p[Len(b)] = p[l] \o tail /\ q[Len(c)] = q[m] \o tail
    BY SameEnds
  <2> QED  BY <1>1, <1>2, <2>1
<1>4. PICK tail \in Lines : g[Len(b)] = g[l] \o tail /\ h[Len(c)] = h[m] \o tail
  BY <1>3, Zenon
<1>5. k \in Nat /\ l \in k..Len(b) /\ m \in k..Len(c) /\ g[k] \in Lines
  BY <1>1, DocFacts DEF Joins, Around
<1>6. Middle(b, k, l, g[k], tail)  BY <1>1, <1>4, <1>5, MiddleOf
<1>7. Middle(c, k, m, h[k], tail)  BY <1>2, <1>4, <1>5, MiddleOf
<1> QED  BY <1>3, <1>4, <1>5, <1>6, <1>7

(* Without one line the text is as much shorter as the line was long. *)
LEMMA CutText ==
    ASSUME NEW b \in Docs, NEW i \in 1..Len(b)
    PROVE  /\ Ide!RemoveAt(b, i) \in Docs /\ Len(Ide!RemoveAt(b, i)) = Len(b) - 1
           /\ Len(b[i]) = Len(Ide!FlattenSeq(b)) - Len(Ide!FlattenSeq(Ide!RemoveAt(b, i)))
<1>1. PICK c : c = Ide!RemoveAt(b, i)  OBVIOUS
<1>2. /\ c \in Docs /\ Len(c) = Len(b) - 1
      /\ \A k \in 1..(Len(b) - 1) : c[k] = IF k < i THEN b[k] ELSE b[k + 1]
  <2>1. PICK S : S = Lines  OBVIOUS
  <2>2. b \in Seq(S) /\ i \in 1..Len(b)  BY <2>1 DEF Docs
  <2>3. /\ c \in Seq(S) /\ Len(c) = Len(b) - 1
        /\ \A k \in 1..(Len(b) - 1) : c[k] = IF k < i THEN b[k] ELSE b[k + 1]
    BY ONLY <1>1, <2>2, Removed, Zenon
  <2> QED  BY <2>1, <2>3, Zenon DEF Docs
<1>3. Len(b) \in Nat /\ b[i] \in Lines /\ i \in Nat  BY DocFacts
<1>4. PICK k \in Nat : i = k + 1 /\ k = i - 1 /\ k \in 0..Len(b) /\ k <= Len(c)
                       /\ i \in k..Len(b) /\ k \in k..Len(c) /\ Len(b) - i = Len(c) - k
  <2>1. i - 1 \in Nat  BY <1>3
  <2> QED  BY <1>2, <1>3, <2>1
<1>5. \A j \in 1..k : b[j] = c[j]  BY <1>2, <1>3, <1>4
<1>6. \A j \in 1..(Len(b) - i) : b[i + j] = c[k + j]
  <2> TAKE j \in 1..(Len(b) - i)
  <2>1. k + j \in 1..(Len(b) - 1) /\ ~(k + j < i) /\ (k + j) + 1 = i + j  BY <1>3, <1>4
  <2> QED  BY <1>2, <2>1
<1>7. PICK head \in Lines, tail \in Lines : Middle(b, k, i, head, tail) /\ Middle(c, k, k, head, tail)
  <2>1. Around(b, c, k, i, k)  BY <1>2, <1>4, <1>5, <1>6 DEF Around
  <2> QED  BY <1>2, <2>1, SameAround
<1>8. Ide!FlattenSeq(b) = (head \o b[i]) \o tail /\ Ide!FlattenSeq(c) = head \o tail
  BY <1>4, <1>7, Zenon DEF Middle
<1>9. Len(Ide!FlattenSeq(b)) = Len(head) + Len(b[i]) + Len(tail)
  <2>1. head \o b[i] \in Lines /\ Len(head \o b[i]) = Len(head) + Len(b[i])  BY <1>3, LineLengths
  <2>2. Len((head \o b[i]) \o tail) = Len(head \o b[i]) + Len(tail)  BY <2>1, LineLengths
  <2> QED  BY <1>8, <2>1, <2>2
<1>10. Len(Ide!FlattenSeq(c)) = Len(head) + Len(tail)  BY <1>8, LineLengths
<1>11. Len(head) \in Nat /\ Len(tail) \in Nat /\ Len(b[i]) \in Nat  BY <1>3, LineLengths
<1>12. Len(b[i]) = Len(Ide!FlattenSeq(b)) - Len(Ide!FlattenSeq(c))  BY <1>9, <1>10, <1>11
<1> QED  BY <1>1, <1>2, <1>12

(* With one line more the text is as much longer. *)
LEMMA PastedText ==
    ASSUME NEW b \in Docs, NEW i \in 1..(Len(b) + 1), NEW e \in Lines
    PROVE  /\ Ide!InsertAt(b, i, e) \in Docs /\ Len(Ide!InsertAt(b, i, e)) = Len(b) + 1
           /\ Len(e) = Len(Ide!FlattenSeq(Ide!InsertAt(b, i, e))) - Len(Ide!FlattenSeq(b))
<1>1. PICK c : c = Ide!InsertAt(b, i, e)  OBVIOUS
<1>2. /\ c \in Docs /\ Len(c) = Len(b) + 1
      /\ \A k \in 1..(Len(b) + 1) : c[k] = IF k < i THEN b[k] ELSE IF k = i THEN e ELSE b[k - 1]
  <2>1. PICK S : S = Lines  OBVIOUS
  <2>2. b \in Seq(S) /\ e \in S /\ i \in 1..(Len(b) + 1)  BY <2>1 DEF Docs
  <2>3. /\ c \in Seq(S) /\ Len(c) = Len(b) + 1
        /\ \A k \in 1..(Len(b) + 1) : c[k] = IF k < i THEN b[k] ELSE IF k = i THEN e ELSE b[k - 1]
    BY ONLY <1>1, <2>2, Inserted, SMTT(40)
  <2> QED  BY <2>1, <2>3, Zenon DEF Docs
<1>3. Len(b) \in Nat /\ i \in Nat  BY DocFacts
<1>4. PICK k \in Nat : i = k + 1 /\ k = i - 1 /\ k \in 0..Len(b) /\ k <= Len(c)
                       /\ k \in k..Len(b) /\ i \in k..Len(c) /\ Len(b) - k = Len(c) - i
  <2>1. i - 1 \in Nat  BY <1>3
  <2> QED  BY <1>2, <1>3, <2>1
<1>5. \A j \in 1..k : b[j] = c[j]  BY <1>2, <1>3, <1>4
<1>6. \A j \in 1..(Len(b) - k) : b[k + j] = c[i + j]
  <2> TAKE j \in 1..(Len(b) - k)
  <2>1. i + j \in 1..(Len(b) + 1) /\ ~(i + j < i) /\ i + j # i /\ (i + j) - 1 = k + j  BY <1>3, <1>4
  <2> QED  BY <1>2, <2>1
<1>7. PICK head \in Lines, tail \in Lines : Middle(b, k, k, head, tail) /\ Middle(c, k, i, head, tail)
  <2>1. Around(b, c, k, k, i)  BY <1>2, <1>4, <1>5, <1>6 DEF Around
  <2> QED  BY <1>2, <2>1, SameAround
<1>8. c[i] = e  BY <1>2, <1>3
<1>9. Ide!FlattenSeq(c) = (head \o e) \o tail /\ Ide!FlattenSeq(b) = head \o tail
  BY <1>4, <1>7, <1>8, Zenon DEF Middle
<1>10. Len(Ide!FlattenSeq(c)) = Len(head) + Len(e) + Len(tail)
  <2>1. head \o e \in Lines /\ Len(head \o e) = Len(head) + Len(e)  BY LineLengths
  <2>2. Len((head \o e) \o tail) = Len(head \o e) + Len(tail)  BY <2>1, LineLengths
  <2> QED  BY <1>9, <2>1, <2>2
<1>11. Len(Ide!FlattenSeq(b)) = Len(head) + Len(tail)  BY <1>9, LineLengths
<1>12. Len(head) \in Nat /\ Len(tail) \in Nat /\ Len(e) \in Nat  BY LineLengths
<1>13. Len(e) = Len(Ide!FlattenSeq(c)) - Len(Ide!FlattenSeq(b))  BY <1>10, <1>11, <1>12
<1> QED  BY <1>1, <1>2, <1>13

LEMMA LineSet ==
    ASSUME NEW b \in Docs, NEW i \in Nat, i < Len(b), NEW e \in Lines
    PROVE  /\ Ide!SetLine(b, i, e) \in Docs /\ Len(Ide!SetLine(b, i, e)) = Len(b)
           /\ \A j \in 1..Len(b) : Ide!SetLine(b, i, e)[j] = IF j = i + 1 THEN e ELSE b[j]
<1>1. PICK S : Docs = Seq(S) /\ Lines = S  BY DEF Docs
<1>2. b \in Seq(S) /\ e \in S  BY <1>1
<1>3. PICK n \in Nat : n = Len(b) /\ b \in [1..n -> S]  BY <1>2, LenProperties
<1>4. PICK c : c = Ide!SetLine(b, i, e)  OBVIOUS
<1>5. c = [j \in 1..n |-> IF j = i + 1 THEN e ELSE b[j]]  BY <1>3, <1>4 DEF Ide!SetLine
<1>6. c \in [1..n -> S]  BY <1>2, <1>3, <1>5
<1>7. \A j \in 1..n : c[j] = IF j = i + 1 THEN e ELSE b[j]  BY <1>5
<1>8. c \in Seq(S) /\ Len(c) = n  BY <1>6
<1> QED  BY <1>1, <1>3, <1>4, <1>7, <1>8

(* Another line changes the text at its place. *)
LEMMA ChangedText ==
    ASSUME NEW b \in Docs, NEW k \in Nat, k < Len(b), NEW e \in Lines
    PROVE  \E head, tail \in Lines :
             /\ Ide!FlattenSeq(b) = (head \o b[k + 1]) \o tail
             /\ Ide!FlattenSeq(Ide!SetLine(b, k, e)) = (head \o e) \o tail
<1>1. PICK c : c = Ide!SetLine(b, k, e)  OBVIOUS
<1>2. c \in Docs /\ Len(c) = Len(b) /\ \A j \in 1..Len(b) : c[j] = IF j = k + 1 THEN e ELSE b[j]
  BY <1>1, LineSet
<1>3. Len(b) \in Nat  BY DocFacts
<1>4. Around(b, c, k, k + 1, k + 1)
  <2>1. /\ k \in 0..Len(b) /\ k <= Len(c) /\ k + 1 \in k..Len(b) /\ k + 1 \in k..Len(c)
        /\ Len(b) - (k + 1) = Len(c) - (k + 1)
    BY <1>2, <1>3
  <2>2. \A j \in 1..k : b[j] = c[j]  BY <1>2, <1>3
  <2>3. \A j \in 1..(Len(b) - (k + 1)) : b[(k + 1) + j] = c[(k + 1) + j]  BY <1>2, <1>3
  <2> QED  BY <2>1, <2>2, <2>3 DEF Around
<1>7. PICK head \in Lines, tail \in Lines :
        Middle(b, k, k + 1, head, tail) /\ Middle(c, k, k + 1, head, tail)
  BY <1>2, <1>4, SameAround
<1>8. c[k + 1] = e  BY <1>2, <1>3
<1>9. Ide!FlattenSeq(b) = (head \o b[k + 1]) \o tail  BY <1>7, Zenon DEF Middle
<1>10. Ide!FlattenSeq(c) = (head \o e) \o tail  BY <1>7, <1>8, Zenon DEF Middle
<1> QED  BY <1>1, <1>9, <1>10, Zenon

(* A line broken in two, or two lines joined, leave the text as it is. *)
LEMMA SplitText ==
    ASSUME NEW b \in Docs, NEW c \in Docs, NEW i \in 1..Len(b), Len(c) = Len(b) + 1,
           \A j \in 1..(i - 1) : b[j] = c[j], b[i] = c[i] \o c[i + 1],
           \A j \in (i + 1)..Len(b) : b[j] = c[j + 1]
    PROVE  Ide!FlattenSeq(b) = Ide!FlattenSeq(c)
<1>3. Len(b) \in Nat /\ i \in Nat  BY DocFacts
<1>4. PICK k \in Nat : i = k + 1 /\ i + 1 = k + 2 /\ k = i - 1 /\ k \in 0..Len(b) /\ k <= Len(c)
                       /\ i \in k..Len(b) /\ i + 1 \in k..Len(c) /\ Len(b) - i = Len(c) - (i + 1)
  <2>1. i - 1 \in Nat  BY <1>3
  <2> QED  BY <1>3, <2>1
<1>5. \A j \in 1..k : b[j] = c[j]  BY <1>3, <1>4
<1>6. \A j \in 1..(Len(b) - i) : b[i + j] = c[(i + 1) + j]
  <2> TAKE j \in 1..(Len(b) - i)
  <2>1. i + j \in (i + 1)..Len(b) /\ (i + j) + 1 = (i + 1) + j  BY <1>3
  <2>2. b[i + j] = c[(i + j) + 1]  BY <2>1
  <2> QED  BY <2>1, <2>2
<1>7. PICK head \in Lines, tail \in Lines : Middle(b, k, i, head, tail) /\ Middle(c, k, i + 1, head, tail)
  <2>1. Around(b, c, k, i, i + 1)  BY <1>4, <1>5, <1>6 DEF Around
  <2> QED  BY <2>1, SameAround
<1>8. Ide!FlattenSeq(b) = (head \o b[i]) \o tail  BY <1>4, <1>7, Zenon DEF Middle
<1>9. Ide!FlattenSeq(c) = ((head \o c[i]) \o c[i + 1]) \o tail  BY <1>4, <1>7, Zenon DEF Middle
<1>10. c[i] \in Lines /\ c[i + 1] \in Lines
  <2>1. i \in 1..Len(c) /\ i + 1 \in 1..Len(c)  BY <1>3
  <2>2. \A n \in 1..Len(c) : c[n] \in Lines  BY DocFacts
  <2> QED  BY <2>1, <2>2
<1>11. (head \o c[i]) \o c[i + 1] = head \o (c[i] \o c[i + 1])  BY <1>10, LinesJoinInAnyOrder
<1> QED  BY <1>8, <1>9, <1>11, Zenon

Named == EditedFiles \cup {None}
Sessions == [filepath : Named, x : Nat, y : Nat]
EditorState ==
  /\ buffer \in Docs /\ filepath \in Named /\ clipboard \in Lines \cup {None}
  /\ x \in Nat /\ y \in Nat
  /\ disk \in [EditedFiles -> Docs \cup {None}]
  /\ session \in Sessions \cup {None}

(* The newest list is the one that is recorded; no macro is bound to it before *)
(* its recording ends.                                                         *)
MacroState ==
  /\ lists \in Seq(Seq(Ide!CommandSet)) /\ lists # <<>> /\ recorded = Len(lists)
  /\ macros \in [Macros -> 0..Len(lists)]
  /\ recording # None => \A m \in Macros : macros[m] # recorded

(* A macro that goes through files keeps the text to come back to; the files  *)
(* before it exist, and the first of them is the one it runs on.               *)
MacroFrames == [kind : {"macro"}, rest : Seq(Ide!CommandSet)]
BulkFrames == [kind : {"bulk"}, macro : Macros, rest : Seq(EditedFiles), saving : BOOLEAN,
               buffer : Docs, filepath : Named]
GoodFrames ==
  MacroFrames \cup {f \in BulkFrames : /\ f.saving => f.rest # <<>>
                                      /\ \A k \in DOMAIN f.rest : disk[f.rest[k]] # None}
FrameState == frames \in Seq(GoodFrames)

(* A key finds the cursor in the text, and no macro running. *)
CursorState ==
  phase = "input" => frames = <<>> /\ y < Len(buffer) /\ x <= Len(buffer[y + 1])

EditorInv == EditorState /\ MacroState /\ FrameState /\ CursorState

LEMMA LineReplaced == ASSUME NEW s \in Lines PROVE Ide!Replaced(s) \in Lines
<1>1. PICK n \in Nat : n = Len(s) /\ s \in [1..n -> {"a", " "}] /\ DOMAIN s = 1..n
  BY LenProperties DEF Lines
<1>2. PICK r : r = Ide!Replaced(s)  OBVIOUS
<1>3. r = [i \in 1..n |-> IF s[i] = "a" THEN " " ELSE s[i]]  BY <1>1, <1>2 DEF Ide!Replaced
<1>4. r \in [1..n -> {"a", " "}]  BY <1>1, <1>3
<1>5. r \in Lines
  <2>1. PICK S : S = {"a", " "}  OBVIOUS
  <2>2. r \in [1..n -> S]  BY <1>4, <2>1
  <2>3. r \in Seq(S)  BY <2>2
  <2> QED  BY <2>1, <2>3 DEF Lines
<1> QED  BY <1>2, <1>5

LEMMA DocOf ==
    ASSUME NEW n \in Nat, NEW f \in [1..n -> Lines]
    PROVE  f \in Docs /\ Len(f) = n
BY DEF Docs

LEMMA DocOfOne == ASSUME NEW s \in Lines PROVE <<s>> \in Docs
<1>1. PICK f : f = [i \in 1..1 |-> s]  OBVIOUS
<1>2. f \in [1..1 -> Lines]  BY <1>1
<1>3. f \in Docs  BY <1>2, DocOf
<1>4. f = <<s>>  BY <1>1
<1> QED  BY <1>3, <1>4

LEMMA EmptyDoc == <<(<<>>)>> \in Docs /\ <<>> \in Docs /\ <<>> \in Lines
<1>1. <<>> \in Lines /\ <<>> \in Docs  BY DEF Docs, Lines
<1> QED  BY <1>1, DocOfOne

LEMMA DocReplaced == ASSUME NEW b \in Docs PROVE Ide!ReplacedAll(b) \in Docs
<1>1. PICK n \in Nat : n = Len(b) /\ DOMAIN b = 1..n /\ \A i \in 1..n : b[i] \in Lines
  BY DocFacts
<1>2. PICK r : r = Ide!ReplacedAll(b)  OBVIOUS
<1>3. r = [i \in 1..n |-> Ide!Replaced(b[i])]  BY <1>1, <1>2 DEF Ide!ReplacedAll
<1>4. \A i \in 1..n : Ide!Replaced(b[i]) \in Lines  BY <1>1, LineReplaced
<1>5. r \in [1..n -> Lines]  BY <1>3, <1>4
<1> QED  BY <1>2, <1>5, DocOf

LEMMA LineStripped == ASSUME NEW s \in Lines PROVE Ide!Stripped(s) \in Lines
<1>6. PICK S : Lines = Seq(S)  BY DEF Lines
<1>1. PICK n \in Nat : n = Len(s) /\ DOMAIN s = 1..n /\ \A i \in 1..n : s[i] \in S
  <2>1. s \in Seq(S)  BY <1>6
  <2> QED  BY <2>1, LenProperties
<1>2. PICK kept : kept = {i \in DOMAIN s : s[i] # " "}  OBVIOUS
<1>3. kept \subseteq 1..n  BY <1>1, <1>2
<1>4. CASE kept = {}
  <2>1. Ide!Stripped(s) = <<>>  BY <1>2, <1>4 DEF Ide!Stripped
  <2> QED  BY <2>1, EmptyDoc, Zenon
<1>5. CASE kept # {}
  <2>1. Ide!Min(kept) \in kept
    <3>1. \E i \in kept : \A j \in kept : i <= j
      <4>1. kept \subseteq Nat  BY <1>3
      <4> QED  BY <1>5, <4>1, HasLeast
    <3> QED  BY <3>1 DEF Ide!Min
  <2>2. Ide!Max(kept) \in kept
    <3>1. \E i \in kept : \A j \in kept : i >= j
      <4> DEFINE T == {n - j : j \in kept}
      <4>1. T \subseteq Nat /\ T # {}
        <5>1. \A j \in kept : n - j \in Nat  BY <1>3
        <5>2. T \subseteq Nat  BY <5>1
        <5>3. PICK j \in kept : TRUE  BY <1>5
        <5>4. n - j \in T  OBVIOUS
        <5> QED  BY <5>2, <5>4
      <4>2. PICK k \in T : \A j \in T : k <= j
        <5> HIDE DEF T
        <5> QED  BY <4>1, HasLeast
      <4>3. PICK i \in kept : k = n - i  BY <4>2
      <4>4. \A j \in kept : i >= j
        <5> TAKE j \in kept
        <5>1. k <= n - j  BY <4>2
        <5> QED  BY <1>3, <4>3, <5>1
      <4> QED  BY <4>4
    <3> QED  BY <3>1 DEF Ide!Max
  <2>3. PICK i \in 1..n, j \in 1..n : i = Ide!Min(kept) /\ j = Ide!Max(kept)
    BY <1>3, <2>1, <2>2
  <2>4. Ide!Stripped(s) = SubSeq(s, i, j)  BY <1>2, <1>5, <2>3 DEF Ide!Stripped
  <2>5. i \in Int /\ j \in Int /\ \A k \in i..j : k \in 1..n
    <3>1. i \in Nat /\ i >= 1 /\ j \in Nat /\ j <= n  BY <2>3
    <3> QED  BY <3>1
  <2>6. \A k \in i..j : s[k] \in S  BY <1>1, <2>5
  <2>7. SubSeq(s, i, j) \in Seq(S)  BY <2>5, <2>6, SubSeqProperties
  <2> QED  BY <1>6, <2>4, <2>7
<1> QED  BY <1>4, <1>5

LEMMA NoneIsNone == ASSUME NEW b \in Docs \cup Lines PROVE b # None
BY EditorAssumption DEF Docs, Lines

-----------------------------------------------------------------------------
(* The commands. *)
LEMMA FileSaved ==
    ASSUME EditorState, NEW f \in Named, Ide!SaveFile(f)
    PROVE  /\ buffer' = buffer /\ x' = x /\ y' = y /\ filepath' \in Named
           /\ disk' \in [EditedFiles -> Docs \cup {None}]
           /\ \A g \in EditedFiles : disk[g] # None => disk'[g] # None
           /\ UNCHANGED <<lists, recorded, recording, macros>>
<1>1. buffer' = buffer /\ x' = x /\ y' = y /\ UNCHANGED <<lists, recorded, recording, macros>>
  BY DEF Ide!SaveFile, Ide!cursor, Ide!macroVars
<1>2. CASE f # None /\ disk' = [disk EXCEPT ![f] = buffer] /\ filepath' = f
  <2>1. buffer # None  BY NoneIsNone DEF EditorState
  <2> QED  BY <1>1, <1>2, <2>1 DEF EditorState, Named
<1>3. CASE UNCHANGED <<disk, filepath>>  BY <1>1, <1>3 DEF EditorState
<1> QED  BY <1>2, <1>3 DEF Ide!SaveFile

(* What a command does to the text, its path, the cursor and the files. *)
TextKept ==
  /\ buffer' \in Docs /\ filepath' \in Named /\ x' \in Nat /\ y' \in Nat
  /\ disk' \in [EditedFiles -> Docs \cup {None}]
  /\ \A f \in EditedFiles : disk[f] # None => disk'[f] # None

(* And to the macros. *)
MacrosKept ==
  /\ MacroState'
  /\ \A m \in Macros : (macros[m] # 0 /\ Ide!MacroOf(m)' # Ide!MacroOf(m))
                       => recording = m /\ recording' = None

LEMMA MacrosUnchanged ==
    ASSUME MacroState, UNCHANGED <<lists, recorded, recording, macros>>
    PROVE  MacrosKept
BY DEF MacroState, MacrosKept, Ide!MacroOf

LEMMA RecordingBegins ==
    ASSUME EditorState, MacroState, NEW m \in Macros, Ide!MacroDef(m)
    PROVE  TextKept /\ MacrosKept
<1>1. TextKept  BY DEF Ide!MacroDef, Ide!bufferVars, Ide!cursor, EditorState, TextKept
<1>2. CASE UNCHANGED Ide!macroVars  BY <1>1, <1>2, MacrosUnchanged DEF Ide!macroVars
<1>3. CASE recording' = m /\ Ide!NewRecording /\ UNCHANGED macros
  <2>1. /\ lists' = Append(lists, <<>>) /\ recorded' = Len(lists) + 1 /\ macros' = macros
    BY <1>3 DEF Ide!NewRecording
  <2>2. PICK S : S = Seq(Ide!CommandSet)  OBVIOUS
  <2>3. lists \in Seq(S) /\ <<>> \in S /\ Len(lists) \in Nat  BY <2>2 DEF MacroState
  <2>4. /\ lists' \in Seq(S) /\ Len(lists') = Len(lists) + 1
        /\ \A i \in 1..Len(lists) : lists'[i] = lists[i]
    BY <2>1, <2>3, AppendProperties
  <2>5. lists' # <<>>  BY <2>3, <2>4
  <2>6. \A n \in Macros : macros[n] \in 0..Len(lists)  BY DEF MacroState
  <2>7. macros' \in [Macros -> 0..Len(lists')]  BY <2>1, <2>3, <2>4 DEF MacroState
  <2>8. \A n \in Macros : macros'[n] # recorded'  BY <2>1, <2>3, <2>6
  <2>9. MacroState'  BY <2>1, <2>2, <2>4, <2>5, <2>7, <2>8 DEF MacroState
  <2>10. \A n \in Macros : Ide!MacroOf(n)' = Ide!MacroOf(n)
    <3> TAKE n \in Macros
    <3>1. macros[n] # 0 => lists'[macros[n]] = lists[macros[n]]  BY <2>3, <2>4, <2>6
    <3> QED  BY <2>1, <3>1 DEF Ide!MacroOf
  <2> QED  BY <1>1, <2>9, <2>10 DEF MacrosKept
<1> QED  BY <1>2, <1>3 DEF Ide!MacroDef

LEMMA RecordingEnds ==
    ASSUME EditorState, MacroState, Ide!MacroEnd
    PROVE  TextKept /\ MacrosKept
<1>1. TextKept  BY DEF Ide!MacroEnd, Ide!bufferVars, Ide!cursor, EditorState, TextKept
<1>2. CASE recording = None
  <2>1. UNCHANGED <<lists, recorded, recording, macros>>  BY <1>2 DEF Ide!MacroEnd
  <2> QED  BY <1>1, <2>1, MacrosUnchanged
<1>3. CASE recording # None
  <2>1. /\ macros' = [macros EXCEPT ![recording] = recorded] /\ recording' = None
        /\ lists' = lists /\ recorded' = recorded
    BY <1>3 DEF Ide!MacroEnd
  <2>2. Len(lists) \in Nat  BY DEF MacroState
  <2>3. macros' \in [Macros -> 0..Len(lists)]
    <3>1. PICK n \in Nat : n = Len(lists)  BY <2>2
    <3>2. macros \in [Macros -> 0..n] /\ recorded \in 0..n  BY <3>1 DEF MacroState
    <3>3. macros' \in [Macros -> 0..n]  BY <2>1, <3>2
    <3> QED  BY <3>1, <3>3
  <2>4. MacroState'  BY <2>1, <2>3 DEF MacroState
  <2>5. \A n \in Macros : n # recording => Ide!MacroOf(n)' = Ide!MacroOf(n)
    BY <2>1 DEF Ide!MacroOf, MacroState
  <2> QED  BY <1>1, <2>1, <2>4, <2>5 DEF MacrosKept
<1> QED  BY <1>2, <1>3

LEMMA BlockReplaced ==
    ASSUME EditorState, NEW newline \in BOOLEAN, Ide!BlockReplace(newline)
    PROVE  buffer' \in Docs
<1>1. CASE buffer' = buffer  BY <1>1 DEF EditorState
<1>2. CASE buffer' = IF buffer = <<>> THEN <<(<<>>)>> ELSE Ide!ReplacedAll(buffer)
  BY <1>2, EmptyDoc, DocReplaced DEF EditorState
<1>3. CASE Ide!FlattenSeq(buffer) \in EditedTexts /\ buffer' = <<Ide!FlattenSeq(buffer)>>
  <2>1. PICK s \in Lines : s = Ide!FlattenSeq(buffer)  BY DocFacts DEF EditorState
  <2>2. <<s>> \in Docs  BY DocOfOne
  <2> QED  BY <1>3, <2>1, <2>2
<1> QED  BY <1>1, <1>2, <1>3 DEF Ide!BlockReplace

LEMMA ExecuteKeeps ==
    ASSUME EditorState, MacroState, NEW c \in Ide!CommandSet,
           c.op \notin {"macro_run", "bulkmacro"}, Ide!Execute(c)
    PROVE  TextKept /\ MacrosKept
<1>1. CASE c.op = "open" /\ Ide!OpenFile(c.arg)
  <2>1. c.arg \in EditedFiles  BY <1>1 DEF Ide!CommandSet, Ide!NoArg
  <2>2. UNCHANGED <<x, y, disk, lists, recorded, recording, macros>>
    BY <1>1 DEF Ide!OpenFile, Ide!OnlyBuffer, Ide!cursor, Ide!macroVars
  <2>3. buffer' \in Docs /\ filepath' \in Named
    BY <1>1, <2>1 DEF Ide!OpenFile, Ide!bufferVars, EditorState, Named
  <2> QED  BY <2>2, <2>3, MacrosUnchanged DEF TextKept, EditorState
<1>2. CASE (c.op = "save" /\ Ide!SaveFile(filepath)) \/ (c.op = "saveas" /\ Ide!SaveFile(c.arg))
  <2>1. PICK f \in Named : Ide!SaveFile(f)
    <3>1. filepath \in Named  BY DEF EditorState
    <3>2. c.op = "saveas" => c.arg \in Named  BY DEF Ide!CommandSet, Ide!NoArg, Named
    <3> QED  BY <1>2, <3>1, <3>2
  <2>2. /\ buffer' = buffer /\ x' = x /\ y' = y /\ filepath' \in Named
        /\ disk' \in [EditedFiles -> Docs \cup {None}]
        /\ \A g \in EditedFiles : disk[g] # None => disk'[g] # None
        /\ UNCHANGED <<lists, recorded, recording, macros>>
    BY <2>1, FileSaved
  <2> QED  BY <2>2, MacrosUnchanged DEF TextKept, EditorState
<1>3. CASE Ide!NewFile
  <2>1. /\ buffer' = <<(<<>>)>> /\ filepath' = None /\ x' = 0 /\ y' = 0
        /\ UNCHANGED <<disk, lists, recorded, recording, macros>>
    BY <1>3 DEF Ide!NewFile, Ide!macroVars
  <2> QED  BY <2>1, EmptyDoc, MacrosUnchanged DEF TextKept, EditorState, Named
<1>4. CASE Ide!Format
  <2>1. UNCHANGED <<filepath, x, y, disk, lists, recorded, recording, macros>>
    BY <1>4 DEF Ide!Format, Ide!OnlyBuffer, Ide!cursor, Ide!macroVars
  <2>2. buffer' \in Docs
    <3>1. PICK n \in Nat : n = Len(buffer) /\ DOMAIN buffer = 1..n /\ \A i \in 1..n : buffer[i] \in Lines
      BY DocFacts DEF EditorState
    <3>2. buffer' = [i \in 1..n |-> Ide!Stripped(buffer[i])]  BY <1>4, <3>1 DEF Ide!Format
    <3>3. \A i \in 1..n : Ide!Stripped(buffer[i]) \in Lines  BY <3>1, LineStripped
    <3>4. buffer' \in [1..n -> Lines]  BY <3>2, <3>3
    <3> QED  BY <3>4, DocOf
  <2> QED  BY <2>1, <2>2, MacrosUnchanged DEF TextKept, EditorState
<1>5. CASE \E newline \in BOOLEAN : Ide!BlockReplace(newline)
  <2>1. UNCHANGED <<filepath, x, y, disk, lists, recorded, recording, macros>>
    BY <1>5 DEF Ide!BlockReplace, Ide!OnlyBuffer, Ide!cursor, Ide!macroVars
  <2>2. buffer' \in Docs  BY <1>5, BlockReplaced
  <2> QED  BY <2>1, <2>2, MacrosUnchanged DEF TextKept, EditorState
<1>6. CASE Ide!Substitute
  <2>1. UNCHANGED <<filepath, x, y, disk, lists, recorded, recording, macros>>
    BY <1>6 DEF Ide!Substitute, Ide!OnlyBuffer, Ide!cursor, Ide!macroVars
  <2>2. buffer' \in Docs
    <3>1. CASE y < Len(buffer)
      <4>1. buffer' = Ide!SetLine(buffer, y, Ide!Replaced(buffer[y + 1]))
        BY <1>6, <3>1 DEF Ide!Substitute, Ide!InBuffer, Ide!Line
      <4>2. buffer \in Docs /\ y \in Nat /\ Len(buffer) \in Nat  BY DocFacts DEF EditorState
      <4>3. buffer[y + 1] \in Lines  BY <3>1, <4>2, DocFacts
      <4> QED  BY <3>1, <4>1, <4>2, <4>3, LineReplaced, LineSet
    <3>2. CASE ~(y < Len(buffer))  BY <1>6, <3>2 DEF Ide!Substitute, Ide!InBuffer, EditorState
    <3> QED  BY <3>1, <3>2
  <2> QED  BY <2>1, <2>2, MacrosUnchanged DEF TextKept, EditorState
<1>7. CASE Ide!BulkReplace
  <2>1. UNCHANGED <<buffer, filepath, x, y, lists, recorded, recording, macros>>
    BY <1>7 DEF Ide!BulkReplace, Ide!bufferVars, Ide!cursor, Ide!macroVars
  <2>2. PICK fs \in SUBSET {f \in EditedFiles : disk[f] # None} :
          disk' = [f \in EditedFiles |-> IF f \in fs THEN Ide!ReplacedAll(disk[f]) ELSE disk[f]]
    BY <1>7 DEF Ide!BulkReplace
  <2>3. \A f \in fs : f \in EditedFiles /\ Ide!ReplacedAll(disk[f]) \in Docs
    BY DocReplaced DEF EditorState
  <2>4. disk' \in [EditedFiles -> Docs \cup {None}]  BY <2>2, <2>3 DEF EditorState
  <2>5. \A f \in EditedFiles : disk[f] # None => disk'[f] # None  BY <2>2, <2>3, NoneIsNone
  <2> QED  BY <2>1, <2>4, <2>5, MacrosUnchanged DEF TextKept, EditorState
<1>8. CASE c.op = "macro_def" /\ Ide!MacroDef(c.arg)
  <2>1. c.arg \in Macros  BY <1>8 DEF Ide!CommandSet, Ide!NoArg
  <2> QED  BY <1>8, <2>1, RecordingBegins
<1>9. CASE Ide!MacroEnd  BY <1>9, RecordingEnds
<1>10. CASE UNCHANGED <<Ide!bufferVars, Ide!cursor, disk, Ide!macroVars>>
  <2>1. UNCHANGED <<buffer, filepath, x, y, disk, lists, recorded, recording, macros>>
    BY <1>10 DEF Ide!bufferVars, Ide!cursor, Ide!macroVars
  <2> QED  BY <2>1, MacrosUnchanged DEF TextKept, EditorState
<1>11. c.op \in {"open", "save", "saveas", "new", "format", "block_char", "block_newline", "s",
                 "bulksr", "macro_def", "macro_end", "macro_end ", "q"}
  BY DEF Ide!CommandSet, Ide!NoArg
<1>12. CASE c.op = "open"  BY <1>1, <1>12 DEF Ide!Execute
<1>13. CASE c.op = "save"  BY <1>2, <1>13 DEF Ide!Execute
<1>14. CASE c.op = "saveas"  BY <1>2, <1>14 DEF Ide!Execute
<1>15. CASE c.op = "new"  BY <1>3, <1>15 DEF Ide!Execute
<1>16. CASE c.op = "format"  BY <1>4, <1>16 DEF Ide!Execute
<1>17. CASE c.op \in {"block_char", "block_newline"}  BY <1>5, <1>17 DEF Ide!Execute
<1>18. CASE c.op = "s"  BY <1>6, <1>18 DEF Ide!Execute
<1>19. CASE c.op = "bulksr"  BY <1>7, <1>19 DEF Ide!Execute
<1>20. CASE c.op = "macro_def"  BY <1>8, <1>20 DEF Ide!Execute
<1>21. CASE c.op \in {"macro_end", "macro_end "}  BY <1>9, <1>21 DEF Ide!Execute
<1>22. CASE c.op = "q"  BY <1>10, <1>22 DEF Ide!Execute
<1> QED
  BY <1>11, <1>12, <1>13, <1>14, <1>15, <1>16, <1>17, <1>18, <1>19, <1>20, <1>21, <1>22

MacrosStay ==
  \A m \in Macros : (macros[m] # 0 /\ Ide!MacroOf(m)' # Ide!MacroOf(m))
    => (recording = m /\ recording' = None) \/ phase \in {"crashed", "ended"}

(* A step that leaves the macros, or runs a command. *)
LEMMA SameMacrosStay ==
    ASSUME MacroState, UNCHANGED <<lists, recorded, recording, macros>>
    PROVE  MacroState' /\ MacrosStay
BY DEF MacroState, MacrosStay, Ide!MacroOf

LEMMA FramesWiden ==
    ASSUME FrameState, NEW fs \in Seq(GoodFrames),
           \A f \in EditedFiles : disk[f] # None => disk'[f] # None, frames' = fs
    PROVE  FrameState'
<1>1. GoodFrames \subseteq (GoodFrames)'
  <2> SUFFICES ASSUME NEW f \in GoodFrames PROVE f \in (GoodFrames)'  OBVIOUS
  <2>1. CASE f \in MacroFrames  BY <2>1 DEF GoodFrames
  <2>2. CASE f \in BulkFrames /\ (f.saving => f.rest # <<>>)
             /\ \A k \in DOMAIN f.rest : disk[f.rest[k]] # None
    <3>1. f.rest \in Seq(EditedFiles)  BY <2>2 DEF BulkFrames
    <3>2. \A k \in DOMAIN f.rest : f.rest[k] \in EditedFiles  BY <3>1
    <3>3. \A k \in DOMAIN f.rest : disk'[f.rest[k]] # None  BY <2>2, <3>2
    <3>4. f \in (BulkFrames)'  BY <2>2 DEF BulkFrames, Named, Docs, Lines
    <3> QED  BY <2>2, <3>3, <3>4 DEF GoodFrames
  <2> QED  BY <2>1, <2>2 DEF GoodFrames
<1>2. fs \in Seq((GoodFrames)')  BY <1>1, SeqMonotonic
<1> QED  BY <1>2 DEF FrameState

LEMMA LastChanged ==
    ASSUME NEW S, NEW s \in Seq(S), s # <<>>, NEW e \in S, NEW r,
           r = [s EXCEPT ![Len(s)] = e]
    PROVE  r \in Seq(S) /\ Len(r) = Len(s)
<1>1. PICK n \in Nat : n = Len(s) /\ s \in [1..n -> S]  BY LenProperties
<1>2. r = [i \in 1..n |-> IF i = n THEN e ELSE s[i]]  BY <1>1
<1>3. r \in [1..n -> S]  BY <1>1, <1>2
<1>4. r \in Seq(S) /\ Len(r) = n  BY <1>3
<1> QED  BY <1>1, <1>4

LEMMA TopIsGood ==
    ASSUME FrameState, frames # <<>>
    PROVE  Ide!Top \in GoodFrames /\ Ide!Top = frames[Len(frames)] /\ Len(frames) \in Nat \ {0}
<1>1. PICK S : S = GoodFrames  OBVIOUS
<1>2. frames \in Seq(S)  BY <1>1 DEF FrameState
<1>3. Len(frames) \in Nat \ {0} /\ frames[Len(frames)] \in S  BY <1>2
<1>4. Ide!Top = frames[Len(frames)]  BY DEF Ide!Top, Ide!Last
<1> QED  BY <1>1, <1>3, <1>4

LEMMA MacroTop ==
    ASSUME FrameState, Ide!Running("macro")
    PROVE  /\ frames # <<>> /\ Ide!Top.rest \in Seq(Ide!CommandSet)
           /\ Ide!Top.rest # <<>> => Ide!NextCommand \in Ide!CommandSet
<1>1. frames # <<>> /\ Ide!Top.kind = "macro"  BY DEF Ide!Running
<1>2. Ide!Top \in GoodFrames  BY <1>1, TopIsGood
<1>3. Ide!Top \in MacroFrames  BY <1>1, <1>2 DEF GoodFrames, BulkFrames
<1>4. Ide!Top.rest \in Seq(Ide!CommandSet)  BY <1>3 DEF MacroFrames
<1>5. Ide!Top.rest # <<>> => Head(Ide!Top.rest) \in Ide!CommandSet
  <2> HIDE DEF Ide!CommandSet
  <2> QED  BY <1>4, HeadTailProperties
<1> QED  BY <1>1, <1>4, <1>5 DEF Ide!NextCommand

LEMMA BulkTop ==
    ASSUME FrameState, Ide!Running("bulk")
    PROVE  /\ frames # <<>> /\ Ide!Top \in BulkFrames
           /\ Ide!Top.saving => Ide!Top.rest # <<>>
           /\ \A k \in DOMAIN Ide!Top.rest : disk[Ide!Top.rest[k]] # None
<1>1. frames # <<>> /\ Ide!Top.kind = "bulk"  BY DEF Ide!Running
<1>2. Ide!Top \in GoodFrames  BY <1>1, TopIsGood
<1> QED  BY <1>1, <1>2 DEF GoodFrames, MacroFrames

LEMMA TailIsGood ==
    ASSUME NEW f \in GoodFrames, f.rest # <<>>, NEW g, g = [f EXCEPT !.rest = Tail(f.rest)],
           f \in BulkFrames => ~f.saving
    PROVE  g \in GoodFrames
<1>1. CASE f \in MacroFrames
  <2>1. f.rest \in Seq(Ide!CommandSet)  BY <1>1 DEF MacroFrames
  <2>2. PICK S : S = Ide!CommandSet  OBVIOUS
  <2>3. Tail(f.rest) \in Seq(S)  BY <2>1, <2>2, HeadTailProperties
  <2>4. g \in [kind : {"macro"}, rest : Seq(S)]  BY <1>1, <2>2, <2>3 DEF MacroFrames
  <2> QED  BY <2>2, <2>4 DEF GoodFrames, MacroFrames
<1>2. CASE f \in BulkFrames /\ \A k \in DOMAIN f.rest : disk[f.rest[k]] # None
  <2>1. f.rest \in Seq(EditedFiles)  BY <1>2 DEF BulkFrames
  <2>2. /\ Tail(f.rest) \in Seq(EditedFiles) /\ Len(Tail(f.rest)) = Len(f.rest) - 1
        /\ \A i \in 1..Len(Tail(f.rest)) : Tail(f.rest)[i] = f.rest[i + 1]
    BY <2>1, HeadTailProperties
  <2>3. g \in BulkFrames /\ g.rest = Tail(f.rest) /\ g.saving = f.saving
    BY <1>2, <2>2 DEF BulkFrames
  <2>4. \A k \in DOMAIN g.rest : disk[g.rest[k]] # None
    <3> TAKE k \in DOMAIN g.rest
    <3>1. Len(f.rest) \in Nat /\ DOMAIN f.rest = 1..Len(f.rest)  BY <2>1, LenProperties
    <3>2. DOMAIN g.rest = 1..(Len(f.rest) - 1)  BY <2>2, <2>3, LenProperties
    <3>3. k + 1 \in DOMAIN f.rest /\ g.rest[k] = f.rest[k + 1]  BY <2>2, <2>3, <3>1, <3>2
    <3> QED  BY <1>2, <3>3
  <2> QED  BY <1>2, <2>3, <2>4 DEF GoodFrames
<1> QED  BY <1>1, <1>2 DEF GoodFrames

LEMMA PoppedIsGood ==
    ASSUME FrameState, frames # <<>>, Ide!Top.rest # <<>>,
           Ide!Top \in BulkFrames => ~Ide!Top.saving
    PROVE  Ide!Popped \in Seq(GoodFrames) /\ Len(Ide!Popped) = Len(frames)
<1>1. PICK f : f = frames[Len(frames)]  OBVIOUS
<1>2. f \in GoodFrames /\ f = Ide!Top  BY <1>1, TopIsGood
<1>3. PICK g : g = [f EXCEPT !.rest = Tail(f.rest)]  OBVIOUS
<1>4. g \in GoodFrames  BY <1>2, <1>3, TailIsGood
<1>5. PICK r : r = Ide!Popped  OBVIOUS
<1>6. r = [frames EXCEPT ![Len(frames)] = g]  BY <1>1, <1>3, <1>5 DEF Ide!Popped
<1>7. PICK S : S = GoodFrames  OBVIOUS
<1>8. frames \in Seq(S) /\ g \in S  BY <1>4, <1>7 DEF FrameState
<1>9. r \in Seq(S) /\ Len(r) = Len(frames)  BY <1>6, <1>8, LastChanged
<1> QED  BY <1>5, <1>7, <1>9

LEMMA FrameAdded ==
    ASSUME NEW fs \in Seq(GoodFrames), NEW f \in GoodFrames
    PROVE  Append(fs, f) \in Seq(GoodFrames)
<1>1. PICK S : S = GoodFrames  OBVIOUS
<1>2. Append(fs, f) \in Seq(S)  BY <1>1, AppendProperties
<1> QED  BY <1>1, <1>2

LEMMA FrameRemoved ==
    ASSUME FrameState, frames # <<>>
    PROVE  Ide!Front(frames) \in Seq(GoodFrames)
<1>1. PICK S : S = GoodFrames  OBVIOUS
<1>2. frames \in Seq(S)  BY <1>1 DEF FrameState
<1>3. Len(frames) \in Nat /\ \A k \in 1..Len(frames) : frames[k] \in S  BY <1>2, LenProperties
<1>4. 1 \in Int /\ Len(frames) - 1 \in Int /\ \A k \in 1..(Len(frames) - 1) : frames[k] \in S
  BY <1>3
<1>5. SubSeq(frames, 1, Len(frames) - 1) \in Seq(S)  BY <1>4, SubSeqProperties
<1> QED  BY <1>1, <1>5 DEF Ide!Front

LEMMA MacroFrameIsGood ==
    ASSUME MacroState, NEW m \in Macros, Ide!CanRun(m)
    PROVE  Ide!MacroFrame(Ide!MacroNamed(m)) \in GoodFrames
<1>1. PICK S : S = Seq(Ide!CommandSet)  OBVIOUS
<1>2. lists \in Seq(S) /\ Len(lists) \in Nat /\ macros[m] \in 0..Len(lists) /\ macros[m] # 0
  BY <1>1 DEF MacroState, Ide!CanRun
<1>3. lists[macros[m]] \in S  BY <1>2, LenProperties
<1>4. PICK commands \in S : commands = Ide!MacroNamed(m)  BY <1>3 DEF Ide!MacroNamed
<1>5. Ide!MacroFrame(commands) \in [kind : {"macro"}, rest : S]  BY DEF Ide!MacroFrame
<1> QED  BY <1>1, <1>4, <1>5 DEF GoodFrames, MacroFrames

(* The loop. *)
LEMMA DrawKeeps ==
    ASSUME EditorInv, Ide!Draw
    PROVE  EditorInv' /\ MacrosStay
<1> USE DEF EditorInv
<1>1. /\ UNCHANGED <<buffer, filepath, y, clipboard, disk, frames>>
      /\ UNCHANGED <<lists, recorded, recording, macros>> /\ frames = <<>>
  BY DEF Ide!Draw, Ide!bufferVars, Ide!macroVars
<1>2. CASE phase' = "crashed" /\ session' = Ide!Session /\ UNCHANGED x
  <2>1. session' \in Sessions  BY <1>2 DEF Ide!Session, EditorState, Sessions, Named
  <2>2. EditorState'  BY <1>1, <1>2, <2>1 DEF EditorState, Named, Sessions, Docs, Lines
  <2>3. CursorState'  BY <1>2 DEF CursorState
  <2>4. FrameState'  BY <1>1, FramesWiden DEF FrameState
  <2> QED  BY <1>1, <2>2, <2>3, <2>4, SameMacrosStay
<1>3. CASE Ide!InBuffer /\ phase' = "input" /\ x' = Ide!Least(x, Len(Ide!Line(y))) /\ UNCHANGED session
  <2>1. y < Len(buffer) /\ x' = Ide!Least(x, Len(buffer[y + 1]))  BY <1>3 DEF Ide!InBuffer, Ide!Line
  <2>2. Len(buffer) \in Nat /\ y \in Nat /\ x \in Nat  BY DocFacts DEF EditorState
  <2>3. buffer[y + 1] \in Lines  BY <2>1, <2>2, DocFacts DEF EditorState
  <2>4. Len(buffer[y + 1]) \in Nat  BY <2>3, LineLengths
  <2>5. x' \in Nat /\ x' <= Len(buffer[y + 1])  BY <2>1, <2>2, <2>4 DEF Ide!Least
  <2>6. EditorState'  BY <1>1, <1>3, <2>5 DEF EditorState, Named, Sessions, Docs, Lines
  <2>7. CursorState'  BY <1>1, <2>1, <2>5 DEF CursorState
  <2>8. FrameState'  BY <1>1, FramesWiden DEF FrameState
  <2> QED  BY <1>1, <2>6, <2>7, <2>8, SameMacrosStay
<1> QED  BY <1>2, <1>3 DEF Ide!Draw

LEMMA QuitKeeps ==
    ASSUME EditorInv, Ide!Quit
    PROVE  EditorInv' /\ MacrosStay
<1> USE DEF EditorInv
<1>1. /\ UNCHANGED <<buffer, filepath, x, y, clipboard, disk, frames>>
      /\ UNCHANGED <<lists, recorded, recording, macros>>
      /\ phase' = "ended" /\ session' = Ide!Session
  BY DEF Ide!Quit, Ide!bufferVars, Ide!macroVars, Ide!cursor
<1>2. session' \in Sessions  BY <1>1 DEF Ide!Session, EditorState, Sessions, Named
<1>3. EditorState'  BY <1>1, <1>2 DEF EditorState, Named, Sessions, Docs, Lines
<1>4. CursorState'  BY <1>1 DEF CursorState
<1>5. FrameState'  BY <1>1, FramesWiden DEF FrameState
<1> QED  BY <1>1, <1>3, <1>4, <1>5, SameMacrosStay

LEMMA RestartKeeps ==
    ASSUME EditorInv, Ide!Restart
    PROVE  EditorInv' /\ MacrosStay
<1> USE DEF EditorInv
<1>1. /\ UNCHANGED <<disk, session, frames>> /\ clipboard' = None /\ phase' = "draw"
      /\ lists' = <<(<<>>)>> /\ recorded' = 1 /\ recording' = None
      /\ macros' = [m \in Macros |-> 0] /\ phase \in {"crashed", "ended"}
  BY DEF Ide!Restart
<1>2. PICK f \in Named :
        LET s == IF f = None /\ session # None THEN session
                 ELSE [filepath |-> f, x |-> 0, y |-> 0] IN
        filepath' = s.filepath /\ buffer' = Ide!Load(s.filepath) /\ x' = s.x /\ y' = s.y
  BY Zenon DEF Ide!Restart, Named
<1>3. PICK s \in Sessions : filepath' = s.filepath /\ buffer' = Ide!Load(s.filepath) /\ x' = s.x /\ y' = s.y
  <2>1. session # None => session \in Sessions  BY DEF EditorState
  <2>2. [filepath |-> f, x |-> 0, y |-> 0] \in Sessions  BY DEF Sessions
  <2> QED  BY <1>2, <2>1, <2>2
<1>4. s.filepath \in Named /\ x' \in Nat /\ y' \in Nat  BY <1>3 DEF Sessions
<1>5. buffer' \in Docs  BY <1>3, <1>4, EmptyDoc DEF Ide!Load, EditorState, Named
<1>6. EditorState'  BY <1>1, <1>3, <1>4, <1>5 DEF EditorState, Named, Sessions, Docs, Lines
<1>7. MacroState'
  <2>1. PICK S : S = Seq(Ide!CommandSet)  OBVIOUS
  <2>2. <<>> \in S  BY <2>1
  <2>3. lists' \in Seq(S) /\ Len(lists') = 1 /\ lists' # <<>>  BY <1>1, <2>2
  <2>4. macros' \in [Macros -> 0..Len(lists')]  BY <1>1, <2>3
  <2> QED  BY <1>1, <2>1, <2>3, <2>4 DEF MacroState
<1>8. CursorState'  BY <1>1 DEF CursorState
<1>9. FrameState'  BY <1>1, FramesWiden DEF FrameState
<1>10. MacrosStay  BY <1>1 DEF MacrosStay
<1> QED  BY <1>6, <1>7, <1>8, <1>9, <1>10

(* A step of the loop that changes neither files nor macros and runs none. *)
LEMMA LoopStep ==
    ASSUME EditorInv, buffer' \in Docs, x' \in Nat, y' \in Nat, clipboard' \in Lines \cup {None},
           UNCHANGED <<filepath, session, disk, frames, lists, recorded, recording, macros>>,
           phase' # "input"
    PROVE  EditorInv' /\ MacrosStay
<1> USE DEF EditorInv
<1>1. EditorState'  BY DEF EditorState, Named, Sessions, Docs, Lines
<1>2. CursorState'  BY DEF CursorState
<1>3. FrameState'  BY FramesWiden DEF FrameState
<1> QED  BY <1>1, <1>2, <1>3, SameMacrosStay

(* What a key of the editor finds. *)
LEMMA AtKey ==
    ASSUME EditorInv, Ide!Key("edit")
    PROVE  /\ buffer \in Docs /\ Len(buffer) \in Nat /\ x \in Nat /\ y \in Nat /\ y < Len(buffer)
           /\ buffer[y + 1] \in Lines /\ Ide!Line(y) = buffer[y + 1]
           /\ Len(buffer[y + 1]) \in Nat /\ x <= Len(buffer[y + 1])
           /\ clipboard \in Lines \cup {None}
<1>1. /\ buffer \in Docs /\ x \in Nat /\ y \in Nat /\ y < Len(buffer) /\ x <= Len(buffer[y + 1])
      /\ clipboard \in Lines \cup {None}
  BY DEF EditorInv, EditorState, CursorState, Ide!Key
<1>2. Len(buffer) \in Nat  BY <1>1, DocFacts
<1>3. buffer[y + 1] \in Lines  BY <1>1, <1>2, DocFacts
<1>4. Len(buffer[y + 1]) \in Nat  BY <1>3, LineLengths
<1> QED  BY <1>1, <1>2, <1>3, <1>4 DEF Ide!Line

(* What an editing key leaves alone. *)
LEMMA EditingLeaves ==
    ASSUME Ide!Editing
    PROVE  /\ UNCHANGED <<filepath, session, disk, frames, lists, recorded, recording, macros>>
           /\ phase' = "draw" /\ Ide!Key("edit")
BY DEF Ide!Editing, Ide!Redraw, Ide!macroVars

(* One character more or less, one line more or less, or the same text. *)
TextChange ==
  \/ Ide!Text' = Ide!Text \/ Ide!OneCharacter(Ide!Text, Ide!Text') \/ Ide!OneCharacter(Ide!Text', Ide!Text)
  \/ /\ clipboard' # None
     /\ Len(clipboard') \in {Len(Ide!Text') - Len(Ide!Text), Len(Ide!Text) - Len(Ide!Text')}
CursorKept == Ide!InBuffer' \/ (y = Len(buffer) - 1 /\ clipboard' = Ide!Line(y))
KeyKeeps == EditorInv' /\ MacrosStay /\ TextChange /\ CursorKept

LEMMA CutOrCopyKeeps ==
    ASSUME EditorInv, Ide!CutOrCopy
    PROVE  KeyKeeps
<1>1. Ide!Editing /\ x' = x /\ y' = y /\ clipboard' = Ide!Line(y)
  BY DEF Ide!CutOrCopy, Ide!cursor
<1>2. /\ UNCHANGED <<filepath, session, disk, frames, lists, recorded, recording, macros>>
      /\ phase' = "draw" /\ Ide!Key("edit")
  BY <1>1, EditingLeaves
<1>3. /\ buffer \in Docs /\ Len(buffer) \in Nat /\ x \in Nat /\ y \in Nat /\ y < Len(buffer)
      /\ buffer[y + 1] \in Lines /\ Ide!Line(y) = buffer[y + 1]
  BY <1>2, AtKey
<1>4. CASE buffer' = buffer
  <2>1. EditorInv' /\ MacrosStay  BY <1>1, <1>2, <1>3, <1>4, LoopStep
  <2>2. Ide!Text' = Ide!Text  BY <1>4 DEF Ide!Text
  <2>3. Ide!InBuffer'  BY <1>1, <1>3, <1>4 DEF Ide!InBuffer
  <2> QED  BY <2>1, <2>2, <2>3 DEF KeyKeeps, TextChange, CursorKept
<1>5. CASE buffer' = Ide!RemoveAt(buffer, y + 1)
  <2>1. y + 1 \in 1..Len(buffer)  BY <1>3
  <2>2. /\ buffer' \in Docs /\ Len(buffer') = Len(buffer) - 1
        /\ Len(buffer[y + 1]) = Len(Ide!FlattenSeq(buffer)) - Len(Ide!FlattenSeq(buffer'))
    BY <1>3, <1>5, <2>1, CutText
  <2>3. EditorInv' /\ MacrosStay  BY <1>1, <1>2, <1>3, <2>2, LoopStep
  <2>4. clipboard' # None  BY <1>1, <1>3, NoneIsNone
  <2>5. TextChange  BY <1>1, <1>3, <2>2, <2>4 DEF TextChange, Ide!Text
  <2>6. CursorKept  BY <1>1, <1>3, <2>2 DEF CursorKept, Ide!InBuffer
  <2> QED  BY <2>3, <2>5, <2>6 DEF KeyKeeps
<1> QED  BY <1>4, <1>5 DEF Ide!CutOrCopy

LEMMA PasteKeeps ==
    ASSUME EditorInv, Ide!Paste
    PROVE  KeyKeeps
<1>1. /\ Ide!Editing /\ x' = x /\ y' = y /\ clipboard' = clipboard /\ clipboard # None
      /\ buffer' = Ide!InsertAt(buffer, y + 1, clipboard)
  BY DEF Ide!Paste, Ide!cursor
<1>2. /\ UNCHANGED <<filepath, session, disk, frames, lists, recorded, recording, macros>>
      /\ phase' = "draw" /\ Ide!Key("edit")
  BY <1>1, EditingLeaves
<1>3. /\ buffer \in Docs /\ Len(buffer) \in Nat /\ x \in Nat /\ y \in Nat /\ y < Len(buffer)
      /\ clipboard \in Lines
  BY <1>1, <1>2, AtKey
<1>4. y + 1 \in 1..(Len(buffer) + 1)  BY <1>3
<1>5. /\ buffer' \in Docs /\ Len(buffer') = Len(buffer) + 1
      /\ Len(clipboard) = Len(Ide!FlattenSeq(buffer')) - Len(Ide!FlattenSeq(buffer))
  BY <1>1, <1>3, <1>4, PastedText
<1>6. EditorInv' /\ MacrosStay  BY <1>1, <1>2, <1>3, <1>5, LoopStep
<1>7. TextChange  BY <1>1, <1>5 DEF TextChange, Ide!Text
<1>8. CursorKept  BY <1>1, <1>3, <1>5 DEF CursorKept, Ide!InBuffer
<1> QED  BY <1>6, <1>7, <1>8 DEF KeyKeeps

LEMMA EnterKeeps ==
    ASSUME EditorInv, Ide!Enter
    PROVE  KeyKeeps
<1> DEFINE s == buffer[y + 1]
           p == SubSeq(s, 1, x)
           q == SubSeq(s, x + 1, Len(s))
           b == Ide!SetLine(buffer, y, p)
<1>1. /\ Ide!Editing /\ x' = 0 /\ y' = y + 1 /\ clipboard' = clipboard
      /\ buffer' = Ide!InsertAt(b, y + 2, q)
  BY DEF Ide!Enter, Ide!Line
<1>2. /\ UNCHANGED <<filepath, session, disk, frames, lists, recorded, recording, macros>>
      /\ phase' = "draw" /\ Ide!Key("edit")
  BY <1>1, EditingLeaves
<1>3. /\ buffer \in Docs /\ Len(buffer) \in Nat /\ x \in Nat /\ y \in Nat /\ y < Len(buffer)
      /\ s \in Lines /\ Len(s) \in Nat /\ x <= Len(s) /\ clipboard \in Lines \cup {None}
  BY <1>2, AtKey
<1>4. p \in Lines /\ q \in Lines /\ p \o q = s
  <2> HIDE DEF s
  <2>1. PICK S : Lines = Seq(S)  BY DEF Lines
  <2>2. s \in Seq(S)  BY <1>3, <2>1
  <2>3. \A i \in 1..Len(s) : s[i] \in S  BY <2>2, LenProperties
  <2>4. p \in Seq(S)
    <3>1. 1 \in Int /\ x \in Int /\ \A i \in 1..x : s[i] \in S  BY <1>3, <2>3
    <3> QED  BY <3>1, SubSeqProperties
  <2>5. q \in Seq(S)
    <3>1. x + 1 \in Int /\ Len(s) \in Int /\ \A i \in (x + 1)..Len(s) : s[i] \in S  BY <1>3, <2>3
    <3> QED  BY <3>1, SubSeqProperties
  <2>6. p \o q = s
    <3>1. 1 \in 1..(Len(s) + 1) /\ x \in (1 - 1)..Len(s) /\ Len(s) \in x..Len(s)  BY <1>3
    <3>2. p \o q = SubSeq(s, 1, Len(s))  BY <2>2, <3>1, ConcatAdjacentSubSeq
    <3>3. SubSeq(s, 1, Len(s)) = s  BY <2>2, SubSeqFull
    <3> QED  BY <3>2, <3>3, Zenon
  <2> QED  BY <2>1, <2>4, <2>5, <2>6
<1> HIDE DEF p, q
<1>5. b \in Docs /\ Len(b) = Len(buffer) /\ \A j \in 1..Len(buffer) : b[j] = IF j = y + 1 THEN p ELSE buffer[j]
  BY <1>3, <1>4, LineSet
<1> HIDE DEF b
<1>6. /\ buffer' \in Docs /\ Len(buffer') = Len(buffer) + 1
      /\ \A k \in 1..(Len(buffer) + 1) :
           buffer'[k] = IF k < y + 2 THEN b[k] ELSE IF k = y + 2 THEN q ELSE b[k - 1]
  <2>1. PICK S : S = Lines  OBVIOUS
  <2>2. PICK i : i = y + 2  OBVIOUS
  <2>3. PICK d, v : d = b /\ v = q  OBVIOUS
  <2>4. d \in Seq(S) /\ v \in S /\ i \in 1..(Len(d) + 1)
    BY <1>3, <1>4, <1>5, <2>1, <2>2, <2>3 DEF Docs
  <2>5. PICK c : c = Ide!InsertAt(d, i, v)  OBVIOUS
  <2>6. /\ c \in Seq(S) /\ Len(c) = Len(d) + 1
        /\ \A k \in 1..(Len(d) + 1) : c[k] = IF k < i THEN d[k] ELSE IF k = i THEN v ELSE d[k - 1]
    BY ONLY <2>4, <2>5, Inserted, SMTT(40)
  <2>7. c = buffer'  BY <1>1, <2>2, <2>3, <2>5
  <2> QED  BY <1>5, <2>1, <2>2, <2>3, <2>6, <2>7, Zenon DEF Docs
<1>7. Ide!FlattenSeq(buffer) = Ide!FlattenSeq(buffer')
  <2>1. PICK c : c = buffer'  OBVIOUS
  <2>2. PICK i \in 1..Len(buffer) : i = y + 1  BY <1>3
  <2>3. \A j \in 1..(i - 1) : buffer[j] = c[j]  BY <1>3, <1>5, <1>6, <2>1, <2>2
  <2>4. c[i] = p
    <3>1. i \in 1..(Len(buffer) + 1) /\ i < y + 2  BY <1>3, <2>2
    <3> QED  BY <1>5, <1>6, <2>1, <2>2, <3>1
  <2>5. c[i + 1] = q
    <3>1. i + 1 \in 1..(Len(buffer) + 1) /\ ~(i + 1 < y + 2) /\ i + 1 = y + 2  BY <1>3, <2>2
    <3> QED  BY <1>6, <2>1, <3>1
  <2>6. buffer[i] = c[i] \o c[i + 1]  BY <1>4, <2>2, <2>4, <2>5, Zenon
  <2>7. \A j \in (i + 1)..Len(buffer) : buffer[j] = c[j + 1]
    <3> TAKE j \in (i + 1)..Len(buffer)
    <3>1. /\ j + 1 \in 1..(Len(buffer) + 1) /\ ~(j + 1 < y + 2) /\ j + 1 # y + 2 /\ (j + 1) - 1 = j
          /\ j \in 1..Len(buffer) /\ j # y + 1
      BY <1>3, <2>2
    <3> QED  BY <1>5, <1>6, <2>1, <3>1
  <2>8. c \in Docs /\ Len(c) = Len(buffer) + 1  BY <1>6, <2>1
  <2> QED  BY <1>3, <2>1, <2>3, <2>6, <2>7, <2>8, SplitText
<1>8. EditorInv' /\ MacrosStay
  <2>1. x' \in Nat /\ y' \in Nat  BY <1>1, <1>3
  <2> QED  BY <1>1, <1>2, <1>3, <1>6, <2>1, LoopStep
<1>9. TextChange  BY <1>7 DEF TextChange, Ide!Text
<1>10. CursorKept  BY <1>1, <1>3, <1>6 DEF CursorKept, Ide!InBuffer
<1> QED  BY <1>8, <1>9, <1>10 DEF KeyKeeps

(* A line with one character more makes the text longer by that character. *)
LEMMA LongerLine ==
    ASSUME NEW b \in Docs, NEW k \in Nat, k < Len(b), NEW e \in Lines, NEW i \in 1..Len(e),
           b[k + 1] = Ide!RemoveAt(e, i)
    PROVE  Ide!OneCharacter(Ide!FlattenSeq(b), Ide!FlattenSeq(Ide!SetLine(b, k, e)))
<1>1. PICK S : Lines = Seq(S)  BY DEF Lines
<1>2. PICK head \in Lines, tail \in Lines :
        /\ Ide!FlattenSeq(b) = (head \o b[k + 1]) \o tail
        /\ Ide!FlattenSeq(Ide!SetLine(b, k, e)) = (head \o e) \o tail
  BY ChangedText
<1>3. head \in Seq(S) /\ tail \in Seq(S) /\ e \in Seq(S) /\ i \in 1..Len(e)  BY <1>1
<1>4. /\ Len(head) + i \in DOMAIN ((head \o e) \o tail)
      /\ (head \o Ide!RemoveAt(e, i)) \o tail = Ide!RemoveAt((head \o e) \o tail, Len(head) + i)
  BY ONLY <1>3, RemovedInside, Zenon
<1> QED  BY <1>2, <1>4, Zenon DEF Ide!OneCharacter

LEMMA ShorterLine ==
    ASSUME NEW b \in Docs, NEW k \in Nat, k < Len(b), NEW e \in Lines, NEW i \in 1..Len(b[k + 1]),
           e = Ide!RemoveAt(b[k + 1], i)
    PROVE  Ide!OneCharacter(Ide!FlattenSeq(Ide!SetLine(b, k, e)), Ide!FlattenSeq(b))
<1>1. PICK S : Lines = Seq(S)  BY DEF Lines
<1>2. PICK head \in Lines, tail \in Lines :
        /\ Ide!FlattenSeq(b) = (head \o b[k + 1]) \o tail
        /\ Ide!FlattenSeq(Ide!SetLine(b, k, e)) = (head \o e) \o tail
  BY ChangedText
<1>3. PICK s \in Lines : s = b[k + 1]
  <2>1. Len(b) \in Nat /\ k + 1 \in 1..Len(b)  BY DocFacts
  <2> QED  BY <2>1, DocFacts
<1>4. head \in Seq(S) /\ tail \in Seq(S) /\ s \in Seq(S) /\ i \in 1..Len(s)  BY <1>1, <1>3
<1>5. /\ Len(head) + i \in DOMAIN ((head \o s) \o tail)
      /\ (head \o Ide!RemoveAt(s, i)) \o tail = Ide!RemoveAt((head \o s) \o tail, Len(head) + i)
  BY ONLY <1>4, RemovedInside, Zenon
<1> QED  BY <1>2, <1>3, <1>5, Zenon DEF Ide!OneCharacter

(* Joining a line to the one before it leaves the text as it is. *)
LEMMA JoinedLines ==
    ASSUME NEW b \in Docs, NEW n \in Nat \ {0}, n < Len(b), NEW e, e = b[n] \o b[n + 1],
           NEW c, c = Ide!RemoveAt(Ide!SetLine(b, n - 1, e), n + 1)
    PROVE  c \in Docs /\ Len(c) = Len(b) - 1 /\ Ide!FlattenSeq(c) = Ide!FlattenSeq(b)
<1>1. Len(b) \in Nat /\ n \in 1..Len(b) /\ n + 1 \in 1..Len(b)  BY DocFacts
<1>2. e \in Lines
  <2>1. b[n] \in Lines /\ b[n + 1] \in Lines  BY <1>1, DocFacts
  <2> QED  BY <2>1, LineLengths
<1>3. PICK k \in Nat : k = n - 1 /\ k + 1 = n /\ k < Len(b)  BY <1>1
<1>4. PICK d : d = Ide!SetLine(b, k, e)  OBVIOUS
<1>5. d \in Docs /\ Len(d) = Len(b) /\ \A j \in 1..Len(b) : d[j] = IF j = k + 1 THEN e ELSE b[j]
  BY <1>2, <1>3, <1>4, LineSet
<1>6. PICK i \in 1..Len(d) : i = n + 1  BY <1>1, <1>5
<1>7. PICK S : S = Lines  OBVIOUS
<1>8. d \in Seq(S) /\ i \in 1..Len(d)  BY <1>5, <1>6, <1>7 DEF Docs
<1>9. c = Ide!RemoveAt(d, i)  BY <1>3, <1>4, <1>6
<1>10. /\ c \in Seq(S) /\ Len(c) = Len(d) - 1
       /\ \A j \in 1..(Len(d) - 1) : c[j] = IF j < i THEN d[j] ELSE d[j + 1]
  BY ONLY <1>8, <1>9, Removed, Zenon
<1>11. c \in Docs /\ Len(b) = Len(c) + 1 /\ Len(c) \in Nat /\ n \in 1..Len(c)
  BY <1>1, <1>5, <1>7, <1>10 DEF Docs
<1>12. \A j \in 1..(n - 1) : c[j] = b[j]
  <2> TAKE j \in 1..(n - 1)
  <2>1. j \in 1..(Len(d) - 1) /\ j < i /\ j \in 1..Len(b) /\ j # k + 1  BY <1>1, <1>3, <1>5, <1>6
  <2> QED  BY <1>5, <1>10, <2>1
<1>13. c[n] = b[n] \o b[n + 1]
  <2>1. n \in 1..(Len(d) - 1) /\ n < i /\ n = k + 1  BY <1>1, <1>3, <1>5, <1>6
  <2>2. c[n] = d[n]  BY <1>10, <2>1
  <2>3. d[n] = e  BY <1>1, <1>5, <2>1
  <2> QED  BY <2>2, <2>3
<1>14. \A j \in (n + 1)..Len(c) : c[j] = b[j + 1]
  <2> TAKE j \in (n + 1)..Len(c)
  <2>1. /\ j \in 1..(Len(d) - 1) /\ ~(j < i) /\ j + 1 \in 1..Len(b) /\ j + 1 # k + 1
    BY <1>1, <1>3, <1>5, <1>6, <1>11
  <2> QED  BY <1>5, <1>10, <2>1
<1>15. Ide!FlattenSeq(c) = Ide!FlattenSeq(b)  BY <1>11, <1>12, <1>13, <1>14, SplitText
<1>16. Len(c) = Len(b) - 1  BY <1>1, <1>11
<1> QED  BY <1>11, <1>15, <1>16

LEMMA BackspaceKeeps ==
    ASSUME EditorInv, Ide!Backspace
    PROVE  KeyKeeps
<1>1. Ide!Editing /\ clipboard' = clipboard  BY DEF Ide!Backspace
<1>2. /\ UNCHANGED <<filepath, session, disk, frames, lists, recorded, recording, macros>>
      /\ phase' = "draw" /\ Ide!Key("edit")
  BY <1>1, EditingLeaves
<1>3. /\ buffer \in Docs /\ Len(buffer) \in Nat /\ x \in Nat /\ y \in Nat /\ y < Len(buffer)
      /\ buffer[y + 1] \in Lines /\ Len(buffer[y + 1]) \in Nat /\ x <= Len(buffer[y + 1])
      /\ clipboard \in Lines \cup {None}
  BY <1>2, AtKey
<1>4. CASE x > 0 /\ buffer' = Ide!SetLine(buffer, y, Ide!RemoveAt(Ide!Line(y), x))
           /\ x' = x - 1 /\ y' = y
  <2>1. PICK e : e = Ide!RemoveAt(buffer[y + 1], x)  OBVIOUS
  <2>2. x \in 1..Len(buffer[y + 1])  BY <1>3, <1>4
  <2>3. e \in Lines
    <3>1. PICK S : Lines = Seq(S)  BY DEF Lines
    <3>2. PICK s : s = buffer[y + 1]  OBVIOUS
    <3>3. s \in Seq(S) /\ x \in 1..Len(s) /\ e = Ide!RemoveAt(s, x)  BY <1>3, <2>1, <2>2, <3>1, <3>2
    <3>4. e \in Seq(S)  BY <3>3, Removed
    <3> QED  BY <3>1, <3>4
  <2>4. buffer' = Ide!SetLine(buffer, y, e)  BY <1>4, <2>1 DEF Ide!Line
  <2>5. buffer' \in Docs /\ Len(buffer') = Len(buffer)  BY <1>3, <2>3, <2>4, LineSet
  <2>6. Ide!OneCharacter(Ide!FlattenSeq(Ide!SetLine(buffer, y, e)), Ide!FlattenSeq(buffer))
    BY <1>3, <2>1, <2>2, <2>3, ShorterLine
  <2>7. TextChange  BY <2>4, <2>6, Zenon DEF TextChange, Ide!Text
  <2>8. EditorInv' /\ MacrosStay
    <3>1. x' \in Nat /\ y' \in Nat  BY <1>3, <1>4
    <3> QED  BY <1>1, <1>2, <1>3, <2>5, <3>1, LoopStep
  <2>9. CursorKept  BY <1>3, <1>4, <2>5 DEF CursorKept, Ide!InBuffer
  <2> QED  BY <2>7, <2>8, <2>9 DEF KeyKeeps
<1>5. CASE /\ y > 0 /\ x' = Len(Ide!Line(y - 1)) /\ y' = y - 1
           /\ buffer' = Ide!RemoveAt(Ide!SetLine(buffer, y - 1, Ide!Line(y - 1) \o Ide!Line(y)), y + 1)
  <2>1. y \in Nat \ {0} /\ y - 1 \in Nat /\ y \in 1..Len(buffer) /\ (y - 1) + 1 = y  BY <1>3, <1>5
  <2>2. PICK e : e = buffer[y] \o buffer[y + 1]  OBVIOUS
  <2>3. PICK c : c = buffer'  OBVIOUS
  <2>4. c = Ide!RemoveAt(Ide!SetLine(buffer, y - 1, e), y + 1)
    BY <1>5, <2>1, <2>2, <2>3 DEF Ide!Line
  <2>5. c \in Docs /\ Len(c) = Len(buffer) - 1 /\ Ide!FlattenSeq(c) = Ide!FlattenSeq(buffer)
    BY <1>3, <2>1, <2>2, <2>4, JoinedLines
  <2>6. TextChange  BY <2>3, <2>5, Zenon DEF TextChange, Ide!Text
  <2>7. x' \in Nat
    <3>1. buffer[y] \in Lines  BY <1>3, <2>1, DocFacts
    <3>2. x' = Len(buffer[y])  BY <1>5, <2>1 DEF Ide!Line
    <3> QED  BY <3>1, <3>2, LineLengths
  <2>8. EditorInv' /\ MacrosStay
    <3>1. y' \in Nat  BY <1>5, <2>1
    <3> QED  BY <1>1, <1>2, <1>3, <2>3, <2>5, <2>7, <3>1, LoopStep
  <2>9. CursorKept  BY <1>3, <1>5, <2>1, <2>3, <2>5 DEF CursorKept, Ide!InBuffer
  <2> QED  BY <2>6, <2>8, <2>9 DEF KeyKeeps
<1> QED  BY <1>4, <1>5 DEF Ide!Backspace

LEMMA MoveKeeps ==
    ASSUME EditorInv, Ide!Move
    PROVE  KeyKeeps
<1>1. Ide!Editing /\ buffer' = buffer /\ clipboard' = clipboard  BY DEF Ide!Move
<1>2. /\ UNCHANGED <<filepath, session, disk, frames, lists, recorded, recording, macros>>
      /\ phase' = "draw" /\ Ide!Key("edit")
  BY <1>1, EditingLeaves
<1>3. /\ buffer \in Docs /\ Len(buffer) \in Nat /\ x \in Nat /\ y \in Nat /\ y < Len(buffer)
      /\ Ide!Line(y) = buffer[y + 1] /\ Len(buffer[y + 1]) \in Nat
      /\ clipboard \in Lines \cup {None}
  BY <1>2, AtKey
<1>4. x' \in Nat /\ y' \in Nat /\ y' < Len(buffer)  BY <1>3 DEF Ide!Move, Ide!Least
<1>5. EditorInv' /\ MacrosStay  BY <1>1, <1>2, <1>3, <1>4, LoopStep
<1>6. TextChange  BY <1>1 DEF TextChange, Ide!Text
<1>7. CursorKept  BY <1>1, <1>4 DEF CursorKept, Ide!InBuffer
<1> QED  BY <1>5, <1>6, <1>7 DEF KeyKeeps

LEMMA TypeKeeps ==
    ASSUME EditorInv, Ide!Type
    PROVE  KeyKeeps
<1>1. Ide!Editing /\ clipboard' = clipboard /\ y' = y /\ x' = x + 1  BY DEF Ide!Type
<1>2. /\ UNCHANGED <<filepath, session, disk, frames, lists, recorded, recording, macros>>
      /\ phase' = "draw" /\ Ide!Key("edit")
  BY <1>1, EditingLeaves
<1>3. /\ buffer \in Docs /\ Len(buffer) \in Nat /\ x \in Nat /\ y \in Nat /\ y < Len(buffer)
      /\ buffer[y + 1] \in Lines /\ Len(buffer[y + 1]) \in Nat /\ x <= Len(buffer[y + 1])
      /\ clipboard \in Lines \cup {None}
  BY <1>2, AtKey
<1>4. PICK typed : /\ typed \in {"a", " "}
                   /\ buffer' = Ide!SetLine(buffer, y, Ide!InsertAt(Ide!Line(y), x + 1, typed))
  BY DEF Ide!Type
<1>5. PICK S : Lines = Seq(S) /\ typed \in S  BY <1>4 DEF Lines
<1>6. PICK s : s = buffer[y + 1]  OBVIOUS
<1>7. PICK i \in 1..(Len(s) + 1) : i = x + 1  BY <1>3, <1>6
<1>8. PICK e : e = Ide!InsertAt(s, i, typed)  OBVIOUS
<1>9. s \in Seq(S) /\ Len(s) \in Nat /\ i \in 1..(Len(s) + 1)  BY <1>3, <1>5, <1>6, <1>7
<1>10. e \in Seq(S) /\ Len(e) = Len(s) + 1  BY ONLY <1>5, <1>8, <1>9, Inserted, SMTT(40)
<1>11. Ide!RemoveAt(Ide!InsertAt(s, i, typed), i) = s  BY ONLY <1>5, <1>9, TakesBackInsertion, SMTT(40)
<1>12. buffer' = Ide!SetLine(buffer, y, e)  BY <1>4, <1>6, <1>7, <1>8 DEF Ide!Line
<1>13. e \in Lines /\ i \in 1..Len(e) /\ buffer[y + 1] = Ide!RemoveAt(e, i)
  BY <1>5, <1>6, <1>8, <1>9, <1>10, <1>11
<1>14. buffer' \in Docs /\ Len(buffer') = Len(buffer)  BY <1>3, <1>12, <1>13, LineSet
<1>15. Ide!OneCharacter(Ide!FlattenSeq(buffer), Ide!FlattenSeq(Ide!SetLine(buffer, y, e)))
  BY <1>3, <1>13, LongerLine
<1>16. TextChange  BY <1>12, <1>15, Zenon DEF TextChange, Ide!Text
<1>17. EditorInv' /\ MacrosStay
  <2>1. x' \in Nat /\ y' \in Nat  BY <1>1, <1>3
  <2> QED  BY <1>1, <1>2, <1>3, <1>14, <2>1, LoopStep
<1>18. CursorKept  BY <1>1, <1>3, <1>14 DEF CursorKept, Ide!InBuffer
<1> QED  BY <1>16, <1>17, <1>18 DEF KeyKeeps

LEMMA ChangeModeKeeps ==
    ASSUME EditorInv, Ide!ChangeMode
    PROVE  KeyKeeps
<1>1. /\ UNCHANGED <<buffer, filepath, x, y, clipboard, session, disk, frames>>
      /\ UNCHANGED <<lists, recorded, recording, macros>>
      /\ phase' # "input" /\ Ide!Key("edit")
  BY DEF Ide!ChangeMode, Ide!bufferVars, Ide!cursor, Ide!macroVars
<1>2. /\ buffer \in Docs /\ x \in Nat /\ y \in Nat /\ y < Len(buffer)
      /\ clipboard \in Lines \cup {None}
  BY <1>1, AtKey
<1>3. EditorInv' /\ MacrosStay  BY <1>1, <1>2, LoopStep
<1>4. TextChange  BY <1>1 DEF TextChange, Ide!Text
<1>5. CursorKept  BY <1>1, <1>2 DEF CursorKept, Ide!InBuffer
<1> QED  BY <1>3, <1>4, <1>5 DEF KeyKeeps

LEMMA PromptKeeps ==
    ASSUME EditorInv, Ide!Prompt
    PROVE  EditorInv' /\ MacrosStay
<1>1. /\ UNCHANGED <<filepath, x, y, clipboard, session, disk, frames>>
      /\ UNCHANGED <<lists, recorded, recording, macros>> /\ phase' = "draw"
      /\ buffer' = buffer \/ buffer' = Ide!ReplacedAll(buffer)
  BY DEF Ide!Prompt, Ide!cursor, Ide!macroVars
<1>2. buffer \in Docs /\ x \in Nat /\ y \in Nat /\ clipboard \in Lines \cup {None}
  BY DEF EditorInv, EditorState
<1>3. buffer' \in Docs  BY <1>1, <1>2, DocReplaced
<1> QED  BY <1>1, <1>2, <1>3, LoopStep

(* A command that is recorded goes to a list that no macro is bound to. *)
LEMMA RecordedApart ==
    ASSUME MacroState, recording # None, NEW c \in Ide!CommandSet,
           lists' = [lists EXCEPT ![recorded] = Append(lists[recorded], c)],
           UNCHANGED <<recorded, recording, macros>>
    PROVE  MacroState' /\ MacrosStay
<1>1. PICK C : C = Ide!CommandSet  OBVIOUS
<1>2. PICK n \in Nat \ {0} : n = Len(lists) /\ n = recorded
  BY DEF MacroState
<1>3. lists \in [1..n -> Seq(C)] /\ c \in C  BY <1>1, <1>2 DEF MacroState
<1>4. PICK t : t = Append(lists[n], c)  OBVIOUS
<1>5. t \in Seq(C)
  <2>1. lists[n] \in Seq(C)  BY <1>2, <1>3
  <2> QED  BY <1>3, <1>4, <2>1, AppendProperties
<1>6. lists' = [k \in 1..n |-> IF k = n THEN t ELSE lists[k]]  BY <1>2, <1>3, <1>4
<1>7. lists' \in [1..n -> Seq(C)] /\ \A k \in 1..n : k # n => lists'[k] = lists[k]
  BY <1>3, <1>5, <1>6
<1>8. lists' \in Seq(Seq(C)) /\ Len(lists') = n /\ lists' # <<>>
  <2>1. PICK S : S = Seq(C)  OBVIOUS
  <2>2. lists' \in Seq(S) /\ Len(lists') = n  BY <1>7, <2>1
  <2> QED  BY <1>2, <2>1, <2>2
<1>9. \A m \in Macros : macros[m] \in 0..n /\ macros[m] # n  BY <1>2 DEF MacroState
<1>10. \A m \in Macros : macros[m] # 0 => lists'[macros[m]] = lists[macros[m]]  BY <1>7, <1>9
<1>11. MacrosStay  BY <1>10 DEF MacrosStay, Ide!MacroOf
<1>12. MacroState'  BY <1>1, <1>2, <1>8 DEF MacroState
<1> QED  BY <1>11, <1>12

LEMMA CommandKeeps ==
    ASSUME EditorInv, Ide!Command
    PROVE  EditorInv' /\ MacrosStay
<1> USE DEF EditorInv
<1>1. /\ UNCHANGED <<buffer, filepath, x, y, clipboard, session, disk>>
      /\ UNCHANGED <<recorded, recording, macros>> /\ phase' = "draw"
  BY DEF Ide!Command, Ide!bufferVars, Ide!cursor
<1>2. CASE UNCHANGED <<lists, frames>>
  <2>1. buffer \in Docs /\ x \in Nat /\ y \in Nat /\ clipboard \in Lines \cup {None}
    BY DEF EditorState
  <2> QED  BY <1>1, <1>2, <2>1, LoopStep
<1>3. CASE \E c \in Ide!CommandSet :
             /\ IF recording = None \/ c.op = "macro_end" THEN UNCHANGED lists
                ELSE lists' = [lists EXCEPT ![recorded] = Append(@, c)]
             /\ frames' = <<Ide!MacroFrame(<<c>>)>>
  <2>1. PICK c : /\ c \in Ide!CommandSet
                 /\ IF recording = None \/ c.op = "macro_end" THEN UNCHANGED lists
                    ELSE lists' = [lists EXCEPT ![recorded] = Append(@, c)]
                 /\ frames' = <<Ide!MacroFrame(<<c>>)>>
    BY <1>3
  <2>2. MacroState' /\ MacrosStay
    <3>1. CASE UNCHANGED lists  BY <1>1, <3>1, SameMacrosStay
    <3>2. CASE recording # None /\ lists' = [lists EXCEPT ![recorded] = Append(lists[recorded], c)]
      BY <1>1, <2>1, <3>2, RecordedApart
    <3> QED  BY <2>1, <3>1, <3>2
  <2>3. PICK fs : fs = <<Ide!MacroFrame(<<c>>)>>  OBVIOUS
  <2>4. fs \in Seq(GoodFrames)
    <3>1. PICK C : C = Ide!CommandSet  OBVIOUS
    <3>2. <<c>> \in Seq(C)  BY <2>1, <3>1
    <3>3. PICK cs : cs = <<c>>  OBVIOUS
    <3>4. PICK f : f = Ide!MacroFrame(cs)  OBVIOUS
    <3>5. f \in [kind : {"macro"}, rest : Seq(C)]  BY <3>2, <3>3, <3>4 DEF Ide!MacroFrame
    <3>6. f \in GoodFrames  BY <3>1, <3>5 DEF GoodFrames, MacroFrames
    <3>7. PICK S : S = GoodFrames  OBVIOUS
    <3>8. <<f>> \in Seq(S)  BY <3>6, <3>7
    <3> QED  BY <2>3, <3>3, <3>4, <3>7, <3>8
  <2>5. EditorState'  BY <1>1 DEF EditorState, Named, Sessions, Docs, Lines
  <2>6. CursorState'  BY <1>1 DEF CursorState
  <2>7. FrameState'  BY <1>1, <2>1, <2>3, <2>4, FramesWiden
  <2> QED  BY <2>2, <2>5, <2>6, <2>7
<1> QED  BY <1>2, <1>3 DEF Ide!Command

-----------------------------------------------------------------------------
(* The steps of a running macro. *)
LEMMA MacroStep ==
    ASSUME EditorInv, frames # <<>>, TextKept, MacroState', MacrosStay,
           UNCHANGED <<clipboard, session>>, phase' \in {phase, "quit"},
           NEW fs \in Seq(GoodFrames), frames' = fs
    PROVE  EditorInv' /\ MacrosStay
<1> USE DEF EditorInv
<1>1. EditorState'  BY DEF EditorState, TextKept, Named, Sessions, Docs, Lines
<1>2. CursorState'  BY DEF CursorState
<1>3. FrameState'  BY FramesWiden DEF TextKept
<1> QED  BY <1>1, <1>2, <1>3

(* One that runs no command of its own. *)
LEMMA QuietStep ==
    ASSUME EditorInv, frames # <<>>, UNCHANGED <<x, y, disk, clipboard, session, phase>>,
           UNCHANGED <<lists, recorded, recording, macros>>,
           buffer' \in Docs, filepath' \in Named,
           NEW fs \in Seq(GoodFrames), frames' = fs
    PROVE  EditorInv' /\ MacrosStay
<1>1. MacroState' /\ MacrosStay  BY SameMacrosStay DEF EditorInv
<1>2. TextKept  BY DEF TextKept, EditorInv, EditorState
<1> QED  BY <1>1, <1>2, MacroStep

LEMMA RunCommandKeeps ==
    ASSUME EditorInv, Ide!RunCommand
    PROVE  EditorInv' /\ MacrosStay
<1> USE DEF EditorInv
<1>1. /\ Ide!Running("macro") /\ Ide!Top.rest # <<>> /\ Ide!Execute(Ide!NextCommand)
      /\ Ide!NextCommand.op \notin {"macro_run", "bulkmacro"} /\ frames' = Ide!Popped
      /\ phase' \in {phase, "quit"} /\ UNCHANGED <<clipboard, session>>
  BY DEF Ide!RunCommand
<1>2. frames # <<>> /\ Ide!NextCommand \in Ide!CommandSet  BY <1>1, MacroTop
<1>3. PICK c : c = Ide!NextCommand  OBVIOUS
<1>4. TextKept /\ MacrosKept
  <2>1. c \in Ide!CommandSet /\ c.op \notin {"macro_run", "bulkmacro"} /\ Ide!Execute(c)
    BY <1>1, <1>2, <1>3, Zenon
  <2> QED  BY <2>1, ExecuteKeeps
<1>5. MacroState' /\ MacrosStay  BY <1>4 DEF MacrosKept, MacrosStay
<1>6. Ide!Popped \in Seq(GoodFrames)
  <2>1. Ide!Top.kind = "macro"  BY <1>1 DEF Ide!Running
  <2>2. Ide!Top \notin BulkFrames  BY <2>1 DEF BulkFrames
  <2> QED  BY <1>1, <1>2, <2>2, PoppedIsGood
<1> QED  BY <1>1, <1>2, <1>4, <1>5, <1>6, MacroStep

LEMMA RunMacroKeeps ==
    ASSUME EditorInv, Ide!RunMacro
    PROVE  EditorInv' /\ MacrosStay
<1> USE DEF EditorInv
<1>1. /\ Ide!Running("macro") /\ Ide!Top.rest # <<>> /\ Ide!NextCommand.op = "macro_run"
      /\ UNCHANGED <<buffer, filepath, x, y, disk, clipboard, session, phase>>
      /\ UNCHANGED <<lists, recorded, recording, macros>>
  BY DEF Ide!RunMacro, Ide!bufferVars, Ide!cursor, Ide!macroVars, Ide!uiVars
<1>2. PICK m : /\ m = Ide!NextCommand.arg
               /\ frames' = IF Ide!CanRun(m)
                            THEN Append(Ide!Popped, Ide!MacroFrame(Ide!MacroNamed(m)))
                            ELSE Ide!Popped
  BY DEF Ide!RunMacro
<1>3. frames # <<>> /\ Ide!NextCommand \in Ide!CommandSet  BY <1>1, MacroTop
<1>4. m \in Macros  BY <1>1, <1>2, <1>3 DEF Ide!CommandSet, Ide!NoArg
<1>5. Ide!Popped \in Seq(GoodFrames)
  <2>1. Ide!Top.kind = "macro"  BY <1>1 DEF Ide!Running
  <2>2. Ide!Top \notin BulkFrames  BY <2>1 DEF BulkFrames
  <2> QED  BY <1>1, <1>3, <2>2, PoppedIsGood
<1>6. PICK fs \in Seq(GoodFrames) : frames' = fs
  <2>1. CASE Ide!CanRun(m)
    <3>1. PICK f : f = Ide!MacroFrame(Ide!MacroNamed(m))  OBVIOUS
    <3>2. f \in GoodFrames  BY <1>4, <2>1, <3>1, MacroFrameIsGood
    <3>3. Append(Ide!Popped, f) \in Seq(GoodFrames)  BY <1>5, <3>2, FrameAdded
    <3> QED  BY <1>2, <2>1, <3>1, <3>3
  <2>2. CASE ~Ide!CanRun(m)  BY <1>2, <1>5, <2>2
  <2> QED  BY <2>1, <2>2
<1>7. buffer' \in Docs /\ filepath' \in Named  BY <1>1 DEF EditorState
<1> QED  BY <1>1, <1>3, <1>6, <1>7, QuietStep

(* The files a macro goes through are listed without an end. *)
LEMMA FilesListed ==
    ASSUME NEW T, T \subseteq EditedFiles, NEW fs \in Ide!SetToSeqs(T)
    PROVE  fs \in Seq(EditedFiles) /\ \A k \in DOMAIN fs : fs[k] \in T
<1>1. IsFiniteSet(T)  BY EditorAssumption, FS_Subset
<1>2. PICK n \in Nat : n = Cardinality(T)  BY <1>1, FS_CardinalityType
<1>3. Ide!Cardinality(T) = n  BY <1>2 DEF Ide!Cardinality, Cardinality
<1>4. fs \in [1..n -> T]  BY <1>3 DEF Ide!SetToSeqs
<1>5. fs \in [1..n -> EditedFiles] /\ \A k \in DOMAIN fs : fs[k] \in T  BY <1>4
<1> QED  BY <1>5

LEMMA RunBulkMacroKeeps ==
    ASSUME EditorInv, Ide!RunBulkMacro
    PROVE  EditorInv' /\ MacrosStay
<1> USE DEF EditorInv
<1>1. /\ Ide!Running("macro") /\ Ide!Top.rest # <<>> /\ Ide!NextCommand.op = "bulkmacro"
      /\ UNCHANGED <<buffer, filepath, x, y, disk, clipboard, session, phase>>
      /\ UNCHANGED <<lists, recorded, recording, macros>>
  BY DEF Ide!RunBulkMacro, Ide!bufferVars, Ide!cursor, Ide!macroVars, Ide!uiVars
<1> DEFINE Bulk(m, fs) == [kind |-> "bulk", macro |-> m, rest |-> fs, saving |-> FALSE,
                           buffer |-> buffer, filepath |-> filepath]
           Present == {f \in EditedFiles : disk[f] # None}
<1>2. PICK m, fs : /\ m = Ide!NextCommand.arg /\ fs \in Ide!SetToSeqs(Present)
                   /\ frames' = IF Ide!CanRun(m) THEN Append(Ide!Popped, Bulk(m, fs))
                                ELSE Ide!Popped
  BY DEF Ide!RunBulkMacro
<1>3. frames # <<>> /\ Ide!NextCommand \in Ide!CommandSet  BY <1>1, MacroTop
<1>4. m \in Macros  BY <1>1, <1>2, <1>3 DEF Ide!CommandSet, Ide!NoArg
<1>5. Ide!Popped \in Seq(GoodFrames)
  <2>1. Ide!Top.kind = "macro"  BY <1>1 DEF Ide!Running
  <2>2. Ide!Top \notin BulkFrames  BY <2>1 DEF BulkFrames
  <2> QED  BY <1>1, <1>3, <2>2, PoppedIsGood
<1>6. PICK f : f = Bulk(m, fs)  OBVIOUS
<1>7. f \in GoodFrames
  <2>1. fs \in Seq(EditedFiles) /\ \A k \in DOMAIN fs : fs[k] \in Present
    <3>1. PICK T : T = Present  OBVIOUS
    <3>2. T \subseteq EditedFiles /\ fs \in Ide!SetToSeqs(T)  BY <1>2, <3>1
    <3>3. fs \in Seq(EditedFiles) /\ \A k \in DOMAIN fs : fs[k] \in T  BY <3>2, FilesListed
    <3> QED  BY <3>1, <3>3
  <2>2. f \in BulkFrames  BY <1>4, <1>6, <2>1 DEF BulkFrames, EditorState
  <2>3. ~f.saving /\ f.rest = fs  BY <1>6
  <2>4. \A k \in DOMAIN f.rest : disk[f.rest[k]] # None  BY <2>1, <2>3
  <2> QED  BY <2>2, <2>3, <2>4 DEF GoodFrames
<1>8. PICK gs \in Seq(GoodFrames) : frames' = gs
  <2>1. Append(Ide!Popped, f) \in Seq(GoodFrames)  BY <1>5, <1>7, FrameAdded
  <2> QED  BY <1>2, <1>5, <1>6, <2>1
<1>9. buffer' \in Docs /\ filepath' \in Named  BY <1>1 DEF EditorState
<1> QED  BY <1>1, <1>3, <1>8, <1>9, QuietStep

LEMMA MacroReturnsKeeps ==
    ASSUME EditorInv, Ide!MacroReturns
    PROVE  EditorInv' /\ MacrosStay
<1>1. /\ frames # <<>> /\ frames' = Ide!Front(frames)
      /\ UNCHANGED <<buffer, filepath, x, y, disk, clipboard, session, phase>>
      /\ UNCHANGED <<lists, recorded, recording, macros>>
  BY DEF Ide!MacroReturns, Ide!Running, Ide!bufferVars, Ide!cursor, Ide!macroVars, Ide!uiVars
<1>2. Ide!Front(frames) \in Seq(GoodFrames)  BY <1>1, FrameRemoved DEF EditorInv
<1>3. buffer' \in Docs /\ filepath' \in Named  BY <1>1 DEF EditorInv, EditorState
<1> QED  BY <1>1, <1>2, <1>3, QuietStep

LEMMA BulkEndKeeps ==
    ASSUME EditorInv, Ide!BulkEnd
    PROVE  EditorInv' /\ MacrosStay
<1>1. /\ Ide!Running("bulk") /\ frames' = Ide!Front(frames)
      /\ buffer' = Ide!Top.buffer /\ filepath' = Ide!Top.filepath
      /\ UNCHANGED <<x, y, disk, clipboard, session, phase>>
      /\ UNCHANGED <<lists, recorded, recording, macros>>
  BY DEF Ide!BulkEnd, Ide!cursor, Ide!macroVars, Ide!uiVars
<1>2. frames # <<>> /\ Ide!Top \in BulkFrames  BY <1>1, BulkTop DEF EditorInv
<1>3. Ide!Front(frames) \in Seq(GoodFrames)  BY <1>2, FrameRemoved DEF EditorInv
<1>4. buffer' \in Docs /\ filepath' \in Named  BY <1>1, <1>2 DEF BulkFrames
<1> QED  BY <1>1, <1>2, <1>3, <1>4, QuietStep

(* The files go on: the frame on top, saving or not. *)
LEMMA MarkedIsGood ==
    ASSUME NEW f \in BulkFrames, f.rest # <<>>, NEW s \in BOOLEAN,
           \A k \in DOMAIN f.rest : disk[f.rest[k]] # None
    PROVE  [f EXCEPT !.saving = s] \in GoodFrames
<1>1. PICK g : g = [f EXCEPT !.saving = s]  OBVIOUS
<1>2. g \in BulkFrames /\ g.rest = f.rest  BY <1>1 DEF BulkFrames
<1> QED  BY <1>1, <1>2 DEF GoodFrames

LEMMA TopReplaced ==
    ASSUME FrameState, frames # <<>>, NEW g \in GoodFrames
    PROVE  [frames EXCEPT ![Len(frames)] = g] \in Seq(GoodFrames)
<1>1. PICK S : S = GoodFrames  OBVIOUS
<1>2. PICK r : r = [frames EXCEPT ![Len(frames)] = g]  OBVIOUS
<1>3. frames \in Seq(S) /\ g \in S  BY <1>1 DEF FrameState
<1>4. r \in Seq(S)  BY <1>2, <1>3, LastChanged
<1> QED  BY <1>1, <1>2, <1>4

LEMMA BulkNextKeeps ==
    ASSUME EditorInv, Ide!BulkNext
    PROVE  EditorInv' /\ MacrosStay
<1> USE DEF EditorInv
<1>1. /\ Ide!Running("bulk") /\ Ide!Top.rest # <<>> /\ x' = 0 /\ y' = 0
      /\ buffer' = disk[Head(Ide!Top.rest)] /\ filepath' = Head(Ide!Top.rest)
      /\ UNCHANGED <<disk, clipboard, session, phase>>
      /\ UNCHANGED <<lists, recorded, recording, macros>>
  BY DEF Ide!BulkNext, Ide!macroVars
<1>2. PICK marked : /\ marked = [frames EXCEPT ![Len(frames)].saving = TRUE]
                    /\ frames' = IF Ide!CanRun(Ide!Top.macro)
                                 THEN Append(marked, Ide!MacroFrame(Ide!MacroNamed(Ide!Top.macro)))
                                 ELSE marked
  BY DEF Ide!BulkNext
<1>3. PICK f : f = Ide!Top  OBVIOUS
<1>4. /\ frames # <<>> /\ f \in BulkFrames /\ f.rest # <<>>
      /\ \A k \in DOMAIN f.rest : disk[f.rest[k]] # None /\ f = frames[Len(frames)]
  BY <1>1, <1>3, BulkTop, TopIsGood
<1>5. f = frames[Len(frames)]  BY <1>3, <1>4, TopIsGood
<1>6. marked \in Seq(GoodFrames)
  <2>1. PICK g : g = [f EXCEPT !.saving = TRUE]  OBVIOUS
  <2>2. g \in GoodFrames  BY <1>4, <2>1, MarkedIsGood
  <2>3. marked = [frames EXCEPT ![Len(frames)] = g]  BY <1>2, <1>5, <2>1
  <2> QED  BY <1>4, <2>2, <2>3, TopReplaced
<1>7. PICK fs \in Seq(GoodFrames) : frames' = fs
  <2>1. CASE Ide!CanRun(f.macro)
    <3>1. PICK m \in Macros : m = f.macro  BY <1>4 DEF BulkFrames
    <3>2. PICK e : e = Ide!MacroFrame(Ide!MacroNamed(m))  OBVIOUS
    <3>3. e \in GoodFrames  BY <2>1, <3>1, <3>2, MacroFrameIsGood
    <3>4. Append(marked, e) \in Seq(GoodFrames)  BY <1>6, <3>3, FrameAdded
    <3> QED  BY <1>2, <1>3, <2>1, <3>1, <3>2, <3>4
  <2>2. CASE ~Ide!CanRun(f.macro)  BY <1>2, <1>3, <1>6, <2>2
  <2> QED  BY <2>1, <2>2
<1>8. PICK first \in EditedFiles : first = Head(f.rest) /\ disk[first] # None
  <2>1. f.rest \in Seq(EditedFiles)  BY <1>4 DEF BulkFrames
  <2>2. 1 \in DOMAIN f.rest /\ Head(f.rest) = f.rest[1] /\ f.rest[1] \in EditedFiles
    BY <1>4, <2>1
  <2> QED  BY <1>4, <2>2
<1>9. buffer' \in Docs /\ filepath' \in Named  BY <1>1, <1>3, <1>8 DEF EditorState, Named
<1>10. MacroState' /\ MacrosStay  BY <1>1, SameMacrosStay
<1>11. TextKept  BY <1>1, <1>9 DEF TextKept, EditorState
<1> QED  BY <1>1, <1>4, <1>7, <1>10, <1>11, MacroStep

LEMMA BulkSaveKeeps ==
    ASSUME EditorInv, Ide!BulkSave
    PROVE  EditorInv' /\ MacrosStay
<1> USE DEF EditorInv
<1>1. /\ Ide!Running("bulk") /\ Ide!Top.saving /\ Ide!SaveFile(filepath)
      /\ frames' = [Ide!Popped EXCEPT ![Len(frames)].saving = FALSE]
      /\ UNCHANGED <<clipboard, session, phase>>
  BY DEF Ide!BulkSave, Ide!uiVars
<1>2. PICK f : f = Ide!Top  OBVIOUS
<1>3. /\ frames # <<>> /\ f \in BulkFrames /\ f.rest # <<>>
      /\ \A k \in DOMAIN f.rest : disk[f.rest[k]] # None
  BY <1>1, <1>2, BulkTop
<1>4. f = frames[Len(frames)]  BY <1>2, <1>3, TopIsGood
<1>5. PICK n \in Nat \ {0} : n = Len(frames) /\ DOMAIN frames = 1..n
  <2>1. PICK S : S = GoodFrames  OBVIOUS
  <2>2. frames \in Seq(S)  BY <2>1 DEF FrameState
  <2> QED  BY <1>3, <2>2, LenProperties
<1>6. PICK e : e = [f EXCEPT !.saving = FALSE]  OBVIOUS
<1>7. e \in GoodFrames /\ e.rest = f.rest /\ ~e.saving
  BY <1>3, <1>6, MarkedIsGood DEF BulkFrames
<1>8. PICK g : g = [e EXCEPT !.rest = Tail(e.rest)]  OBVIOUS
<1>9. g \in GoodFrames  BY <1>3, <1>7, <1>8, TailIsGood
<1>10. frames' = [frames EXCEPT ![Len(frames)] = g]
  <2>1. PICK h : h = [f EXCEPT !.rest = Tail(f.rest)]  OBVIOUS
  <2>2. PICK p : p = Ide!Popped  OBVIOUS
  <2>3. p = [frames EXCEPT ![n] = h]  BY <1>4, <1>5, <2>1, <2>2 DEF Ide!Popped
  <2>4. [h EXCEPT !.saving = FALSE] = g  BY <1>3, <1>6, <1>7, <1>8, <2>1 DEF BulkFrames
  <2>5. DOMAIN p = DOMAIN frames /\ p[n] = h /\ \A k \in DOMAIN frames : k # n => p[k] = frames[k]
    BY <1>5, <2>3
  <2>6. frames' = [p EXCEPT ![n].saving = FALSE]  BY <1>1, <1>5, <2>2
  <2>7. frames' = [k \in DOMAIN frames |-> IF k = n THEN g ELSE frames[k]]
    BY <2>4, <2>5, <2>6
  <2> QED  BY <1>5, <2>7
<1>11. PICK fs \in Seq(GoodFrames) : frames' = fs  BY <1>3, <1>9, <1>10, TopReplaced
<1>12. /\ buffer' = buffer /\ x' = x /\ y' = y /\ filepath' \in Named
       /\ disk' \in [EditedFiles -> Docs \cup {None}]
       /\ \A k \in EditedFiles : disk[k] # None => disk'[k] # None
       /\ UNCHANGED <<lists, recorded, recording, macros>>
  <2>1. filepath \in Named  BY DEF EditorState
  <2> QED  BY <1>1, <2>1, FileSaved
<1>13. MacroState' /\ MacrosStay  BY <1>12, SameMacrosStay
<1>14. TextKept  BY <1>12 DEF TextKept, EditorState
<1> QED  BY <1>1, <1>3, <1>11, <1>13, <1>14, MacroStep

-----------------------------------------------------------------------------
LEMMA EditorInit == ASSUME Ide!Init PROVE EditorInv
<1>1. /\ buffer = <<(<<>>)>> /\ filepath = None /\ clipboard = None /\ x = 0 /\ y = 0
      /\ phase = "draw" /\ session = None /\ frames = <<>>
      /\ lists = <<(<<>>)>> /\ recorded = 1 /\ recording = None
      /\ macros = [m \in Macros |-> 0]
  BY DEF Ide!Init
<1>2. disk \in [EditedFiles -> Docs \cup {None}]
  <2>1. <<"a">> \in Lines /\ <<" ">> \in Lines  BY DEF Lines
  <2>2. PICK S : S = Lines /\ <<"a">> \in S /\ <<" ">> \in S  BY <2>1
  <2>3. PICK s \in S, t \in S : s = <<"a">> /\ t = <<" ">>  BY <2>2
  <2>4. <<s, t>> \in Seq(S)  OBVIOUS
  <2>5. <<(<<"a">>), (<<" ">>)>> \in Docs  BY <2>2, <2>3, <2>4 DEF Docs
  <2>6. disk \in [EditedFiles -> {None, <<>>, <<(<<"a">>), (<<" ">>)>>}]  BY DEF Ide!Init
  <2> QED  BY <2>5, <2>6, EmptyDoc
<1>3. EditorState  BY <1>1, <1>2, EmptyDoc DEF EditorState, Named
<1>4. MacroState
  <2>1. PICK S : S = Seq(Ide!CommandSet)  OBVIOUS
  <2>2. <<>> \in S  BY <2>1
  <2>3. lists \in Seq(S) /\ Len(lists) = 1 /\ lists # <<>>  BY <1>1, <2>2
  <2>4. macros \in [Macros -> 0..Len(lists)]  BY <1>1, <2>3
  <2> QED  BY <1>1, <2>1, <2>3, <2>4 DEF MacroState
<1>5. FrameState
  <2>1. PICK S : S = GoodFrames  OBVIOUS
  <2>2. frames \in Seq(S)  BY <1>1
  <2> QED  BY <2>1, <2>2 DEF FrameState
<1>6. CursorState  BY <1>1 DEF CursorState
<1> QED  BY <1>3, <1>4, <1>5, <1>6 DEF EditorInv

(* Only a key of the editor moves on from where one is awaited. *)
EditKeysKeep == (Ide!Key("edit") /\ mode' = "edit") => TextChange /\ CursorKept

LEMMA NoKeyAwaited ==
    ASSUME EditorInv, frames # <<>> \/ phase # "input" \/ mode # "edit"
    PROVE  EditKeysKeep
BY DEF EditKeysKeep, EditorInv, CursorState, Ide!Key

LEMMA EditorStep ==
    ASSUME EditorInv, Ide!Next
    PROVE  EditorInv' /\ MacrosStay /\ EditKeysKeep
<1>1. CASE Ide!EditKey
  <2>1. KeyKeeps
    BY <1>1, CutOrCopyKeeps, PasteKeeps, EnterKeeps, BackspaceKeeps, MoveKeeps, TypeKeeps,
       ChangeModeKeeps DEF Ide!EditKey
  <2> QED  BY <2>1 DEF KeyKeeps, EditKeysKeep
<1>2. CASE Ide!Draw \/ Ide!Quit \/ Ide!Restart
  <2>1. phase # "input"  BY <1>2 DEF Ide!Draw, Ide!Quit, Ide!Restart
  <2> QED  BY <1>2, <2>1, NoKeyAwaited, DrawKeeps, QuitKeeps, RestartKeeps
<1>3. CASE Ide!Prompt \/ Ide!Command
  <2>1. mode # "edit"  BY <1>3 DEF Ide!Prompt, Ide!Command, Ide!Key
  <2> QED  BY <1>3, <2>1, NoKeyAwaited, PromptKeeps, CommandKeeps
<1>4. CASE \/ Ide!RunCommand \/ Ide!RunMacro \/ Ide!RunBulkMacro \/ Ide!BulkNext
           \/ Ide!BulkSave \/ Ide!BulkEnd \/ Ide!MacroReturns
  <2>1. frames # <<>>
    BY <1>4 DEF Ide!RunCommand, Ide!RunMacro, Ide!RunBulkMacro, Ide!BulkNext, Ide!BulkSave,
                Ide!BulkEnd, Ide!MacroReturns, Ide!Running
  <2> QED
    BY <1>4, <2>1, NoKeyAwaited, RunCommandKeeps, RunMacroKeeps, RunBulkMacroKeeps,
       BulkNextKeeps, BulkSaveKeeps, BulkEndKeeps, MacroReturnsKeeps
<1> QED  BY <1>1, <1>2, <1>3, <1>4 DEF Ide!Next

LEMMA EditorStutters ==
    ASSUME EditorInv, UNCHANGED Ide!vars
    PROVE  EditorInv'
<1>1. /\ UNCHANGED <<buffer, filepath, clipboard, x, y, phase, disk, session, frames>>
      /\ UNCHANGED <<lists, recorded, recording, macros>>
  BY DEF Ide!vars, Ide!bufferVars, Ide!cursor, Ide!macroVars, Ide!uiVars
<1>2. EditorState'  BY <1>1 DEF EditorInv, EditorState, Named, Sessions, Docs, Lines
<1>3. MacroState'  BY <1>1, SameMacrosStay DEF EditorInv
<1>4. FrameState'  BY <1>1, FramesWiden DEF EditorInv, FrameState
<1>5. CursorState'  BY <1>1 DEF EditorInv, CursorState
<1> QED  BY <1>2, <1>3, <1>4, <1>5 DEF EditorInv

(* The property of the keys, with the steps that leave the editor as it is. *)
LEMMA EditorKeeps ==
    Ide!Init /\ [][Ide!Next]_(Ide!vars) => Ide!SavedMacrosStay /\ Ide!EditKeysKeepText
<1>1. EditorInv /\ [Ide!Next]_(Ide!vars) => EditorInv'  BY EditorStep, EditorStutters
<1>2. EditorInv /\ [Ide!Next]_(Ide!vars)
        => [\A m \in Macros : (macros[m] # 0 /\ Ide!MacroOf(m)' # Ide!MacroOf(m))
              => (recording = m /\ recording' = None) \/ phase \in {"crashed", "ended"}]_(Ide!vars)
  BY EditorStep DEF MacrosStay
<1>3. EditorInv /\ [Ide!Next]_(Ide!vars)
        => [(Ide!Key("edit") /\ mode' = "edit")
              => /\ \/ Ide!Text' = Ide!Text
                    \/ Ide!OneCharacter(Ide!Text, Ide!Text') \/ Ide!OneCharacter(Ide!Text', Ide!Text)
                    \/ /\ clipboard' # None
                       /\ Len(clipboard') \in {Len(Ide!Text') - Len(Ide!Text),
                                                Len(Ide!Text) - Len(Ide!Text')}
                 /\ \/ Ide!InBuffer'
                    \/ y = Len(buffer) - 1 /\ clipboard' = Ide!Line(y)]_(Ide!vars)
  BY EditorStep DEF EditKeysKeep, TextChange, CursorKept
<1> QED
  BY EditorInit, <1>1, <1>2, <1>3, PTL DEF Ide!SavedMacrosStay, Ide!EditKeysKeepText

-----------------------------------------------------------------------------
(* A run of MCTools is a run of each of the components. *)
LEMMA ToolsRunComponents ==
    Spec => /\ Format!Spec /\ Search!Spec
            /\ Engine!Init /\ [][Engine!Next]_(Engine!vars)
            /\ Ide!Init /\ [][Ide!Next]_(Ide!vars)
            /\ Trading!Init /\ [][Trading!Next]_(Trading!vars)
<1>1. Init => Format!Init /\ Search!Init /\ Engine!Init /\ Ide!Init /\ Trading!Init
  BY DEF Init
<1>2. [Next]_vars => [Format!Next]_(Format!vars)
  BY DEF Next, vars, formatVars, Format!vars
<1>3. [Next]_vars => [Search!Next]_(Search!vars)
  BY DEF Next, vars, searchVars, Search!vars
<1>4. [Next]_vars => [Engine!Next]_(Engine!vars)
  BY DEF Next, vars, engineVars, Engine!vars
<1>5. [Next]_vars => [Trading!Next]_(Trading!vars)
  BY DEF Next, vars, tradingVars, Trading!vars
<1>6. [Next]_vars => [Ide!Next]_(Ide!vars)
  BY DEF Next, vars, ideVars, Ide!vars, Ide!bufferVars, Ide!cursor, Ide!macroVars, Ide!uiVars
<1> QED  BY <1>1, <1>2, <1>3, <1>4, <1>5, <1>6, PTL DEF Spec, Format!Spec, Search!Spec

(* editor.py:34-80, linter.py:24-90: a script the formatter has indented, of   *)
(* any length, has no indentation error for the linter, unless it holds a line *)
(* the two count differently.                                                  *)
THEOREM FormattedScriptsAreClean == Spec => []FormattedLintsClean
<1>1. Format!FormattedLintsClean => FormattedLintsClean
  BY DEF FormattedLintsClean
<1> QED  BY ToolsRunComponents, FormatterAgreesWithLinter, <1>1, PTL

(* search_replace.py:60-215: after a case-sensitive replacement in place no    *)
(* searched file that can be read and written holds the pattern, whatever      *)
(* other files could not be read or written.                                   *)
THEOREM ReplacementIsComplete == Spec => []CaseSensitiveReplacesAll
<1>1. Search!CaseSensitiveReplacesAll => CaseSensitiveReplacesAll
  BY DEF CaseSensitiveReplacesAll
<1> QED  BY ToolsRunComponents, ReplacesAll, <1>1, PTL

(* search_replace.py:165-219: nothing but a run with --in-place and without    *)
(* --dry-run writes a file, and only one in which the pattern was found.       *)
THEOREM OnlyMatchingFilesChange == Spec => Search!OnlyMatchesChange
BY ToolsRunComponents, ChangesOnlyMatches, PTL

(* execution_engine.py:58-118: in the log of a script of any length a step is  *)
(* a success exactly when all its commands were run and succeeded, nothing is  *)
(* run after a failed command, a script that was not halted has run all its    *)
(* nodes, and every variable holds what a successful WRITE of the script       *)
(* wrote.                                                                      *)
THEOREM LogIsTrue == Spec => []LogTellsTruth
<1>1. /\ Engine!StepTellsTruth /\ Engine!FailureIsLast
      /\ Engine!CompleteOrHalted /\ Engine!VariablesComeFromWrites
      => LogTellsTruth
  BY DEF LogTellsTruth
<1> QED  BY ToolsRunComponents, EngineLog, <1>1, PTL

(* gui.py:144-232, menu.py:22-159: a saved macro is not changed by what is     *)
(* recorded, typed or run after it, and a key of the editor changes the text   *)
(* by one character or by the line it cut or pasted, whatever the files, the   *)
(* macros, the length of the text and the commands run before it.              *)
THEOREM EditorKeepsWork == Spec => MacrosAndTextStay
<1>1. Ide!SavedMacrosStay /\ Ide!EditKeysKeepText => MacrosAndTextStay
  BY DEF MacrosAndTextStay
<1> QED  BY ToolsRunComponents, EditorKeeps, <1>1, PTL

(* charting.py:71-149: in the chart of a history of any length every candle    *)
(* stands in the rows of its prices, a higher price is never drawn lower, the  *)
(* lowest price is in the bottom row and the highest in the top one, and the   *)
(* trend takes one row of a column at most.                                    *)
THEOREM ChartIsInOrder == Spec => []ChartKeepsOrder
<1>1. Trading!ChartKeepsOrder => ChartKeepsOrder
  BY DEF ChartKeepsOrder
<1> QED  BY ToolsRunComponents, ChartHolds, <1>1, PTL
================================================================================
