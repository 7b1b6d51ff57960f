-------------------------------- MODULE MCTools --------------------------------
(* The TissLang tools, the editors and the trading platform for TLC.  They      *)
(* share no state, so each behaviour picks one of them at the start and only    *)
(* that one moves: the state spaces add up instead of multiplying.              *)
EXTENDS Integers, Sequences, FiniteSets

CONSTANTS ScriptLines, MaxLines, MaxNodes, MaxCommands, Paths, WrittenTexts,
          EditedFiles, Macros, MaxInputs,
          EditedTexts, MaxBuffer, MaxMacro, MaxRecordings, MaxFrames,        \* TissLangIde
          SearchedFiles, MaxIndent, MaxBars,
          ChartBars, MaxDays, Height, VolumeHeight,
          Largest,  \* the largest number, of those a price or a volume is written with
          None

VARIABLES part,
          state, stateStack, block, blockStack, nodes, heredoc, line, read, outcome,
          open, valid, special,
          tree, position, files, lastRun, variables, halted, log, pc,
          buffer, filepath, clipboard, x, y, phase, mode, callback, disk, session,
          lists, recorded, recording, macros, frames, inputs,
          formatted, linesRead, misread, errors, level, expected,
          args, searched, at, todo, matched, modified,
          data,
          history, step, connection, model, signal, trades

SomeTexts == {<<>>, <<"a">>, <<" ">>}
\* Bars of one day for the pattern recognisers and for the chart.
PatternBar(h, l, c, v) == [high |-> h, low |-> l, close |-> c, volume |-> v]
PatternBars == {PatternBar(2, 1, 1, 1), PatternBar(3, 2, 3, 1), PatternBar(3, 1, 2, 2),
                PatternBar(3, 1, 3, 1), PatternBar(3, 1, 1, 1)}
ChartBar(o, h, l, c, v) == [open |-> o, high |-> h, low |-> l, close |-> c, volume |-> v]
SomeChartBars == {ChartBar(1, 2, 1, 2, 1), ChartBar(3, 5, 2, 3, 0), ChartBar(5, 5, 1, 2, 3),
                  ChartBar(1, 1, 1, 1, 2)}

Parser == INSTANCE TissLangScripts WITH Lines <- ScriptLines
Engine == INSTANCE TissLangEngine
Ide == INSTANCE TissLangIde WITH Files <- EditedFiles, Texts <- EditedTexts, MaxLines <- MaxBuffer
\* Finitely many files are named, a line is a text, and None is neither a text nor a
\* list of texts.
ASSUME EditorAssumption ==
  /\ IsFiniteSet(EditedFiles) /\ EditedTexts \subseteq Seq({"a", " "})
  /\ None \notin Seq({"a", " "}) /\ None \notin Seq(Seq({"a", " "}))
Format == INSTANCE TissLangFormat WITH read <- linesRead
Search == INSTANCE SearchReplace WITH Files <- SearchedFiles, files <- searched, pc <- at
Patterns == INSTANCE TradingPatterns
  WITH Bars <- PatternBars, Short <- 1, Long <- 2, Period <- 2, Tenkan <- 1, Kijun <- 2,
       SpanB <- 3, Shift <- 2, Fast <- 1, Slow <- 2, Signal <- 2, Trend <- 3
Trading == INSTANCE TradingEngine WITH Bars <- ChartBars, MaxBars <- MaxDays

\* A chart has a row at least; a bar's high is not below its low.
ASSUME ChartAssumption ==
  /\ Height \in Nat \ {0} /\ VolumeHeight \in Nat /\ Largest \in Nat
  /\ \A bar \in ChartBars :
       /\ {bar.open, bar.high, bar.low, bar.close} \subseteq (-Largest)..Largest
       /\ bar.volume \in 0..Largest /\ bar.low <= bar.high

Parts == {"parser", "engine", "ide", "format", "search", "patterns", "trading"}

parserVars == <<state, stateStack, block, blockStack, nodes, heredoc, line, read, outcome,
                open, valid, special>>
engineVars == <<tree, position, files, lastRun, variables, halted, log, pc>>
ideVars == <<buffer, filepath, clipboard, x, y, phase, mode, callback, disk, session,
             lists, recorded, recording, macros, frames, inputs>>
formatVars == <<formatted, linesRead, misread, errors, level, expected>>
searchVars == <<args, searched, at, todo, matched, modified>>
tradingVars == <<history, step, connection, model, signal, trades>>
vars == <<part, parserVars, engineVars, ideVars, formatVars, searchVars, data, tradingVars>>

\* A part that does not move has one initial state.
Init ==
  /\ part \in Parts
  /\ Parser!InitScript /\ Search!Init /\ Patterns!Init /\ Trading!Init
  /\ Engine!Init /\ (part # "engine" => files = [p \in Paths |-> "missing"])
  /\ Ide!Init /\ (part # "ide" => disk = [f \in EditedFiles |-> None])
  /\ Format!Init /\ (part # "format" => formatted)

Next ==
  /\ UNCHANGED part
  /\ \/ /\ part = "parser" /\ Parser!NextScript
        /\ UNCHANGED <<engineVars, ideVars, formatVars, searchVars, data, tradingVars>>
     \/ /\ part = "engine" /\ Engine!Next
        /\ UNCHANGED <<parserVars, ideVars, formatVars, searchVars, data, tradingVars>>
     \/ /\ part = "ide" /\ Ide!Next
        /\ UNCHANGED <<parserVars, engineVars, formatVars, searchVars, data, tradingVars>>
     \/ /\ part = "format" /\ Format!Next
        /\ UNCHANGED <<parserVars, engineVars, ideVars, searchVars, data, tradingVars>>
     \/ /\ part = "search" /\ Search!Next
        /\ UNCHANGED <<parserVars, engineVars, ideVars, formatVars, data, tradingVars>>
     \/ /\ part = "patterns" /\ Patterns!Next
        /\ UNCHANGED <<parserVars, engineVars, ideVars, formatVars, searchVars, tradingVars>>
     \/ /\ part = "trading" /\ Trading!Next
        /\ UNCHANGED <<parserVars, engineVars, ideVars, formatVars, searchVars, data>>

Spec == Init /\ [][Next]_vars

\* TissLangParser: on a script without ELSE and CATCH the parser accepts exactly the
\* language, and its two stacks are as deep as the script is nested; an ELSE goes to
\* the IF whose block was closed just before it.
ParserFollowsLanguage ==
  /\ [](part = "parser" => Parser!AcceptsTheLanguage /\ Parser!StacksFollowScript)
  /\ Parser!ElseGoesToLastIf

\* TissLangEngine: the execution log tells the truth.  A step is a success exactly
\* when all its commands were run and succeeded, nothing is run after a failure, a
\* script that was not halted has run all its nodes, and a variable holds what a
\* successful WRITE put in the file.
LogTellsTruth ==
  part = "engine" => /\ Engine!StepTellsTruth /\ Engine!FailureIsLast
                     /\ Engine!CompleteOrHalted /\ Engine!VariablesComeFromWrites

\* TissLangIde: a saved macro is not changed by what is recorded, typed or run
\* after it, and a key of the editor changes one character or one cut or pasted
\* line of the text.
MacrosAndTextStay == Ide!SavedMacrosStay /\ Ide!EditKeysKeepText

\* TissLangFormat: a script the formatter has indented has no indentation error for
\* the linter, unless the two count one of its lines differently.
FormattedLintsClean == part = "format" => Format!FormattedLintsClean

\* SearchReplace: after a case-sensitive replacement in place no searched file that
\* can be read and written holds the pattern.
CaseSensitiveReplacesAll == part = "search" => Search!CaseSensitiveReplacesAll

\* TradingPatterns: on a history turned upside down every recogniser gives the
\* opposite signal: buying and selling are treated alike.
SignalsMirror == part = "patterns" => Patterns!SignalsMirror

\* TradingEngine: the chart keeps the order of prices, and draws a candle in the
\* rows of its own low and high only.
ChartKeepsOrder == part = "trading" => Trading!ChartKeepsOrder
================================================================================
