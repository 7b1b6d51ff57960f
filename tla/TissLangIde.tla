----------------------------- MODULE TissLangIde -----------------------------
(* The terminal editor (ide/p): the keys of gui.py, the buffer of buffer.py,   *)
(* and the commands and macros of menu.py.  One iteration of the main loop     *)
(* draws and handles a key; a typed line (a command, a prompt's answer) is one  *)
(* input.  A command that runs a macro pushes its commands on a stack of        *)
(* frames, and the loop goes on when the stack is empty.                        *)
EXTENDS Naturals, Sequences, SequencesExt

CONSTANTS Files,          \* paths the user names
          Macros,         \* macro names
          Texts,          \* bound: what a line may be typed or joined to
          MaxLines,       \* bound: lines of a buffer
          MaxMacro,       \* bound: commands recorded in a macro
          MaxRecordings,  \* bound: recordings begun
          MaxFrames,      \* the interpreter's recursion limit
          MaxInputs,      \* bound: editing keys, commands and restarts
          None

VARIABLES buffer, filepath, clipboard,   \* BufferManager and the clipboard
          x, y,                          \* the cursor
          phase,                         \* "draw", "input", or how the loop ended
          mode, callback,                \* the input mode and the prompt's callback
          disk,                          \* what each file holds, or None
          session,                       \* the session file, or None
          lists, recorded, recording,    \* the lists ever recorded, recorded_macro, and the name
          macros,                        \* the list each macro name is bound to, or 0
          frames,                        \* commands being run by a macro
          inputs                         \* editing keys, commands and restarts so far

bufferVars == <<buffer, filepath>>
cursor == <<x, y>>
macroVars == <<lists, recorded, recording, macros>>
uiVars == <<phase, mode, callback, clipboard, session>>
vars == <<bufferVars, cursor, macroVars, uiVars, disk, frames, inputs>>

Line(n) == buffer[n + 1]
InBuffer == y < Len(buffer)
Least(a, b) == IF a < b THEN a ELSE b

Init ==
  /\ buffer = <<(<<>>)>> /\ filepath = None /\ clipboard = None
  /\ x = 0 /\ y = 0
  /\ phase = "draw" /\ mode = "edit" /\ callback = "none"
  /\ disk \in [Files -> {None, <<>>, <<(<<"a">>), (<<" ">>)>>}]
  /\ session = None
  /\ lists = <<(<<>>)>> /\ recorded = 1 /\ recording = None
  /\ macros = [m \in Macros |-> 0]
  /\ frames = <<>> /\ inputs = 0

Press == inputs < MaxInputs /\ inputs' = inputs + 1

(* the main loop ------------------------------------------------------------------*)

Session == [filepath |-> filepath, x |-> x, y |-> y]

\* draw raises when the cursor's line is gone, or when curses refuses a write;
\* otherwise it pulls the cursor back to the end of its line.
Draw ==
  /\ phase = "draw" /\ frames = <<>>
  /\ \/ phase' = "crashed" /\ session' = Session /\ UNCHANGED x
     \/ /\ InBuffer
        /\ phase' = "input" /\ x' = Least(x, Len(Line(y))) /\ UNCHANGED session
  /\ UNCHANGED <<bufferVars, y, mode, callback, clipboard, macroVars, disk, frames, inputs>>

\* main_wrapper saves the session however the loop ended; the next start loads it.
Quit ==
  /\ phase = "quit" /\ frames = <<>>
  /\ phase' = "ended" /\ session' = Session
  /\ UNCHANGED <<bufferVars, cursor, mode, callback, clipboard, macroVars, disk, frames, inputs>>

Load(f) == IF f # None /\ disk[f] # None THEN disk[f] ELSE <<(<<>>)>>

Restart ==
  /\ phase \in {"crashed", "ended"} /\ Press
  /\ \E f \in Files \cup {None} :       \* the path on the command line, if any
       LET s == IF f = None /\ session # None THEN session
                ELSE [filepath |-> f, x |-> 0, y |-> 0] IN
       /\ filepath' = s.filepath /\ buffer' = Load(s.filepath)
       /\ x' = s.x /\ y' = s.y
  /\ phase' = "draw" /\ mode' = "edit" /\ callback' = "none" /\ clipboard' = None
  /\ lists' = <<(<<>>)>> /\ recorded' = 1 /\ recording' = None
  /\ macros' = [m \in Macros |-> 0]
  /\ UNCHANGED <<disk, session, frames>>

Key(m) == phase = "input" /\ mode = m
Redraw == phase' = "draw" /\ UNCHANGED <<callback, session, macroVars, disk, frames>>
Editing == Key("edit") /\ Press /\ Redraw /\ UNCHANGED <<filepath, mode>>

(* handle_edit_input ---------------------------------------------------------------*)

SetLine(b, n, text) == [b EXCEPT ![n + 1] = text]

CutOrCopy ==
  /\ Editing /\ UNCHANGED cursor
  /\ clipboard' = Line(y)
  /\ \/ UNCHANGED buffer                      \* Ctrl+C
     \/ buffer' = RemoveAt(buffer, y + 1)     \* Ctrl+X

Paste ==
  /\ Editing /\ clipboard # None /\ Len(buffer) < MaxLines
  /\ buffer' = InsertAt(buffer, y + 1, clipboard)
  /\ UNCHANGED <<cursor, clipboard>>

Enter ==
  /\ Editing /\ Len(buffer) < MaxLines
  /\ buffer' = InsertAt(SetLine(buffer, y, SubSeq(Line(y), 1, x)), y + 2,
                        SubSeq(Line(y), x + 1, Len(Line(y))))
  /\ y' = y + 1 /\ x' = 0
  /\ UNCHANGED clipboard

Backspace ==
  /\ Editing /\ UNCHANGED clipboard
  /\ \/ /\ x > 0
        /\ buffer' = SetLine(buffer, y, RemoveAt(Line(y), x))
        /\ x' = x - 1 /\ UNCHANGED y
     \/ /\ x = 0 /\ y > 0 /\ Line(y - 1) \o Line(y) \in Texts
        /\ buffer' = RemoveAt(SetLine(buffer, y - 1, Line(y - 1) \o Line(y)), y + 1)
        /\ x' = Len(Line(y - 1)) /\ y' = y - 1

Move ==
  /\ Editing /\ UNCHANGED <<buffer, clipboard>>
  /\ \/ y' = (IF y = 0 THEN 0 ELSE y - 1) /\ UNCHANGED x
     \/ y' = Least(Len(buffer) - 1, y + 1) /\ UNCHANGED x
     \/ x' = (IF x = 0 THEN 0 ELSE x - 1) /\ UNCHANGED y
     \/ x' = Least(Len(Line(y)), x + 1) /\ UNCHANGED y

Type ==
  /\ Editing /\ UNCHANGED <<y, clipboard>>
  /\ \E c \in {"a", " "} :
       /\ InsertAt(Line(y), x + 1, c) \in Texts
       /\ buffer' = SetLine(buffer, y, InsertAt(Line(y), x + 1, c))
  /\ x' = x + 1

\* Ctrl+Q, Ctrl+F and ":".
ChangeMode ==
  /\ Key("edit")
  /\ \/ phase' = "quit" /\ UNCHANGED <<mode, callback>>
     \/ phase' = "draw" /\ mode' = "prompt" /\ callback' = "search"
     \/ phase' = "draw" /\ mode' = "command" /\ UNCHANGED callback
  /\ UNCHANGED <<bufferVars, cursor, clipboard, session, macroVars, disk, frames, inputs>>

(* handle_prompt_input ---------------------------------------------------------------*)

\* re.subn of "a" by " ", in a text or in all of them.
Replaced(text) == [i \in DOMAIN text |-> IF text[i] = "a" THEN " " ELSE text[i]]
ReplacedAll(b) == [n \in DOMAIN b |-> Replaced(b[n])]

\* Whatever the callback set, the mode, the prompt and the callback are reset
\* after it: on_search_input's second prompt is gone before it is shown.
Prompt ==
  /\ Key("prompt")
  /\ \/ /\ buffer' = IF callback = "replace" THEN ReplacedAll(buffer) ELSE buffer
        /\ callback' = "none"             \* Enter
     \/ UNCHANGED <<buffer, callback>>    \* Escape keeps the callback
  /\ mode' = "edit" /\ phase' = "draw"
  /\ UNCHANGED <<filepath, cursor, clipboard, session, macroVars, disk, frames, inputs>>

(* the commands ----------------------------------------------------------------------*)

NoArg == {"save", "new", "format", "macro_end", "macro_end ", "s", "block_char", "block_newline",
          "bulksr", "q"}
CommandSet == [op : NoArg, arg : {None}]
              \cup [op : {"open", "saveas"}, arg : Files]
              \cup [op : {"macro_def", "macro_run", "bulkmacro"}, arg : Macros]

\* A command that leaves the cursor, the files and the macros alone.
OnlyBuffer == UNCHANGED <<cursor, disk, macroVars>>

\* open: a missing file leaves everything, a present one the cursor.
OpenFile(f) ==
  /\ IF disk[f] = None THEN UNCHANGED bufferVars ELSE buffer' = disk[f] /\ filepath' = f
  /\ OnlyBuffer

\* save_file: without a path, or where it cannot write, it changes nothing.
SaveFile(f) ==
  /\ \/ f # None /\ disk' = [disk EXCEPT ![f] = buffer] /\ filepath' = f
     \/ UNCHANGED <<disk, filepath>>
  /\ UNCHANGED <<buffer, cursor, macroVars>>

NewFile ==
  /\ buffer' = <<(<<>>)>> /\ filepath' = None /\ x' = 0 /\ y' = 0
  /\ UNCHANGED <<disk, macroVars>>

\* What format_buffer does to lines without keywords: it strips them.
Stripped(text) ==
  LET kept == {i \in DOMAIN text : text[i] # " "} IN
  IF kept = {} THEN <<>> ELSE SubSeq(text, Min(kept), Max(kept))
Format ==
  /\ buffer' = [n \in DOMAIN buffer |-> Stripped(buffer[n])]
  /\ UNCHANGED filepath /\ OnlyBuffer

\* The block's regexes may not be found; the search regex may match characters
\* or the newlines between lines.  A buffer without lines is split into an empty one.
BlockReplace(newline) ==
  /\ \/ UNCHANGED buffer
     \/ ~newline /\ buffer' = IF buffer = <<>> THEN <<(<<>>)>> ELSE ReplacedAll(buffer)
     \/ newline /\ FlattenSeq(buffer) \in Texts /\ buffer' = <<FlattenSeq(buffer)>>
  /\ UNCHANGED filepath /\ OnlyBuffer

\* On a line that is gone the IndexError becomes a status text.
Substitute ==
  /\ buffer' = IF InBuffer THEN SetLine(buffer, y, Replaced(Line(y))) ELSE buffer
  /\ UNCHANGED filepath /\ OnlyBuffer

\* The files that match, on disk only: the buffer does not follow.
BulkReplace ==
  /\ \E fs \in SUBSET {f \in Files : disk[f] # None} :
       disk' = [f \in Files |-> IF f \in fs THEN ReplacedAll(disk[f]) ELSE disk[f]]
  /\ UNCHANGED <<bufferVars, cursor, macroVars>>

\* A plausible bug: recorded_macro.clear() instead of a new list.
NewRecordingCleared ==
  lists' = [lists EXCEPT ![recorded] = <<>>] /\ UNCHANGED recorded

\* A new list for every recording: the one saved before is not touched again.
NewRecording == lists' = Append(lists, <<>>) /\ recorded' = Len(lists) + 1

MacroDef(m) ==
  /\ IF recording # None \/ Len(lists) > MaxRecordings THEN UNCHANGED macroVars
     ELSE recording' = m /\ NewRecording /\ UNCHANGED macros
  /\ UNCHANGED <<bufferVars, cursor, disk>>

MacroEnd ==
  /\ IF recording = None THEN UNCHANGED <<macros, recording>>
     ELSE macros' = [macros EXCEPT ![recording] = recorded] /\ recording' = None
  /\ UNCHANGED <<lists, recorded, bufferVars, cursor, disk>>

Execute(c) ==
  CASE c.op = "open" -> OpenFile(c.arg)
    [] c.op = "save" -> SaveFile(filepath)
    [] c.op = "saveas" -> SaveFile(c.arg)
    [] c.op = "new" -> NewFile
    [] c.op = "format" -> Format
    [] c.op \in {"block_char", "block_newline"} -> BlockReplace(c.op = "block_newline")
    [] c.op = "s" -> Substitute
    [] c.op = "bulksr" -> BulkReplace
    [] c.op = "macro_def" -> MacroDef(c.arg)
    [] c.op \in {"macro_end", "macro_end "} -> MacroEnd
    [] c.op = "q" -> UNCHANGED <<bufferVars, cursor, disk, macroVars>>

(* execute_command -------------------------------------------------------------------*)

MacroFrame(commands) == [kind |-> "macro", rest |-> commands]

\* A typed command becomes the only one of a frame.  While a macro is recorded
\* it is recorded too, unless it is "macro_end" to the letter.
Command ==
  /\ Key("command")
  /\ \/ \E c \in CommandSet :
          /\ IF recording = None \/ c.op = "macro_end" THEN UNCHANGED lists
             ELSE /\ Len(lists[recorded]) < MaxMacro
                  /\ lists' = [lists EXCEPT ![recorded] = Append(@, c)]
          /\ frames' = <<MacroFrame(<<c>>)>>
          /\ Press
     \/ UNCHANGED <<lists, frames, inputs>>       \* Escape
  /\ phase' = "draw" /\ mode' = "edit"
  /\ UNCHANGED <<bufferVars, cursor, callback, clipboard, session, recorded, recording, macros,
                 disk>>

Top == Last(frames)
Running(kind) == frames # <<>> /\ Top.kind = kind
NextCommand == Head(Top.rest)
Popped == [frames EXCEPT ![Len(frames)].rest = Tail(@)]

RunCommand ==
  /\ Running("macro") /\ Top.rest # <<>> /\ NextCommand.op \notin {"macro_run", "bulkmacro"}
  /\ Execute(NextCommand)
  /\ frames' = Popped
  /\ phase' = IF NextCommand.op = "q" THEN "quit" ELSE phase
  /\ UNCHANGED <<mode, callback, clipboard, session, inputs>>

\* _run_macro and bulkmacro refuse a name without a macro, and what is past the
\* recursion limit is caught and does nothing.
CanRun(m) == macros[m] # 0 /\ Len(frames) < MaxFrames
MacroNamed(m) == lists[macros[m]]

RunMacro ==
  /\ Running("macro") /\ Top.rest # <<>> /\ NextCommand.op = "macro_run"
  /\ LET m == NextCommand.arg IN
     frames' = IF CanRun(m) THEN Append(Popped, MacroFrame(MacroNamed(m))) ELSE Popped
  /\ UNCHANGED <<bufferVars, cursor, macroVars, uiVars, disk, inputs>>

\* bulkmacro keeps a copy of the buffer and its path while it goes through files.
RunBulkMacro ==
  /\ Running("macro") /\ Top.rest # <<>> /\ NextCommand.op = "bulkmacro"
  /\ LET m == NextCommand.arg IN
     \E fs \in SetToSeqs({f \in Files : disk[f] # None}) :
       frames' = IF CanRun(m)
                 THEN Append(Popped, [kind |-> "bulk", macro |-> m, rest |-> fs, saving |-> FALSE,
                                      buffer |-> buffer, filepath |-> filepath])
                 ELSE Popped
  /\ UNCHANGED <<bufferVars, cursor, macroVars, uiVars, disk, inputs>>

\* Load a file and run the macro on it...
BulkNext ==
  /\ Running("bulk") /\ ~Top.saving /\ Top.rest # <<>>
  /\ buffer' = disk[Head(Top.rest)] /\ filepath' = Head(Top.rest)
  /\ x' = 0 /\ y' = 0 /\ mode' = "edit"
  /\ frames' = LET marked == [frames EXCEPT ![Len(frames)].saving = TRUE] IN
               IF CanRun(Top.macro) THEN Append(marked, MacroFrame(MacroNamed(Top.macro)))
               ELSE marked
  /\ UNCHANGED <<phase, callback, clipboard, session, macroVars, disk, inputs>>

\* ...and save whatever file the macro left open.
BulkSave ==
  /\ Running("bulk") /\ Top.saving
  /\ SaveFile(filepath)
  /\ frames' = [Popped EXCEPT ![Len(frames)].saving = FALSE]
  /\ UNCHANGED <<uiVars, inputs>>

BulkEnd ==
  /\ Running("bulk") /\ ~Top.saving /\ Top.rest = <<>>
  /\ buffer' = Top.buffer /\ filepath' = Top.filepath
  /\ frames' = Front(frames)
  /\ UNCHANGED <<cursor, macroVars, uiVars, disk, inputs>>

MacroReturns ==
  /\ Running("macro") /\ Top.rest = <<>>
  /\ frames' = Front(frames)
  /\ UNCHANGED <<bufferVars, cursor, macroVars, uiVars, disk, inputs>>

EditKey == CutOrCopy \/ Paste \/ Enter \/ Backspace \/ Move \/ Type \/ ChangeMode

Next == \/ Draw \/ Quit \/ Restart \/ EditKey \/ Prompt \/ Command
        \/ RunCommand \/ RunMacro \/ RunBulkMacro \/ BulkNext \/ BulkSave \/ BulkEnd \/ MacroReturns

Spec == Init /\ [][Next]_vars

\* A saved macro is not changed by what is recorded, typed or run after it: its
\* commands change only when a recording under its name ends (or the editor does).
MacroOf(m) == IF macros[m] = 0 THEN <<>> ELSE lists[macros[m]]
SavedMacrosStay ==
  [][\A m \in Macros : (macros[m] # 0 /\ MacroOf(m)' # MacroOf(m))
        => (recording = m /\ recording' = None) \/ phase \in {"crashed", "ended"}]_vars

\* A key of the editor changes the text by one character, or by the line that it
\* cut or pasted, or not at all; and only cutting the last line takes the line
\* from under the cursor.
Text == FlattenSeq(buffer)
OneCharacter(short, long) == \E n \in DOMAIN long : short = RemoveAt(long, n)
EditKeysKeepText ==
  [][(Key("edit") /\ mode' = "edit")
       => /\ \/ Text' = Text \/ OneCharacter(Text, Text') \/ OneCharacter(Text', Text)
             \/ /\ clipboard' # None
                /\ Len(clipboard') \in {Len(Text') - Len(Text), Len(Text) - Len(Text')}
          /\ InBuffer' \/ (y = Len(buffer) - 1 /\ clipboard' = Line(y))]_vars

\* Ctrl+F asks for the text to search and then "Replace '...' with:": answering
\* the first prompt leads to the second (gui.py:241).
SearchAsksReplacement ==
  [][(Key("prompt") /\ callback = "search" /\ callback' # "search") => mode' = "prompt"]_vars
==============================================================================
