---------------------------- MODULE TissLangEngine ----------------------------
(* The execution of a parsed script (core/execution_engine.py) with the four   *)
(* tools the TissLang endpoint registers (core/tools/builtins.py).  The tree is *)
(* what the parser leaves: top-level nodes, STEP and SETUP with their commands. *)
(* A command is its type and the argument the tools tell apart.                *)
EXTENDS Naturals, Sequences, SequencesExt

CONSTANTS MaxNodes,     \* bound: top-level nodes of a script
          MaxCommands,  \* bound: commands of a step
          Paths,        \* paths inside the project that scripts name
          WrittenTexts  \* contents scripts write

VARIABLES tree,      \* the script's nodes
          position,  \* <<node, command>> to run next; command 0 before the node
          files,     \* the project directory: a content, or what stands there before
          lastRun,   \* state.last_run_result: an exit code, or "none"
          variables,     \* state.variables: the contents READ put there
          halted,    \* state.is_halted
          log,       \* state.execution_log, each entry with its command's position
          pc         \* "building", "running", "done", or "raised"

vars == <<tree, position, files, lastRun, variables, halted, log, pc>>

Registered == {"RUN", "WRITE", "READ", "ASSERT"}

\* An ASSERT compares the exit code with a number, or with a text that int()
\* refuses, or is no assertion at all.
Commands ==
  [type : {"RUN", "COMMENT"}, path : {"none"}, arg : {"none"}]
  \cup [type : {"WRITE"}, path : Paths \cup {"outside"}, arg : WrittenTexts]
  \cup [type : {"READ"}, path : Paths \cup {"outside"}, arg : {"none"}]
  \cup [type : {"ASSERT"}, path : {"none"}, arg : {"zero", "text", "garbled"}]

Init ==
  /\ tree = <<>> /\ position = <<1, 0>>
  /\ files \in [Paths -> {"missing", "unwritable", "binary"}]
  /\ lastRun = "none"
  /\ variables = [p \in Paths |-> "unset"]
  /\ halted = FALSE /\ log = <<>>
  /\ pc = "building"

\* The parser's tree, node by node.
AddNode ==
  /\ pc = "building" /\ Len(tree) < MaxNodes
  /\ tree' \in {Append(tree, [type |-> ty, commands |-> <<>>]) : ty \in {"TASK", "STEP", "COMMENT"}}
  /\ UNCHANGED <<position, files, lastRun, variables, halted, log, pc>>

AddCommand ==
  /\ pc = "building" /\ tree # <<>> /\ Last(tree).type = "STEP"
  /\ Len(Last(tree).commands) < MaxCommands
  /\ \E c \in Commands :
       tree' = [tree EXCEPT ![Len(tree)].commands = Append(@, c)]
  /\ UNCHANGED <<position, files, lastRun, variables, halted, log, pc>>

Execute ==
  /\ pc = "building" /\ pc' = "running"
  /\ UNCHANGED <<tree, position, files, lastRun, variables, halted, log>>

Node == tree[position[1]]
AtNode == pc = "running" /\ position[1] <= Len(tree)
Log(status) == log' = Append(log, [at |-> position, status |-> status])
NextNode == <<position[1] + 1, 0>>
NextCommand == <<position[1], position[2] + 1>>

\* The engine's own commands: a TASK succeeds, a STEP runs its commands.
ExecuteTask ==
  /\ AtNode /\ ~halted /\ Node.type = "TASK"
  /\ Log("SUCCESS") /\ position' = NextNode
  /\ UNCHANGED <<tree, files, lastRun, variables, halted, pc>>

EnterStep ==
  /\ AtNode /\ ~halted /\ Node.type = "STEP" /\ position[2] = 0
  /\ position' = NextCommand
  /\ UNCHANGED <<tree, files, lastRun, variables, halted, log, pc>>

\* After its commands, or when one of them halted: the entry of the step itself.
EndStep ==
  /\ AtNode /\ Node.type = "STEP" /\ position[2] > 0
  /\ halted \/ position[2] > Len(Node.commands)
  /\ log' = Append(log, [at |-> <<position[1], 0>>,
                         status |-> IF halted THEN "FAILURE" ELSE "SUCCESS"])
  /\ position' = NextNode
  /\ UNCHANGED <<tree, files, lastRun, variables, halted, pc>>

Finish ==
  /\ pc = "running" /\ position[2] = 0 /\ (halted \/ position[1] > Len(tree))
  /\ pc' = "done"
  /\ UNCHANGED <<tree, position, files, lastRun, variables, halted, log>>

(* the dispatch of a command to its tool ------------------------------------------*)

AtCommand(type) ==
  /\ AtNode /\ ~halted
  /\ \/ position[2] \in 1..Len(Node.commands) /\ Node.commands[position[2]].type = type
     \/ position[2] = 0 /\ Node.type = type
Command == Node.commands[position[2]]
Advance == position' = IF position[2] = 0 THEN NextNode ELSE NextCommand

\* The tool returned: the next command, with whatever the tool changed.
Succeed == Log("SUCCESS") /\ Advance /\ UNCHANGED <<tree, halted, pc>>

\* A plausible bug: the failure is logged but does not halt the script.
HaltNot ==
  /\ Log("FAILURE") /\ Advance
  /\ UNCHANGED <<tree, files, lastRun, variables, halted, pc>>

\* A TissLang error of the tool or the registry halts the script.
Halt ==
  /\ Log("FAILURE") /\ Advance /\ halted' = TRUE
  /\ UNCHANGED <<tree, files, lastRun, variables, pc>>

\* Any other exception leaves the engine; the entry is logged on the way out.
Escape ==
  /\ Log("SKIPPED") /\ pc' = "raised"
  /\ UNCHANGED <<tree, position, files, lastRun, variables, halted>>

\* No tool is registered for the type: comments halt the script as well.
Unregistered == AtCommand("COMMENT") /\ Halt

RunCommand ==
  /\ AtCommand("RUN")
  /\ \/ \E code \in {"zero", "nonzero"} :
          lastRun' = code /\ Succeed /\ UNCHANGED <<files, variables>>
     \/ Halt

\* _resolve_secure_path, then the file.
WriteFile ==
  /\ AtCommand("WRITE")
  /\ IF Command.path = "outside" \/ files[Command.path] = "unwritable"
     THEN Halt
     ELSE /\ files' = [files EXCEPT ![Command.path] = Command.arg]
          /\ Succeed /\ UNCHANGED <<lastRun, variables>>

\* A file that is not text raises a decoding error, a ValueError as well.
ReadFile ==
  /\ AtCommand("READ")
  /\ CASE Command.path = "outside" -> Halt
       [] Command.path \in Paths /\ files[Command.path] \in {"missing", "unwritable"} -> Halt
       [] Command.path \in Paths /\ files[Command.path] = "binary" -> Escape
       [] OTHER ->
          /\ variables' = [variables EXCEPT ![Command.path] = files[Command.path]]
          /\ Succeed /\ UNCHANGED <<files, lastRun>>

\* int() of a text that is no number is a ValueError, which no clause catches.
AssertCondition ==
  /\ AtCommand("ASSERT")
  /\ CASE lastRun = "none" \/ Command.arg = "garbled" -> Halt
       [] lastRun # "none" /\ Command.arg = "text" -> Escape
       [] OTHER -> IF lastRun = Command.arg
                   THEN Succeed /\ UNCHANGED <<files, lastRun, variables>>
                   ELSE Halt

Tool == Unregistered \/ RunCommand \/ WriteFile \/ ReadFile \/ AssertCondition

Next == AddNode \/ AddCommand \/ Execute \/ ExecuteTask \/ EnterStep \/ EndStep \/ Finish \/ Tool

Spec == Init /\ [][Next]_vars /\ WF_vars(ExecuteTask \/ EnterStep \/ EndStep \/ Finish \/ Tool)

\* Entries of a step's commands, and of the step.
EntriesOf(n) == {i \in 1..Len(log) : log[i].at[1] = n /\ log[i].at[2] > 0}
OwnEntries(n) == {i \in 1..Len(log) : log[i].at = <<n, 0>>}

\* A step is reported a success exactly when all its commands were run and all
\* succeeded, and its entry comes after theirs.
StepTellsTruth ==
  \A n \in 1..Len(tree) : tree[n].type = "STEP" =>
    \A i \in OwnEntries(n) :
      /\ \A j \in EntriesOf(n) : j < i
      /\ log[i].status = "SUCCESS"
           <=> {log[j].at[2] : j \in {k \in EntriesOf(n) : log[k].status = "SUCCESS"}}
                 = 1..Len(tree[n].commands)

\* Nothing is run after the first failure: it is the last command in the log.
FailureIsLast ==
  \A i \in 1..Len(log) :
    (log[i].status = "FAILURE" /\ log[i].at[2] > 0)
      => \A j \in (i + 1)..Len(log) : log[j].at = <<log[i].at[1], 0>>

\* Every script ends, and one that was not halted and did not raise has run all
\* of its nodes: none is skipped on the way.
CompleteOrHalted ==
  pc = "done" => halted \/ \A n \in 1..Len(tree) : OwnEntries(n) # {}

\* A variable holds what the project's file held when it was read: every value
\* was written by an earlier successful WRITE of the same script.
VariablesComeFromWrites ==
  \A p \in Paths : variables[p] # "unset" =>
    \E i \in 1..Len(log) :
      /\ log[i].status = "SUCCESS" /\ log[i].at[2] > 0
      /\ LET c == tree[log[i].at[1]].commands[log[i].at[2]] IN
         c.type = "WRITE" /\ c.path = p /\ c.arg = variables[p]
================================================================================
