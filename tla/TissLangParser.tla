---------------------------- MODULE TissLangParser ----------------------------
(* The line-by-line parser of TissLang scripts (parser/tisslang_parser.py).  A *)
(* line is the command the patterns of matcher.py recognise in it, and "OTHER"  *)
(* when they recognise none: "} ELSE {" (END_ELSE) is such a line too.  The tree is the        *)
(* sequence of its nodes, each with the list that holds it.                     *)
EXTENDS Naturals, Sequences, SequencesExt

CONSTANTS Lines,     \* the kinds of lines the scripts are made of
          MaxLines   \* bound: lines of a script

VARIABLES state,       \* _state
          stateStack,  \* _state_stack
          block,       \* _current_block: a list of some node, or a node itself
          blockStack,  \* _block_stack
          nodes,       \* the tree
          heredoc,     \* _heredoc_content, its lines
          line,        \* the line being parsed, or "none"
          read,        \* lines read so far
          outcome      \* "parsing", the exception raised, or "parsed"

vars == <<state, stateStack, block, blockStack, nodes, heredoc, line, read, outcome>>
stacks == <<state, stateStack, block, blockStack>>

\* One-line commands that the parser appends to the block and forgets.
Commands == {"RUN", "LOG", "ASSERT", "READ", "PROMPT_AGENT", "VAR", "SET_BUDGET",
             "REQUEST_REVIEW", "PAUSE"}

List(n, slot) == [node |-> n, slot |-> slot]
Ast == List(0, "ast")

\* In AFTER_IF and AFTER_TRY the current block is the node, a dict.
IsDict(b) == b.slot = "node"

Init ==
  /\ state = "IDLE" /\ stateStack = <<>>
  /\ block = Ast /\ blockStack = <<>>
  /\ nodes = <<>> /\ heredoc = <<>>
  /\ line = "none" /\ read = 0 /\ outcome = "parsing"

ReadLine ==
  /\ outcome = "parsing" /\ line = "none" /\ read < MaxLines
  /\ line' \in Lines
  /\ read' = read + 1
  /\ UNCHANGED <<stacks, nodes, heredoc, outcome>>

\* parse() looks at the state stack only: what is not on it is not missed.
EndOfScript ==
  /\ outcome = "parsing" /\ line = "none"
  /\ outcome' = IF stateStack = <<>> THEN "parsed" ELSE "TissLangParserError"
  /\ UNCHANGED <<stacks, nodes, heredoc, line, read>>

Raise(error) ==
  /\ outcome' = error
  /\ line' = "none"
  /\ UNCHANGED <<stacks, nodes, heredoc, read>>

Consume == line' = "none" /\ UNCHANGED <<read, outcome>>

\* A node appended to list b; only lists can be appended to.
Add(type, b) == nodes' = Append(nodes, [type |-> type, block |-> b, content |-> <<>>])
NewNode == Len(nodes) + 1

\* Push state and block, and go on in a list of the new node.
Enter(newState, slot) ==
  /\ stateStack' = Append(stateStack, state)
  /\ blockStack' = Append(blockStack, block)
  /\ state' = newState
  /\ block' = List(NewNode, slot)

\* IF and TRY push twice: the state after their block, then the block.
EnterTwice(after, slot) ==
  /\ stateStack' = stateStack \o <<state, after>>
  /\ blockStack' = blockStack \o <<block, List(NewNode, "node")>>
  /\ state' = "IN_STEP"
  /\ block' = List(NewNode, slot)

Leave ==
  /\ state' = Last(stateStack) /\ stateStack' = Front(stateStack)
  /\ block' = Last(blockStack) /\ blockStack' = Front(blockStack)

Pending == outcome = "parsing" /\ line # "none"
At(s) == Pending /\ state = s

\* Blank lines are dropped before anything else, in a heredoc too.
Blank ==
  /\ Pending /\ line = "BLANK"
  /\ Consume /\ UNCHANGED <<stacks, nodes, heredoc>>

\* Comments and directives become nodes of the current block, whatever it is.
Annotation ==
  /\ Pending /\ state # "IN_WRITE" /\ line \in {"COMMENT", "DIRECTIVE"}
  /\ IF IsDict(block)
     THEN Raise("AttributeError")
     ELSE Add(line, block) /\ Consume /\ UNCHANGED <<stacks, heredoc>>

Plain == line \notin {"BLANK", "COMMENT", "DIRECTIVE"}

Idle ==
  /\ At("IDLE") /\ Plain
  /\ CASE line = "TASK" -> Add("TASK", Ast) /\ Consume /\ UNCHANGED <<stacks, heredoc>>
       [] line \in {"SETUP", "STEP"} ->
            Add(line, Ast) /\ Enter("IN_STEP", "commands") /\ Consume /\ UNCHANGED heredoc
       [] OTHER -> Raise("TissLangParserError")

Opens == {"PARALLEL", "CHOOSE", "ESTIMATE_COST"}

InStep ==
  /\ At("IN_STEP") /\ Plain
  /\ CASE line = "END" ->
            IF stateStack = <<>> \/ blockStack = <<>>
            THEN Raise("IndexError")
            ELSE Leave /\ Consume /\ UNCHANGED <<nodes, heredoc>>
       [] line \in Commands \cup {"IF", "TRY", "WRITE"} \cup Opens ->
            IF IsDict(block) THEN Raise("AttributeError")
            ELSE /\ Add(IF line = "TRY" THEN "TRY_CATCH" ELSE line, block)
                 /\ CASE line = "IF" -> EnterTwice("AFTER_IF", "then_block")
                      [] line = "TRY" -> EnterTwice("AFTER_TRY", "try_commands")
                      [] line = "WRITE" -> /\ stateStack' = Append(stateStack, state)
                                           /\ state' = "IN_WRITE"
                                           /\ UNCHANGED <<block, blockStack>>
                      [] line = "CHOOSE" -> Enter("IN_CHOOSE", "options")
                      [] line \in Opens \ {"CHOOSE"} -> Enter("IN_STEP", "commands")
                      [] OTHER -> UNCHANGED stacks
                 /\ Consume /\ UNCHANGED heredoc
       [] OTHER -> Raise("TissLangParserError")

InChoose ==
  /\ At("IN_CHOOSE") /\ Plain
  /\ CASE line = "END" -> Leave /\ Consume /\ UNCHANGED <<nodes, heredoc>>
       [] line \in {"OPTION", "STEP"} ->
            Add(line, block) /\ Enter("IN_STEP", "commands") /\ Consume /\ UNCHANGED heredoc
       [] OTHER -> Raise("TissLangParserError")

\* CATCH pops the state stack once more than it was pushed for the TRY.
AfterTry ==
  /\ At("AFTER_TRY") /\ Plain
  /\ IF line = "CATCH"
     THEN /\ state' = "IN_STEP"
          /\ block' = List(block.node, "catch_commands")
          /\ stateStack' = Front(stateStack)
          /\ Consume /\ UNCHANGED <<blockStack, nodes, heredoc>>
     ELSE Leave /\ UNCHANGED <<nodes, heredoc, line, read, outcome>>

\* The IF an ELSE belongs to: the last one of the parent block without an ELSE.
\* A node has its else_block once a line was parsed into it or it was made.
Ifs(b) == {n \in 1..Len(nodes) : nodes[n].type = "IF" /\ nodes[n].block = b}
ElseTaken(n) == nodes[n].content = <<"else">>

\* A plausible bug: the line that ends the IF is dropped instead of parsed again.
AfterIfSwallows ==
  /\ At("AFTER_IF") /\ Plain
  /\ IF line = "ELSE" THEN Raise("TissLangParserError")
     ELSE Leave /\ Consume /\ UNCHANGED <<nodes, heredoc>>

\* ELSE pops the state stack once more, too.  Any other line ends the IF and is
\* parsed again in the block around it.
AfterIf ==
  LET parent == IF blockStack = <<>> THEN Ast ELSE Last(blockStack)
      free == {n \in Ifs(parent) : ~ElseTaken(n)} IN
  /\ At("AFTER_IF") /\ Plain
  /\ CASE line # "ELSE" -> Leave /\ UNCHANGED <<nodes, heredoc, line, read, outcome>>
       [] line = "ELSE" /\ (free = {} \/ stateStack = <<>>) -> Raise("TissLangParserError")
       [] OTHER ->
            LET n == CHOOSE i \in free : \A j \in free : j <= i IN
            /\ nodes' = [nodes EXCEPT ![n].content = <<"else">>]
            /\ state' = "IN_STEP"
            /\ block' = List(n, "else_block")
            /\ stateStack' = Front(stateStack)
            /\ Consume /\ UNCHANGED <<blockStack, heredoc>>

\* The delimiter ends the heredoc; its content goes to the last node of the block.
InWrite ==
  /\ At("IN_WRITE") /\ line # "BLANK"
  /\ IF line = "DELIMITER"
     THEN /\ nodes' = [nodes EXCEPT ![Len(nodes)].content = heredoc]
          /\ heredoc' = <<>>
          /\ state' = Last(stateStack) /\ stateStack' = Front(stateStack)
          /\ UNCHANGED <<block, blockStack>>
     ELSE heredoc' = Append(heredoc, line) /\ UNCHANGED <<stacks, nodes>>
  /\ Consume

ParseLine == Blank \/ Annotation \/ Idle \/ InStep \/ InChoose \/ AfterTry \/ AfterIf \/ InWrite

Next == ReadLine \/ ParseLine \/ EndOfScript

Spec == Init /\ [][Next]_vars /\ WF_vars(ParseLine)
================================================================================
