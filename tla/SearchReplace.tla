----------------------------- MODULE SearchReplace -----------------------------
(* The editor's command line search and replace (ide/p/cli/search_replace.py): *)
(* one run, from its arguments over the search of every file to the changes.   *)
(* A file is what the pattern and its variants match in it; the replacement    *)
(* does not hold the pattern itself.                                           *)
EXTENDS Naturals, FiniteSets, Sequences, SequencesExt

CONSTANTS Files  \* the files --files or the default pattern finds

VARIABLES args,      \* the parsed arguments
          files,     \* what each file holds
          pc,        \* "validate", "search", "apply", "exit 0" or "exit 1"
          todo,      \* files still to search, or to write
          matched,   \* all_results
          modified   \* files_to_modify: each file's new content

vars == <<args, files, pc, todo, matched, modified>>

\* The pattern as it was typed occurs in a file, or only with other case; for a
\* regex with an escape like \S, what its lower-case form \s matches occurs.
Contents == [exact : BOOLEAN, othercase : BOOLEAN, lowered : BOOLEAN,
             readable : BOOLEAN, writable : BOOLEAN]

Unreadable == [exact |-> FALSE, othercase |-> FALSE, lowered |-> FALSE,
               readable |-> FALSE, writable |-> TRUE]

\* An option given directly or by a file, both ways, by a file that cannot be
\* read, or not at all.
Given == {"none", "given", "both", "unreadable file"}

Arguments == [pattern : Given, replace : Given \cup {"empty"}, kind : {"literal", "regex", "escape"},
              case_sensitive : BOOLEAN, in_place : BOOLEAN, dry_run : BOOLEAN,
              exclude : SUBSET Files]

Init ==
  /\ args = [pattern |-> "none"]
  /\ files = [f \in Files |-> "unknown"]
  /\ pc = "start" /\ todo = {} /\ matched = {} /\ modified = <<>>

Start ==
  /\ pc = "start" /\ pc' = "validate"
  /\ args' \in Arguments
  /\ UNCHANGED <<files, todo, matched, modified>>

HasReplace == args.replace = "given"

\* An empty replacement counts as none where the modes are checked.
Refused ==
  \/ args.pattern \in {"none", "both", "unreadable file"}
  \/ args.replace \in {"both", "unreadable file"}
  \/ (args.in_place \/ args.dry_run) /\ ~HasReplace
  \/ args.in_place /\ args.dry_run

Validate ==
  /\ pc = "validate"
  /\ \/ Refused /\ pc' = "exit 1" /\ UNCHANGED <<files, todo>>
     \/ /\ ~Refused /\ pc' = "search" /\ todo' = Files \ args.exclude
        /\ files' \in [Files -> {c \in Contents : c.readable \/ c = Unreadable}]
  /\ UNCHANGED <<args, matched, modified>>

\* Without --case-sensitive the file and the pattern are lowered before the
\* search, the pattern of a regex with its escapes.
Found(c) ==
  IF args.case_sensitive THEN c.exact
  ELSE IF args.kind = "escape" THEN c.lowered ELSE c.exact \/ c.othercase

\* The replacement uses the text and the pattern as they are; only a regex
\* ignores case there.
Replaced(c) ==
  IF args.kind = "regex" /\ ~args.case_sensitive THEN [c EXCEPT !.exact = FALSE, !.othercase = FALSE]
  ELSE [c EXCEPT !.exact = FALSE]

\* A file that cannot be read counts as one without a match.
SearchFile(f) ==
  /\ pc = "search" /\ f \in todo
  /\ todo' = todo \ {f}
  /\ IF files[f].readable /\ Found(files[f])
     THEN /\ matched' = matched \cup {f}
          /\ modified' = IF args.replace # "none" /\ Replaced(files[f]) # files[f]
                         THEN [h \in DOMAIN modified \cup {f} |->
                                 IF h = f THEN Replaced(files[f]) ELSE modified[h]]
                         ELSE modified
     ELSE UNCHANGED <<matched, modified>>
  /\ UNCHANGED <<args, files, pc>>

EndSearch ==
  /\ pc = "search" /\ todo = {}
  /\ IF HasReplace /\ args.in_place
     THEN pc' = "apply" /\ todo' = DOMAIN modified
     ELSE /\ \/ pc' = "exit 0"                    \* a preview, or the list of matches
             \/ ~HasReplace /\ pc' = "exit 1"     \* which --output could not take
          /\ UNCHANGED todo
  /\ UNCHANGED <<args, files, matched, modified>>

\* A plausible bug: the first file that cannot be written ends the loop.
ApplyUntilError(f) ==
  /\ pc = "apply" /\ f \in todo
  /\ todo' = IF files[f].writable THEN todo \ {f} ELSE {}
  /\ files' = IF files[f].writable THEN [files EXCEPT ![f] = modified[f]] ELSE files
  /\ UNCHANGED <<args, pc, matched, modified>>

\* A file that cannot be written is reported and the others go on.
Apply(f) ==
  /\ pc = "apply" /\ f \in todo
  /\ todo' = todo \ {f}
  /\ files' = IF files[f].writable THEN [files EXCEPT ![f] = modified[f]] ELSE files
  /\ UNCHANGED <<args, pc, matched, modified>>

EndApply ==
  /\ pc = "apply" /\ todo = {}
  /\ pc' = "exit 0"
  /\ UNCHANGED <<args, files, todo, matched, modified>>

Next == Start \/ Validate \/ EndSearch \/ EndApply \/ \E f \in Files : SearchFile(f) \/ Apply(f)

Spec == Init /\ [][Next]_vars

\* What case-sensitive replacement in place promises: afterwards no file that was
\* searched and can be read and written holds the pattern.
CaseSensitiveReplacesAll ==
  (pc = "exit 0" /\ args.in_place /\ args.case_sensitive)
    => \A f \in Files \ args.exclude :
         files[f].readable /\ files[f].writable => ~files[f].exact

\* Files change only in a run that asked for it, and only files that matched.
OnlyMatchesChange ==
  [][pc # "validate" => \A f \in Files :
        files'[f] # files[f] => args.in_place /\ ~args.dry_run /\ f \in matched]_vars
================================================================================
