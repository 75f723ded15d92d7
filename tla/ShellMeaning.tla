---------------------------- MODULE ShellMeaning ----------------------------
(***************************************************************************)
(* What lines mean, defined over their trees, and that module Shell, which *)
(* runs them call by call, runs them so.                                   *)
(***************************************************************************)
EXTENDS Shell

CONSTANT Scripts    \* the lines that RunsAsWritten is about, see Meaning
ASSUME ScriptsAssumption == Scripts \subseteq DOMAIN Tree

\* What a line means when nothing limits it: who runs which command, in order,
\* the status it ends with and where it leaves its shell.  Written over the
\* tree alone, for scripts of the commands below: a line run by sudo or by an
\* interpreter has effects and no status, a filter behind a pipe neither
\* status nor directory, and the words of a command run before it.
Status == [true |-> 0, echo |-> 0, export |-> 0, false |-> 1, nosuch |-> 127]

Meant(cmds, code, cwd) == [cmds |-> cmds, code |-> code, cwd |-> cwd]
Then(a, b) == Meant(a.cmds \o b.cmds, b.code, b.cwd)

RECURSIVE Meaning(_, _, _)
MeaningOf(line, cwd, user) ==
  FoldLeft(LAMBDA a, s : Then(a, Meaning(s, a.cwd, user)), Meant(<<>>, 0, cwd), line)

Inner(call, cwd, user) ==
  MeaningOf(FlattenSeq([i \in DOMAIN call.words |-> call.words[i].body]), cwd, user).cmds

CallMeaning(call, cwd, user) ==
  LET name == call.words[1].text
      self == << <<user, name>> >>
  IN  CASE name = "sudo" -> Meant(self \o Inner(call, cwd, "root"), 0, cwd)
        [] name = "bash" -> Meant(self \o Inner(call, cwd, user), 0, cwd)
        [] name = "cd" -> LET to == call.words[2].text
                          IN  IF to \in Dirs THEN Meant(self, 0, to) ELSE Meant(self, 1, cwd)
        [] name \in Filters -> Meant(Inner(call, cwd, user) \o self, 0, cwd)
        [] OTHER -> Meant(Inner(call, cwd, user) \o self, Status[name], cwd)

Meaning(s, cwd, user) ==
  LET x == Meaning(s.x, cwd, user)
      both == Then(x, Meaning(s.y, x.cwd, user))
      plain == CASE s.op = "call" -> CallMeaning(s, cwd, user)
                 [] s.op = "background" -> x
                 [] s.op = "subshell" -> MeaningOf(s.body, cwd, user)
                 [] s.op \in {"and", "or"} -> IF (x.code = 0) = (s.op = "and") THEN both ELSE x
                 [] s.op = "pipe" -> IF s.y.words[1].text \in Filters THEN [both EXCEPT !.code = x.code]
                                     ELSE both
                 [] OTHER -> Meant(<<>>, 0, cwd)
  IN  IF s.neg THEN [plain EXCEPT !.code = IF @ = 0 THEN 1 ELSE 0] ELSE plain

\* A line runs the commands it says, in its order and as the user it says, and
\* ends with its status and directory: no bookkeeping of depth, of the saved
\* directory or of the code by nested lines, substitutions and pipes disturbs
\* it.  The status is what $? shows to the next line.
RunsAsWritten ==
  done.line \in Scripts =>
    LET meant == MeaningOf(Tree[done.line], done.before, done.user) IN
    /\ [i \in DOMAIN done.steps |-> <<done.steps[i].user, done.steps[i].args[1].text>>] = meant.cmds
    /\ done.code = meant.code /\ done.last = meant.code /\ done.after = meant.cwd

\* Lines run as they were written, within the limit of their nesting, and as
\* another user only inside sudo.
LinesHold == RunsAsWritten /\ NestingBounded /\ SudoEnds

=============================================================================
