------------------------------- MODULE Shell --------------------------------
(***************************************************************************)
(* The command interpreter behind every shell and exec channel:            *)
(* internal/shell/parse.go and executor.go, the parts of vnet.go that      *)
(* leave something behind, and session.go's ExecuteLine.                   *)
(*                                                                         *)
(* A line is the parse tree mvdan.cc/sh builds of it (external), the text  *)
(* of a word a string, an output a sequence of lines and a line of output  *)
(* the sequence of its words.                                              *)
(*                                                                         *)
(* The methods of the interpreter call each other without end, so a        *)
(* session has a stack of the calls that have not returned: todo, whose    *)
(* frames say what to do next and with what.  There is one operator per    *)
(* method; it takes the machine m a session runs its line on and returns   *)
(* it changed, with the calls it makes pushed on the stack.  A step of a   *)
(* session runs the frame on top.                                          *)
(* Sessions take their steps in any order and meet in the file system,     *)
(* whose operations are atomic; what happens between the operations of one *)
(* command is the subject of module Accounts.                              *)
(***************************************************************************)
EXTENDS Naturals, SequencesExt

CONSTANTS
  Channels,    \* session ids, one for each channel
  Users,       \* the names to log in with; "root" is always known
  Home,        \* [Users \cup {"root"} -> directory]
  Dirs,        \* the directories there are
  Locked,      \* paths of files with chattr +i, there from the start
  Files0,      \* the files at the start: [<<directory, name>> -> lines]
  Tree,        \* the lines a client may send: their parse trees, by number
  Shorts,      \* lines that count once, see MaxLines
  Together,    \* bound of the model: lines that may run while another session runs one
  MaxLines,    \* bound of the model: lines run in all, those not of Shorts counted twice
  MaxDepth,    \* maxCmdSubstDepth
  MaxOutput,   \* maxOutputSize, in lines of output
  MaxHistory   \* maxSessionHistory

ASSUME ShellAssumption ==
  /\ MaxDepth \in Nat /\ MaxOutput \in Nat /\ MaxHistory \in Nat \ {0}
  /\ Locked \subseteq DOMAIN Files0
  /\ MaxLines \in Nat
  /\ Shorts \cup Together \subseteq DOMAIN Tree

VARIABLES
  file,     \* the virtual file system: [path -> lines], a path is <<directory, name>>
  state,    \* of the open sessions: their machines, see Machine
  ended,    \* sessions that are over
  done,     \* what the line that has just ended did: its trace, for the properties
  typed,    \* the lines a session has typed since a line of it cleared the history
  ran       \* lines run so far, counted like MaxLines

shellVars == <<file, state, ended, done, typed, ran>>

---------------------------------------------------------------------------
(* Lines as mvdan.cc/sh parses them: a line is a sequence of statements. *)

Word(text) == [kind |-> "lit", text |-> text, body |-> <<>>]
Quoted(line) == [kind |-> "lit", text |-> "a line", body |-> line]
Subst(line) == [kind |-> "subst", text |-> "", body |-> line]
Variable(name) == [kind |-> name, text |-> "", body |-> <<>>]

Call(words) == [op |-> "call", neg |-> FALSE, words |-> words, redirs |-> <<>>]
Redirected(call, append, word) ==
  [call EXCEPT !.redirs = Append(@, [append |-> append, word |-> word])]
Binary(op, x, y) == [op |-> op, neg |-> FALSE, x |-> x, y |-> y]
Subshell(line) == [op |-> "subshell", neg |-> FALSE, body |-> line]
Background(x) == [op |-> "background", neg |-> FALSE, x |-> x]
Other == [op |-> "other", neg |-> FALSE]
Negated(s) == [s EXCEPT !.neg = TRUE]

\* A line that does not parse is cut at ;, then at && and ||, then at |, into
\* words: segments are sequences of [op, cmds], op being what stands before.
Unparsed(segments) == << [op |-> "unparsed", neg |-> FALSE, segments |-> segments] >>
Parses(raw) == raw = <<>> \/ raw[1].op # "unparsed"

---------------------------------------------------------------------------
(* Machines: Executor.states and cwdMap with Session.cwd (cwd, last, snap and  *)
(* history), and the variables of the line that runs: its execCtx, the code    *)
(* and output so far, the words expanded last and whether that went well.      *)
(* file is the file system as long as a step takes, steps a trace.             *)

Frame(do, with) == [do |-> do, with |-> with]
Push(m, do, with) == [m EXCEPT !.todo = <<Frame(do, with)>> \o @]
PushRest(m, do, list) == IF Tail(list) = <<>> THEN m ELSE Push(m, do, Tail(list))

Return(m, code) == [m EXCEPT !.code = code]
Emit(m, lines) == [m EXCEPT !.out = @ \o lines]
Publish(m, e) == [m EXCEPT !.events = Append(@, e)]
Ran(m, args) == [m EXCEPT !.steps = Append(@, [user |-> m.ctx.user, args |-> args])]

Prefix(s, n) == SubSeq(s, 1, IF n < Len(s) THEN n ELSE Len(s))
CapOut(m) == [m EXCEPT !.out = Prefix(@, MaxOutput)]
LimitOutput(out) ==
  IF Len(out) <= MaxOutput THEN out
  ELSE Append(Prefix(out, MaxOutput), <<"...(output truncated)">>)

\* What a nested call leaves alone, for its caller to put back.
Kept(m) == [args |-> m.args, cwd |-> m.cwd, code |-> m.code, out |-> m.out]

\* ctx.depth++, with ctx.depth-- pushed for later.
TooDeep(m) == m.ctx.depth >= MaxDepth
Deeper(m) == Push([m EXCEPT !.ctx.depth = @ + 1], "leave", <<>>)
Leave(m) == [m EXCEPT !.ctx.depth = @ - 1]

---------------------------------------------------------------------------
(* Files, as module Vfs has them but for sizes and permissions: a write to a   *)
(* locked file fails with ErrNotPermitted, cp and mv do not overwrite.         *)

Path(m, name) == <<m.cwd, name>>
Exists(m, p) == p \in DOMAIN m.file
Writable(p) == p \notin Locked
Text(m, p) == IF Exists(m, p) THEN m.file[p] ELSE <<>>

WriteFile(m, p, lines) ==
  IF Writable(p)
  THEN [m EXCEPT !.file = [q \in DOMAIN m.file \cup {p} |-> IF q = p THEN lines ELSE m.file[q]]]
  ELSE m
\* Bug: >> does not look at the attribute.
AppendFileAnyway(m, p, lines) == [m EXCEPT !.file = (p :> Text(m, p) \o lines) @@ @]
AppendFile(m, p, lines) == WriteFile(m, p, Text(m, p) \o lines)
RemoveFile(m, p) == [m EXCEPT !.file = Restrict(@, DOMAIN @ \ {p})]

---------------------------------------------------------------------------
(* Filters: what stands behind a pipe, and commands on their own. *)

Filters == {"grep", "head", "tail", "wc", "uniq", "cat", "tee", "xargs"}
IsFilter(bin) == bin \in Filters

Options == {"-v", "-c", "-n", "-l", "-w", "-o", "-r"}
Operands(args) == SelectSeq(Tail(args), LAMBDA a : a.text \notin Options)
Has(args, option) == \E i \in DOMAIN args \ {1} : args[i].text = option
Number(text) == CHOOSE n \in 0..9 : ToString(n) = text
Count(args, lines) ==
  LET at == {i \in 2..(Len(args) - 1) : args[i].text = "-n"}
      n == IF at = {} THEN 10 ELSE Number(args[(CHOOSE i \in at : TRUE) + 1].text)
  IN  IF n < Len(lines) THEN n ELSE Len(lines)

\* runFilter on the lines that came through the pipe, or out of files.
Grep(args, lines) ==
  LET pattern == Operands(args)
      Hit(l) == (pattern = <<>> \/ \E i \in DOMAIN l : l[i] = pattern[1].text) # Has(args, "-v")
      hits == SelectSeq(lines, Hit)
  IN  IF Has(args, "-c") THEN << <<ToString(Len(hits))>> >> ELSE hits
Head10(args, lines) == SubSeq(lines, 1, Count(args, lines))
Tail10(args, lines) == SubSeq(lines, Len(lines) - Count(args, lines) + 1, Len(lines))
Wc(args, lines) ==
  << << ToString(IF Has(args, "-w") THEN Len(FlattenSeq(lines)) ELSE Len(lines)) >> >>
Unrepeated(lines, line) ==
  IF lines # <<>> /\ Last(lines) = line THEN lines ELSE Append(lines, line)
Uniq(lines) ==
  LET u[n \in 0..Len(lines)] == IF n = 0 THEN <<>> ELSE Unrepeated(u[n - 1], lines[n])
  IN  u[Len(lines)]

Filtered(args, lines) ==
  LET bin == args[1].text IN
  CASE bin = "grep" -> Grep(args, lines)
    [] bin = "head" -> Head10(args, lines)
    [] bin = "tail" -> Tail10(args, lines)
    [] bin = "wc"   -> Wc(args, lines)
    [] bin = "uniq" -> Uniq(lines)
    [] OTHER        -> lines              \* cat, tee, xargs: as it came

\* Every operand is written, with the same lines.
Tee(m, args, lines) ==
  LET to == {Path(m, Operands(args)[i].text) : i \in DOMAIN Operands(args)} \ Locked
  IN  IF args[1].text # "tee" THEN m
      ELSE [m EXCEPT !.file = [q \in DOMAIN @ \cup to |-> IF q \in to THEN lines ELSE @[q]]]

\* In a pipe: the output so far is what the filter reads.
RunFilter(m, args) == [Tee(Ran(m, args), args, m.out) EXCEPT !.out = Filtered(args, m.out)]

\* On its own: every operand is read as a file, the pattern of grep among them.
FilterCmd(m, args) ==
  LET data == FlattenSeq([i \in DOMAIN Operands(args) |-> Text(m, Path(m, Operands(args)[i].text))])
  IN  Return(Emit(Tee(m, args, data), Filtered(args, data)), 0)

---------------------------------------------------------------------------
(* Simple commands: execOne.  rest is what follows the name. *)

Cd(m, rest) ==
  LET home == Home[m.ctx.user] IN
  CASE rest = <<>> -> Return(IF home \in Dirs THEN [m EXCEPT !.cwd = home] ELSE m, 0)
    [] rest # <<>> /\ rest[1].text \in Dirs -> Return([m EXCEPT !.cwd = rest[1].text], 0)
    [] OTHER -> Return(Emit(m, << <<"No such file or directory">> >>), 1)

Cat(m, rest) ==
  LET shown(p) == IF Exists(m, p) THEN Text(m, p) ELSE << <<"No such file or directory">> >>
  IN  IF rest = <<>> THEN Return(Emit(m, << <<"Usage: cat">> >>), 1)
      ELSE Return(Emit(m, FlattenSeq([i \in DOMAIN rest |-> shown(Path(m, rest[i].text))])), 0)

History(m, args) ==
  IF Has(args, "-c") THEN Return([m EXCEPT !.history = <<>>], 0)
  ELSE Return(Emit(m, IF m.history = <<>> THEN << <<"ls">>, <<"whoami">>, <<"cat">> >>
                      ELSE [i \in DOMAIN m.history |-> <<ToString(i)>>]), 0)

\* touch, rm, cp and mv of one file; a refusal is reported, the code stays 0.
Try(m, possible, after) == Return(IF possible THEN after ELSE Emit(m, << <<"cannot">> >>), 0)
Touch(m, p) == Try(m, Writable(p), WriteFile(m, p, Text(m, p)))
Rm(m, p) == Try(m, Exists(m, p) /\ Writable(p), RemoveFile(m, p))
Cp(m, p, q) == Try(m, Exists(m, p) /\ ~Exists(m, q), WriteFile(m, q, Text(m, p)))
Mv(m, p, q) ==
  Try(m, Exists(m, p) /\ Writable(p) /\ ~Exists(m, q), RemoveFile(WriteFile(m, q, Text(m, p)), p))

\* vnet.go: a download is announced first, then saved where cwdMap says the session is.
Download(m, tool, name) ==
  LET told == Publish(m, [type |-> "download.attempt", tool |-> tool])
      path == <<m.snap, name>>
  IN  IF name = "" THEN Emit(told, << <<"body">> >>)
      ELSE Emit(WriteFile(told, path, << <<"body">> >>),
                << <<IF Writable(path) THEN "saved" ELSE "cannot write">> >>)
Wget(m, rest) == Return(Download(m, "wget", IF rest = <<>> THEN "index.html" ELSE rest[1].text), 0)
Curl(m, args) ==
  LET at == {i \in 2..(Len(args) - 1) : args[i].text = "-o"}
  IN  Return(Download(m, "curl", IF at = {} THEN "" ELSE args[(CHOOSE i \in at : TRUE) + 1].text), 0)
Nc(m, rest) ==
  Return(Emit(Publish(m, [type |-> "connect.attempt"]), << <<"Connection timed out">> >>), 1)

---------------------------------------------------------------------------
(* Lines: Executor.executeAs, with the context of its own a nested line gets.  *)

Reentered(m, then) == Push(Push(m, then, Kept(m)), "return", m.ctx)
\* Bug: the outer line goes on in the context of the nested one.
GoOn(m, ctx) == m
GoBack(m, ctx) == [m EXCEPT !.ctx = ctx]

ExecuteAs(m, user, depth, raw) ==
  LET line == Push([m EXCEPT !.snap = m.cwd, !.out = <<>>, !.code = 0,
                             !.ctx = [user |-> user, depth |-> depth, last |-> m.last]],
                   "lineEnds", m.cwd)
  IN  IF Parses(raw) THEN Push(line, "ast", raw) ELSE Push(line, "sequence", raw[1].segments)

\* The state of a session is written when the line ends; a nested line has by
\* then written its own code and left its directory in cwdMap.
LineEnds(m, cwd) ==
  Publish([m EXCEPT !.out = LimitOutput(@), !.last = m.code],
          [type |-> "command.executed", user |-> m.ctx.user, cwd |-> cwd, code |-> m.code])

---------------------------------------------------------------------------
(* Commands that run a line, and the choice of the command: execOne. *)

\* sudo runs its line as root and shows the output; the code it reports is 0.
\* stripLeadingSudo: sudo sudo c is sudo c, however often it is written.
Sudo(m, line) ==
  LET leading == line # <<>> /\ line[1].op = "call" /\ ~line[1].neg /\ line[1].words[1].text = "sudo"
      more == leading /\ Len(line[1].words) > 1
      nothing == line = <<>> \/ line = <<Call(<<Word("sudo")>>)>>
  IN  CASE more -> Push(m, "sudo", line[1].words[2].body \o Tail(line))
        [] ~more /\ nothing -> Return(m, 0)
        [] ~more /\ ~nothing /\ TooDeep(m) ->
             Return(Emit(m, << <<"too many levels of nested sudo">> >>), 0)
        [] OTHER -> ExecuteAs(Reentered(m, "sudoRan"), "root", m.ctx.depth + 1, line)
SudoRan(m, kept) == [m EXCEPT !.out = kept.out \o @, !.cwd = kept.cwd, !.code = 0]

\* sh, python and the like run -c code for its effects; output and cwd are dropped.
RunInterpreter(m, rest) ==
  LET inline == Len(rest) > 1 /\ rest[1].text = "-c" /\ rest[2].body # <<>> IN
  CASE ~inline -> Return(m, 0)
    [] inline /\ TooDeep(m) ->
         Return(Emit(m, << <<"too many nested interpreter levels">> >>), 1)
    [] OTHER -> ExecuteAs(Reentered(m, "interpreted"), m.ctx.user, m.ctx.depth + 1, rest[2].body)
Interpreted(m, kept) == [m EXCEPT !.out = kept.out, !.cwd = kept.cwd, !.code = 0]

\* Commands that only print stand behind echo and pwd, those that are one operation
\* of the file system behind touch; ExecOne names one of each kind.
ExecOne(before, args) ==
  LET bin == args[1].text
      rest == Tail(args)
      m == Ran(before, args)
      at(i) == Path(m, rest[i].text)
  IN
  CASE bin = "wget" -> Wget(m, rest)
    [] bin = "curl" -> Curl(m, args)
    [] bin = "nc" -> Nc(m, rest)
    [] bin = "cd" -> Cd(m, rest)
    [] bin = "pwd" -> Return(Emit(m, << <<m.cwd>> >>), 0)
    [] bin = "echo" -> Return(Emit(m, << [i \in DOMAIN rest |-> rest[i].text] >>), 0)
    [] bin = "whoami" -> Return(Emit(m, << <<m.ctx.user>> >>), 0)
    [] bin = "history" -> History(m, args)
    [] bin \in {"true", "exit", "logout", "export", "kill", "vi"} -> Return(m, 0)
    [] bin = "false" -> Return(m, 1)
    [] bin = "cat" -> Cat(m, rest)
    [] bin \in Filters \ {"cat"} -> FilterCmd(m, args)
    [] bin = "touch" -> Touch(m, at(1))
    [] bin = "rm" -> Rm(m, at(1))
    [] bin = "cp" -> Cp(m, at(1), at(2))
    [] bin = "mv" -> Mv(m, at(1), at(2))
    [] bin = "sudo" /\ rest = <<>> -> Return(Emit(m, << <<"usage: sudo">> >>), 0)
    [] bin = "sudo" /\ rest # <<>> -> Sudo(m, rest[1].body)
    [] bin \in {"sh", "bash", "python", "perl"} -> RunInterpreter(m, rest)
    [] OTHER -> Return(Emit(m, << <<"command not found">> >>), 127)

---------------------------------------------------------------------------
(* Expansion of words: parse.go's expandConfig.  A command substitution runs  *)
(* its statements one nesting deeper, each from the directory the word is in. *)

Fields(m, words) == Push([m EXCEPT !.args = <<>>, !.ok = TRUE], "words", words)
NoArgs(m) == ~m.ok \/ m.args = <<>>

Field(m, text, body) == [m EXCEPT !.args = Append(@, [text |-> text, body |-> body])]
ExpandWord(m, w) ==
  CASE ~m.ok -> m
    [] m.ok /\ w.kind = "lit" -> Field(m, w.text, w.body)
    [] m.ok /\ w.kind = "status" -> Field(m, ToString(m.ctx.last), <<>>)
    [] m.ok /\ w.kind = "user" -> Field(m, m.ctx.user, <<>>)
    [] m.ok /\ w.kind \notin {"lit", "status", "user"} /\ TooDeep(m) -> [m EXCEPT !.ok = FALSE]
    [] OTHER -> Push(Deeper(Push([m EXCEPT !.out = <<>>], "substituted", Kept(m))),
                     "subst", [line |-> w.body, cwd |-> m.cwd])
Words(m, words) ==
  IF words = <<>> THEN m ELSE ExpandWord(PushRest(m, "words", words), words[1])

SubstRun(m, x) ==
  IF x.line = <<>> \/ Len(m.out) >= MaxOutput THEN m
  ELSE Push(Push(Push([m EXCEPT !.cwd = x.cwd], "subst", [x EXCEPT !.line = Tail(@)]), "cap", <<>>),
            "stmt", x.line[1])

\* The output becomes words; the directory, the code and the output so far stay.
Substituted(m, kept) ==
  LET words == FlattenSeq(m.out)
  IN  [m EXCEPT !.args = kept.args \o [i \in DOMAIN words |-> [text |-> words[i], body |-> <<>>]],
                !.ok = TRUE, !.cwd = kept.cwd, !.code = kept.code, !.out = kept.out]

\* One redirection of a command whose output starts after the first prefix
\* lines: the output goes to the file, the event says so, written or not.
Redirects(m, x) ==
  IF x.redirs = <<>> THEN m
  ELSE Fields(Push(Push(m, "redirects", [x EXCEPT !.redirs = Tail(@)]),
                   "redirect", [append |-> x.redirs[1].append, prefix |-> x.prefix]),
              <<x.redirs[1].word>>)
Redirect(m, x) ==
  LET path == Path(m, m.args[1].text)
      added == SubSeq(m.out, x.prefix + 1, Len(m.out))
      kept == [m EXCEPT !.out = Prefix(@, x.prefix)]
      wrote == IF x.append THEN AppendFile(kept, path, added) ELSE WriteFile(kept, path, added)
      said == IF Writable(path) THEN wrote ELSE Emit(wrote, << <<"Operation not permitted">> >>)
  IN  IF NoArgs(m) THEN m ELSE Publish(said, [type |-> "file.written", path |-> path])

RunCall(m, call) == Fields(Push(m, "invoke", call.redirs), call.words)
Invoke(m, redirs) ==
  LET later == IF redirs = <<>> THEN m
               ELSE Push(m, "redirects", [redirs |-> redirs, prefix |-> Len(m.out)])
  IN  IF NoArgs(m) THEN Return(m, 0) ELSE ExecOne(later, m.args)

---------------------------------------------------------------------------
(* Statements. *)

\* pipeCmds with the loop over its commands.  The output so far is put aside as
\* long as the chain runs; the arguments of a command that is not a filter are
\* expanded here and again in RunCall.
RunPipeChain(m, s) ==
  Push(Push([m EXCEPT !.out = <<>>, !.code = 0], "piped", m.out), "pipe", [s |-> s, first |-> TRUE])
PipeCmds(m, x) ==
  CASE x.s.op = "pipe" -> Push(Push(m, "pipe", [s |-> x.s.y, first |-> FALSE]),
                               "pipe", [x EXCEPT !.s = @.x])
    [] x.s.op = "call" -> Fields(Push(m, "pipeCall", x), x.s.words)
    [] OTHER -> m
PipeCall(m, x) ==
  CASE NoArgs(m) -> m
    [] ~NoArgs(m) /\ ~x.first /\ IsFilter(m.args[1].text) -> RunFilter(m, m.args)
    [] OTHER -> RunCall(m, x.s)
Piped(m, out) == CapOut([m EXCEPT !.out = out \o @])

\* What comes after the first half of && or ||.
Second(m, s) ==
  IF (s.op = "and" /\ m.code = 0) \/ (s.op = "or" /\ m.code # 0) THEN Push(m, "stmt", s.y) ELSE m

FlipCode(m) == Return(m, IF m.code = 0 THEN 1 ELSE 0)

\* A subshell keeps the directory it ends in, and is refused when too deep.
RunStmt(m, s) ==
  LET r == IF s.neg THEN Push(m, "flip", <<>>) ELSE m IN
  CASE s.op = "background" -> Push(m, "stmt", s.x)
    [] s.op = "pipe" -> RunPipeChain(r, s)
    [] s.op \in {"and", "or"} -> Push(Push(r, "second", s), "stmt", s.x)
    [] s.op = "call" -> RunCall(r, s)
    [] s.op = "subshell" /\ TooDeep(m) -> Return(m, 1)
    [] s.op = "subshell" /\ ~TooDeep(m) -> Push(Deeper(Return(r, 0)), "stmts", s.body)
    [] OTHER -> Return(r, 0)
Stmts(m, line) == IF line = <<>> THEN m ELSE RunStmt(PushRest(m, "stmts", line), line[1])

RunAST(m, line) ==
  IF line = <<>> THEN m ELSE RunStmt(Push(PushRest(m, "ast", line), "cap", <<>>), line[1])

---------------------------------------------------------------------------
(* Lines that do not parse: runSequence.  What stands before a command is      *)
(* looked at only once the command has run.                                    *)

RunSequence(m, segments) ==
  IF segments = <<>> THEN m ELSE Push(PushRest(m, "sequence", segments), "andOr", segments[1])
RunAndOr(m, tokens) ==
  IF tokens = <<>> THEN m ELSE Push(Push(m, "token", tokens), "pipeline", tokens[1].cmds)
AfterToken(m, tokens) ==
  LET op == tokens[1].op
      over == (op = "and" /\ m.code # 0) \/ (op = "or" /\ m.code = 0)
  IN  IF over THEN CapOut(m) ELSE RunAndOr(CapOut(m), Tail(tokens))

\* A pipe runs its commands one after the other; nothing is expanded.
ExecPipeline(m, cmds) ==
  IF cmds = <<>> THEN m ELSE ExecOne(PushRest(m, "pipeline", cmds), cmds[1])

---------------------------------------------------------------------------
(* Sessions. *)

Nothing == [user |-> "", line |-> <<>>, before |-> "", after |-> "", code |-> 0, last |-> 0,
            steps |-> <<>>, events |-> <<>>]

Context(user) == [user |-> user, depth |-> 0, last |-> 0]
Machine(user, cwd, last, snap, history) ==
  [user |-> user, cwd |-> cwd, last |-> last, snap |-> snap, history |-> history,
   ctx |-> Context(user), code |-> 0, out |-> <<>>, args |-> <<>>, ok |-> TRUE,
   events |-> <<>>, steps |-> <<>>, todo |-> <<>>, file |-> <<>>]

Waiting == {s \in DOMAIN state : state[s].todo = <<>>}
Active == DOMAIN state \ Waiting
Now(s) == Head(state[s].todo)

ShellInit ==
  /\ file = Files0 /\ state = <<>> /\ ended = {}
  /\ done = Nothing /\ typed = [s \in Channels |-> <<>>]
  /\ ran = 0

\* session.New with SetUser: the home directory, or / when there is none.
Open(s, u) ==
  /\ s \notin DOMAIN state \cup ended
  /\ LET cwd == IF Home[u] \in Dirs THEN Home[u] ELSE "/"
     IN  state' = [t \in DOMAIN state \cup {s} |->
                     IF t = s THEN Machine(u, cwd, 0, "", <<>>) ELSE state[t]]
  /\ done' = Nothing
  /\ UNCHANGED <<file, ended, typed, ran>>

\* The bounds of the model.
Running == {Last(state[s].todo).with.line : s \in Active}
Cost(raw) == IF raw \in Shorts THEN 1 ELSE 2
Allowed(raw) ==
  /\ ran + Cost(raw) <= MaxLines
  /\ Running = {} \/ Running \cup {raw} \subseteq Together

\* A session as it sees the files, and as a step leaves it and them.
Seen(s) == [state[s] EXCEPT !.file = file]
Becomes(s, m) == file' = m.file /\ state' = [state EXCEPT ![s] = [m EXCEPT !.file = <<>>]]

\* Execute, as far as its first call; answer is what follows when it returns.
Execute(s, raw, answer) ==
  /\ LET call == Push(Seen(s), answer, [line |-> raw, cwd |-> state[s].cwd])
     IN  Becomes(s, ExecuteAs(call, state[s].user, 0, Tree[raw]))
  /\ ran' = ran + Cost(raw)
  /\ done' = Nothing
  /\ UNCHANGED <<ended, typed>>

\* ExecuteLine does nothing with a blank line; an exec request is one line,
\* whatever it is.
ExecuteLine(s, raw) == Allowed(raw) /\ Tree[raw] # <<>> /\ Execute(s, raw, "addHistory")
Exec(s, raw) == Allowed(raw) /\ typed[s] = <<>> /\ Execute(s, raw, "close")

\* The frame on top of the stack is run.
Run(s, do, Method(_, _)) ==
  /\ Now(s).do = do
  /\ \E m \in {Method([Seen(s) EXCEPT !.todo = Tail(@)], Now(s).with)} : Becomes(s, m)
  /\ done' = Nothing
  /\ UNCHANGED <<ended, typed, ran>>

Trace(m, x) ==
  done' = [user |-> m.user, line |-> x.line, before |-> x.cwd, after |-> m.cwd,
           code |-> m.code, last |-> m.last, steps |-> m.steps, events |-> m.events]

\* Bug: a line that repeats the one before is added again.
AddHistoryAlways(history, raw) ==
  Append(IF Len(history) >= MaxHistory THEN Tail(history) ELSE history, raw)

AddHistory(history, raw) ==
  CASE history # <<>> /\ Last(history) = raw -> history
    [] history # <<>> /\ Last(history) # raw /\ Len(history) >= MaxHistory -> Append(Tail(history), raw)
    [] OTHER -> Append(history, raw)

Clears(m) ==
  \E i \in DOMAIN m.steps : m.steps[i].args[1].text = "history" /\ Has(m.steps[i].args, "-c")

\* ExecuteLine goes on: the line is added to the history.
LineDone(s) ==
  /\ Now(s).do = "addHistory"
  /\ LET m == state[s]
         raw == Now(s).with.line
     IN  /\ state' = [state EXCEPT ![s] = Machine(m.user, m.cwd, m.last, m.snap, AddHistory(m.history, raw))]
         /\ typed' = [typed EXCEPT ![s] = IF Clears(m) THEN <<raw>> ELSE Append(@, raw)]
         /\ Trace(m, Now(s).with)
  /\ UNCHANGED <<file, ended, ran>>

RemoveSession(s) ==
  /\ state' = Restrict(state, DOMAIN state \ {s})
  /\ ended' = ended \cup {s}
  /\ typed' = [typed EXCEPT ![s] = <<>>]

\* The session of an exec request is closed when the line has run.
ExecDone(s) ==
  /\ Now(s).do = "close"
  /\ Trace(state[s], Now(s).with)
  /\ RemoveSession(s)
  /\ UNCHANGED <<file, ran>>

\* Session.Close, with RemoveSession.
Close(s) ==
  RemoveSession(s) /\ done' = Nothing /\ UNCHANGED <<file, ran>>

Step(s) ==
  \/ Run(s, "ast", RunAST) \/ Run(s, "stmt", RunStmt) \/ Run(s, "stmts", Stmts)
  \/ Run(s, "cap", LAMBDA m, x : CapOut(m)) \/ Run(s, "flip", LAMBDA m, x : FlipCode(m))
  \/ Run(s, "second", Second) \/ Run(s, "leave", LAMBDA m, x : Leave(m))
  \/ Run(s, "pipe", PipeCmds) \/ Run(s, "pipeCall", PipeCall) \/ Run(s, "piped", Piped)
  \/ Run(s, "invoke", Invoke) \/ Run(s, "redirects", Redirects) \/ Run(s, "redirect", Redirect)
  \/ Run(s, "words", Words) \/ Run(s, "subst", SubstRun) \/ Run(s, "substituted", Substituted)
  \/ Run(s, "sudo", Sudo) \/ Run(s, "sudoRan", SudoRan) \/ Run(s, "interpreted", Interpreted)
  \/ Run(s, "sequence", RunSequence) \/ Run(s, "andOr", RunAndOr) \/ Run(s, "token", AfterToken)
  \/ Run(s, "pipeline", ExecPipeline)
  \/ Run(s, "lineEnds", LineEnds) \/ Run(s, "return", GoBack)
  \/ LineDone(s) \/ ExecDone(s)

ShellNext ==
  \/ \E s \in Channels, u \in Users : Open(s, u)
  \/ \E s \in Waiting, raw \in DOMAIN Tree : ExecuteLine(s, raw) \/ Exec(s, raw)
  \/ \E s \in Waiting : Close(s)
  \/ \E s \in Active : Step(s)

ShellSpec == ShellInit /\ [][ShellNext]_shellVars

---------------------------------------------------------------------------
(* Properties. *)

\* However substitutions, subshells, sudo and interpreters are mixed, no more
\* than maxCmdSubstDepth of them are active at once, whichever context the
\* depth is carried by.
Nestings(m) == {i \in DOMAIN m.todo : m.todo[i].do \in {"leave", "return"}}
NestingBounded == \A s \in DOMAIN state : Cardinality(Nestings(state[s])) <= MaxDepth

\* A session acts as anyone but the user it logged in as only while a sudo of
\* its line has not returned.
SudoEnds ==
  \A s \in DOMAIN state : state[s].ctx.user # state[s].user =>
     \E i \in DOMAIN state[s].todo : state[s].todo[i].do = "sudoRan"

\* What history shows is the end of what was typed since the last history -c,
\* whichever nested line that was in, without immediate repetitions; lines of
\* other sessions do not matter.
HistoryIsTail ==
  \A s \in Waiting :
    LET told == Uniq(typed[s])
        n == IF Len(told) < MaxHistory THEN Len(told) ELSE MaxHistory
    IN  state[s].history = SubSeq(told, Len(told) - n + 1, Len(told))

\* No command, redirection, filter or download changes or takes away a file
\* with chattr +i.
LockedUnchanged ==
  \A p \in Locked : p \in DOMAIN file /\ file[p] = Files0[p]

=============================================================================
