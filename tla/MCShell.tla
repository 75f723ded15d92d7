------------------------------- MODULE MCShell ------------------------------
(* The names of the lines are their shapes: <<"sudo", "bash", "in">> is       *)
(* sudo "bash -c 'cd /tmp'", <<"and", "true", "out">> is true && cd /none.    *)
EXTENDS ShellMeaning

CONSTANTS s1, s2
Symmetric == Permutations({s1, s2})

HomeValue == [u \in {"root", "bob"} |-> IF u = "root" THEN "/root" ELSE "/home/bob"]
LockedValue == {<<"/root", "lock">>}
FilesValue == (<<"/root", "lock">> :> << <<"a">>, <<"b">> >>) @@ (<<"/root", "log">> :> << <<"b">>, <<"b">>, <<"c">> >>)

C(words) == Call([i \in DOMAIN words |-> Word(words[i])])
Cmds == {"true", "nosuch", "in", "out"}
Cmd(name) == CASE name = "in" -> C(<<"cd", "/tmp">>)
               [] name = "out" -> C(<<"cd", "/none">>)
               [] name = "grep" -> C(<<"grep", "a">>)
               [] name = "tee" -> C(<<"tee", "lock", "log">>)
               [] name = "clear" -> C(<<"history", "-c">>)
               [] OTHER -> C(<<name>>)
Wrap(how, s) ==
  CASE how = "sudo" -> Call(<<Word("sudo"), Quoted(<<s>>)>>)
    [] how = "bash" -> Call(<<Word("bash"), Word("-c"), Quoted(<<s>>)>>)
    [] how = "subst" -> Call(<<Word("echo"), Subst(<<s>>)>>)
    [] how = "not" -> Negated(s)
    [] how = "back" -> Background(s)
    [] OTHER -> Subshell(<<s>>)
Hows == {"sudo", "bash", "subst", "subshell"}
Logic == {"and", "or"}

\* What RunsAsWritten is about: nested no deeper than MaxDepth, and not sudo sudo.
ScriptTree ==
  [n \in {<<c>> : c \in Cmds} |-> <<Cmd(n[1])>>] @@
  [n \in (Hows \cup {"not", "back"}) \X Cmds |-> <<Wrap(n[1], Cmd(n[2]))>>] @@
  [n \in {n \in Hows \X (Hows \cup {"not"}) \X {"nosuch", "in"} : n[1] # "sudo" \/ n[2] # "sudo"} |->
     <<Wrap(n[1], Wrap(n[2], Cmd(n[3])))>>] @@
  [n \in Logic \X Cmds \X Cmds |-> <<Binary(n[1], Cmd(n[2]), Cmd(n[3]))>>] @@
  [n \in Logic \X Logic \X Cmds |->
     <<Binary(n[1], Binary(n[2], Cmd("nosuch"), Cmd(n[3])), Cmd("in"))>>] @@
  [n \in {"pipe"} \X Cmds \X {"grep", "tee", "in"} |-> <<Binary("pipe", Cmd(n[2]), Cmd(n[3]))>>] @@
  [n \in {"list"} \X Hows \X {"nosuch", "in"} \X {"true", "out"} |->
     <<Wrap(n[2], Cmd(n[3])), Cmd(n[4]), Cmd("export")>>] @@
  [n \in {<<"other">>} |-> <<Other>>] @@
  [n \in {<<"three">>} |-> <<Binary("pipe", Binary("pipe", Cmd("nosuch"), Cmd("uniq")), Cmd("export"))>>]

TooDeepTree ==
  [n \in Hows \X Hows \X Hows \X {"nosuch"} |-> <<Wrap(n[1], Wrap(n[2], Wrap(n[3], Cmd("nosuch"))))>>]

Pipe(x, y) == Binary("pipe", C(x), C(y))
Effects == <<
  <<Redirected(C(<<"echo", "x">>), FALSE, Word("lock"))>>, <<Redirected(C(<<"echo", "x">>), TRUE, Word("lock"))>>,
  <<Redirected(C(<<"echo", "x">>), FALSE, Word("log"))>>,
  <<Redirected(C(<<"cat", "log">>), TRUE, Subst(<<C(<<"echo", "new">>)>>))>>,
  <<C(<<"wget", "lock">>)>>, <<C(<<"curl", "-o", "lock">>)>>, <<C(<<"curl">>)>>, <<C(<<"nc">>)>>,
  <<C(<<"rm", "lock">>)>>, <<C(<<"rm", "log">>)>>, <<C(<<"touch", "lock">>)>>, <<C(<<"touch", "new">>)>>,
  <<C(<<"mv", "lock", "new">>)>>, <<C(<<"mv", "log", "lock">>)>>, <<C(<<"cp", "lock", "copy">>)>>,
  <<C(<<"tee", "lock">>)>>, <<C(<<"cat">>)>>, <<C(<<"cd">>)>>, <<C(<<"sudo">>)>>, <<C(<<"bash">>)>>,
  <<C(<<"pwd">>), C(<<"whoami">>)>>, <<C(<<"history">>)>>, <<C(<<"cd", "/tmp">>), C(<<"wget">>)>>,
  <<Call(<<Word("echo"), Variable("user"), Variable("status")>>)>>,
  <<Pipe(<<"cat", "log">>, <<"wc", "-l">>)>>, <<Pipe(<<"cat", "log">>, <<"head", "-n", "1">>)>>,
  <<C(<<"tail", "-n", "1", "log">>)>>, <<Pipe(<<"cat", "log">>, <<"grep", "-c", "b">>)>>,
  <<C(<<"cat", "log", "log">>), C(<<"cat", "log">>)>>,
  <<Call(<<Word("echo"), Subst(<<C(<<"cat", "log", "log">>), C(<<"pwd">>)>>)>>)>>,
  <<Binary("pipe", Wrap("subst", C(<<"wget", "x">>)), C(<<"cat">>))>>,
  <<Wrap("sudo", Cmd("clear"))>>, <<Wrap("bash", Cmd("clear")), C(<<"false">>)>>,
  <<Wrap("sudo", Wrap("sudo", C(<<"sudo">>)))>>,
  Unparsed(<< <<[op |-> "", cmds |-> << <<Word("false")>> >>], [op |-> "and", cmds |-> << <<Word("nosuch")>> >>],
                [op |-> "or", cmds |-> << <<Word("cd"), Word("/tmp")>>, <<Word("true")>> >>],
                [op |-> "and", cmds |-> << <<Word("pwd")>> >>]>> >>) >>

AllTrees == ScriptTree @@ TooDeepTree @@ (<<"blank">> :> <<>>) @@ (<<"clear">> :> <<Cmd("clear")>>)
            @@ [n \in {<<"effect", ToString(i)>> : i \in DOMAIN Effects} |->
                   Effects[CHOOSE i \in DOMAIN Effects : ToString(i) = n[2]]]
Scripted == DOMAIN ScriptTree

\* The last two write and remove the same file.
AllShorts == {<<"nosuch">>, <<"in">>, <<"clear">>, <<"effect", "3">>, <<"effect", "10">>}
AllTogether == AllShorts \cup {n \in DOMAIN AllTrees : n[1] = "effect"}

TreeValue == AllTrees     \* a definition of its own is evaluated once
ScriptsValue == Scripted
ShortsValue == AllShorts
TogetherValue == AllTogether
=============================================================================
