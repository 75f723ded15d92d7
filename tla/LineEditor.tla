------------------------------ MODULE LineEditor ------------------------------
(***************************************************************************)
(* The line editor of the interactive shell: the closures of               *)
(* runInteractiveShell in internal/ssh/server.go, with the history of the  *)
(* session in internal/shell/executor.go and the completion in             *)
(* internal/session/session.go.                                            *)
(*                                                                         *)
(* One action for each key the editor knows.  What the editor writes goes  *)
(* to the client's terminal, of which the row the cursor is in is kept:    *)
(* its cells and the column.  A control byte is named, a printable byte is *)
(* a member of Text; the pair Lead Cont is one character of two bytes.     *)
(***************************************************************************)
EXTENDS TtyRecorder

CONSTANTS
  Text,                \* printable bytes, 0x20 and above
  Sep,                 \* the one of them that separates words
  Lead, Cont,          \* the bytes of a character outside ASCII
  Finals,              \* those of 0x40 to 0x7E, which end a control sequence
  Prompt,              \* what sess.Prompt returns
  Names,               \* what sess.Complete chooses from: paths that exist
  Cols,                \* width of the terminal, sess.Cols
  MaxInteractiveLine,  \* 64 KiB
  MaxEscLen,           \* 16
  MaxSessionHistory,   \* 200
  Farewells,           \* the lines exit and logout
  Forget,              \* the line history -c
  Unended              \* lines whose output does not end its row, such as printf x

ASSUME EditorAssumption ==
  /\ {Sep, Lead, Cont} \union Finals \subseteq Text
  /\ Prompt \in Seq(Text) /\ Names \subseteq Seq(Text) /\ IsFiniteSet(Names)
  /\ Farewells \subseteq Seq(Text) /\ Unended \subseteq Seq(Text) /\ Forget \in Seq(Text)
  /\ Cols \in Nat \ {0}
  /\ MaxInteractiveLine \in Nat
  /\ MaxEscLen \in Nat /\ MaxEscLen > 1
  /\ MaxSessionHistory \in Nat \ {0}

VARIABLES
  line,     \* the line being typed
  cursor,   \* the cursor is between line[1..cursor] and the rest
  histIdx,  \* -1, or how far back in the history
  saved,    \* the line to come back to
  draft,    \* history: the line when the walk through the history began
  esc,      \* bytes of an escape sequence that is not complete
  history,  \* sessionState.history of the executor
  row,      \* the cells of the terminal's row
  col,      \* its column; Cols when the last one is filled and the wrap is pending
  shared    \* history: the prompt shares its row with output of the command before it

lineVars == <<line, cursor>>
walkVars == <<histIdx, saved, draft>>
screenVars == <<row, col, shared>>
editorVars == <<lineVars, walkVars, esc, history, screenVars, tape>>

EditorInit ==
  /\ line = <<>> /\ cursor = 0
  /\ histIdx = -1 /\ saved = <<>> /\ draft = <<>>
  /\ esc = <<>> /\ history = <<>>
  /\ row = <<>> /\ col = 0 /\ shared = FALSE
  /\ tape = NewTape(FALSE)

Before(s, n) == SubSeq(s, 1, n)
After(s, n) == SubSeq(s, n + 1, Len(s))
Blank(l) == \A i \in 1..Len(l) : l[i] = Sep
Ascii(l) == \A i \in 1..Len(l) : l[i] \notin {Lead, Cont}
WholeAt(l, i) == i > 1 /\ l[i - 1] = Lead /\ l[i] = Cont

\* utf8.RuneCount, and the size utf8.DecodeLastRune gives: a byte that is not part of a
\* whole character counts as one.
RuneCount(l) == Cardinality({i \in 1..Len(l) : ~WholeAt(l, i)})
LastRune(l) == IF WholeAt(l, Len(l)) THEN 2 ELSE 1

(***************************************************************************)
(* The terminal.  A row that is full goes on in the next one, below which  *)
(* nothing was ever written; the cursor never moves up.                    *)
(***************************************************************************)
Printed(r, c, cells) ==
  LET all == Before(r, c) \o cells
      used == IF Len(all) = 0 THEN 0 ELSE ((Len(all) - 1) % Cols) + 1
  IN IF Len(all) <= Cols
     THEN [row |-> all \o After(r, Len(all)), col |-> Len(all)]
     ELSE [row |-> After(all, Len(all) - used), col |-> used]

\* The last column is left as if the cursor were in it.
MovedLeft(c, n) ==
  LET from == IF c = Cols THEN Cols - 1 ELSE c IN IF n >= from THEN 0 ELSE from - n

(***************************************************************************)
(* What the editor writes.  The new line and cursor are given.             *)
(***************************************************************************)
Silent == UNCHANGED <<screenVars, tape>>

Show(screen) == row' = screen.row /\ col' = screen.col

Echo(cells) ==
  /\ Show(Printed(row, col, cells))
  /\ Emit(<<Len(cells)>>)
  /\ UNCHANGED shared

Ring == Emit(<<1>>) /\ UNCHANGED screenVars

\* redraw: to the first column, clear the row, prompt and line again, and back.
Redrawn(l, c) ==
  LET all == Printed(<<>>, 0, Prompt \o l)
      back == RuneCount(After(l, c))
  IN [all EXCEPT !.col = IF back = 0 THEN @ ELSE MovedLeft(@, back)]

Redraw(l, c) ==
  /\ Show(Redrawn(l, c))
  /\ shared' = FALSE
  /\ Emit(<<Len(Prompt) + Len(l)>>)

\* A row of its own with what output left on it and the prompt.
NewPrompt(left, sizes) ==
  /\ Show(Printed(<<>>, 0, left \o Prompt))
  /\ shared' = (left # <<>>)
  /\ Emit(sizes)

(***************************************************************************)
(* Typing and deleting.                                                    *)
(***************************************************************************)
Insert(b) ==
  /\ b \in Text
  /\ IF Len(line) >= MaxInteractiveLine
     THEN Silent /\ UNCHANGED lineVars
     ELSE /\ line' = Before(line, cursor) \o <<b>> \o After(line, cursor)
          /\ cursor' = cursor + 1
          /\ IF cursor = Len(line) THEN Echo(<<b>>) ELSE Redraw(line', cursor')
  /\ UNCHANGED <<walkVars, history>>

\* Bug: the width of the terminal is not looked at.
CanEraseAnywhere ==
  /\ cursor = Len(line)
  /\ line[cursor] \notin {Lead, Cont}

\* May a backspace be shown without drawing the line again?
CanErase ==
  /\ cursor = Len(line)
  /\ line[cursor] \notin {Lead, Cont}
  /\ RuneCount(Prompt) + Len(line) < Cols

\* \b, a blank and \b.  In the last column terminals differ in where \b goes: the cell
\* before it, or the last one itself.
Erase ==
  \E to \in IF col = Cols THEN {Cols - 1, Cols - 2} ELSE {col - 1} :
    /\ col' = IF to < 0 THEN 0 ELSE to
    /\ row' = Before(row, col')
    /\ shared' = shared
    /\ Emit(<<3>>)

Backspace ==
  /\ IF cursor <= 0
     THEN Silent /\ UNCHANGED lineVars
     ELSE LET size == IF CanErase THEN 1 ELSE LastRune(Before(line, cursor)) IN
          /\ line' = Before(line, cursor - size) \o After(line, cursor)
          /\ cursor' = cursor - size
          /\ IF CanErase THEN Erase ELSE Redraw(line', cursor')
  /\ UNCHANGED <<walkVars, history>>

\* One byte, whatever it is part of.
Del ==
  /\ IF cursor >= Len(line)
     THEN Silent /\ UNCHANGED line
     ELSE /\ line' = Before(line, cursor) \o After(line, cursor + 1)
          /\ Redraw(line', cursor)
  /\ UNCHANGED <<cursor, walkVars, history>>

\* Arrow keys, Home and End.  The arrows are sent back as they came.
Right ==
  /\ IF cursor >= Len(line)
     THEN Silent /\ UNCHANGED cursor
     ELSE /\ cursor' = cursor + 1
          /\ col' = IF col >= Cols - 1 THEN col ELSE col + 1
          /\ Emit(<<3>>)
          /\ UNCHANGED <<row, shared>>
  /\ UNCHANGED <<line, walkVars, history>>

Left ==
  /\ IF cursor <= 0
     THEN Silent /\ UNCHANGED cursor
     ELSE /\ cursor' = cursor - 1
          /\ col' = MovedLeft(col, 1)
          /\ Emit(<<3>>)
          /\ UNCHANGED <<row, shared>>
  /\ UNCHANGED <<line, walkVars, history>>

MoveTo(c) ==
  /\ IF cursor = c THEN Silent /\ UNCHANGED cursor
     ELSE cursor' = c /\ Redraw(line, c)
  /\ UNCHANGED <<line, walkVars, history>>

Home == MoveTo(0)
End == MoveTo(Len(line))

(***************************************************************************)
(* Walking through the history, with the arrows up and down.               *)
(***************************************************************************)
Entry(i) == history[Len(history) - i]

GoTo(l) ==
  /\ line' = l
  /\ cursor' = Len(l)
  /\ Redraw(l, Len(l))

Up ==
  /\ IF history = <<>>
     THEN Silent /\ UNCHANGED <<lineVars, walkVars>>
     ELSE /\ saved' = IF histIdx = -1 THEN line ELSE saved
          /\ draft' = IF histIdx = -1 THEN line ELSE draft
          /\ histIdx' = IF histIdx < Len(history) - 1 THEN histIdx + 1 ELSE histIdx
          /\ GoTo(Entry(histIdx'))
  /\ UNCHANGED history

Down ==
  /\ IF histIdx < 0
     THEN Silent /\ UNCHANGED <<lineVars, walkVars>>
     ELSE /\ histIdx' = histIdx - 1
          /\ GoTo(IF histIdx = 0 THEN saved ELSE Entry(histIdx'))
          /\ UNCHANGED <<saved, draft>>
  /\ UNCHANGED history

(***************************************************************************)
(* Tab.                                                                    *)
(***************************************************************************)
\* Does the last word of l start after its first i bytes?
StartsAt(l, i) ==
  /\ i > 0 => l[i] = Sep
  /\ \A j \in (i + 1)..Len(l) : l[j] # Sep

Candidates(tok) == {name \in Names : IsPrefix(tok, name)}

\* Nothing to complete, or nothing to complete it with.
CompleteNone(tok) ==
  /\ tok = <<>> \/ Candidates(tok) = {}
  /\ Ring /\ UNCHANGED lineVars

\* The rest of the only candidate is appended, whatever the limit of a line.
CompleteOne(tok) ==
  /\ tok # <<>>
  /\ \E name \in Candidates(tok) :
       /\ Candidates(tok) = {name}
       /\ line' = line \o After(name, Len(tok))
       /\ cursor' = Len(line')
       /\ Echo(After(name, Len(tok)))

\* Several are listed in rows of their own.
CompleteMany(tok) ==
  /\ tok # <<>> /\ Cardinality(Candidates(tok)) > 1
  /\ Show(Redrawn(line, cursor))
  /\ shared' = FALSE
  /\ Emit(<<2>> \o [i \in 1..Cardinality(Candidates(tok)) |-> 2]
          \o <<2, Len(Prompt) + Len(line)>>)
  /\ UNCHANGED lineVars

Complete ==
  /\ IF cursor # Len(line)
     THEN Silent /\ UNCHANGED lineVars
     ELSE \E i \in 0..Len(line) :
            /\ StartsAt(line, i)
            /\ LET tok == After(line, i) IN
               CompleteNone(tok) \/ CompleteOne(tok) \/ CompleteMany(tok)
  /\ UNCHANGED <<walkVars, history>>

(***************************************************************************)
(* The keys that end a line.                                               *)
(***************************************************************************)
ClearLine == line' = <<>> /\ cursor' = 0 /\ histIdx' = -1 /\ UNCHANGED <<saved, draft>>

\* Executor.AddHistory for a line that is not blank.
Added(h, l) ==
  IF h # <<>> /\ Last(h) = l THEN h
  ELSE Append(IF Len(h) >= MaxSessionHistory THEN Tail(h) ELSE h, l)

\* Enter on a line that is blank: ExecuteLine does nothing.
EnterBlank ==
  /\ Blank(line)
  /\ ClearLine
  /\ NewPrompt(<<>>, <<2, Len(Prompt)>>)
  /\ UNCHANGED history

\* Bug: the walk goes on after the line was run.
EnterLineWalking ==
  /\ ~Blank(line) /\ line \notin Farewells
  /\ history' = Added(IF line = Forget THEN <<>> ELSE history, line)
  /\ line' = <<>> /\ cursor' = 0 /\ UNCHANGED walkVars
  /\ NewPrompt(IF line \in Unended THEN <<Sep>> ELSE <<>>, <<2, 1, Len(Prompt)>>)

\* ExecuteLine runs the line, which may clear the history, and adds it afterwards.
EnterLine ==
  /\ ~Blank(line) /\ line \notin Farewells
  /\ history' = Added(IF line = Forget THEN <<>> ELSE history, line)
  /\ ClearLine
  /\ NewPrompt(IF line \in Unended THEN <<Sep>> ELSE <<>>, <<2, 1, Len(Prompt)>>)

\* exit and logout: process returns.
EnterFarewell ==
  /\ line \in Farewells
  /\ ClearLine
  /\ row' = <<>> /\ col' = 0 /\ shared' = FALSE
  /\ Emit(<<2>>)
  /\ UNCHANGED history

Interrupt ==
  /\ ClearLine
  /\ NewPrompt(<<>>, <<4, Len(Prompt)>>)
  /\ UNCHANGED history

\* Ctrl-D: the word logout is written, and not recorded.
EndOfInput ==
  /\ row' = <<>> /\ col' = 0 /\ shared' = FALSE
  /\ tape' = Unrecorded(tape)
  /\ UNCHANGED <<lineVars, walkVars, history>>

(***************************************************************************)
(* Escape sequences: ESC [ ... up to a final byte, and ESC O with one byte. *)
(***************************************************************************)
Nothing == Silent /\ UNCHANGED <<lineVars, walkVars, history>>

\* handleEsc, given what follows ESC [ or ESC O.
HandleEsc(seq) ==
  CASE seq = <<"A">> -> Up
    [] seq = <<"B">> -> Down
    [] seq = <<"C">> -> Right
    [] seq = <<"D">> -> Left
    [] seq \in {<<"H">>, <<"1", "~">>} -> Home
    [] seq \in {<<"F">>, <<"4", "~">>} -> End
    [] seq = <<"3", "~">> -> Del
    [] OTHER -> Nothing

\* A sequence that does not end is dropped with the byte that would make it too long.
EscapeTooLong ==
  /\ Len(esc) >= MaxEscLen
  /\ esc' = <<>>
  /\ Nothing

EscapeOpens(b) ==
  /\ Len(esc) = 1
  /\ esc' = IF b \in {"[", "O"} THEN Append(esc, b) ELSE <<>>
  /\ Nothing

EscapeGoesOn(b) ==
  /\ Len(esc) \in 2..(MaxEscLen - 1)
  /\ esc[2] = "[" /\ b \notin Finals
  /\ esc' = Append(esc, b)
  /\ Nothing

EscapeEnds(b) ==
  /\ Len(esc) \in 2..(MaxEscLen - 1)
  /\ esc[2] = "O" \/ b \in Finals
  /\ esc' = <<>>
  /\ HandleEsc(Append(After(esc, 2), b))

EscapeStarts ==
  /\ esc' = <<"esc">>
  /\ Nothing

(***************************************************************************)
(* process, for one byte: it edits, runs a line, or ends the shell.        *)
(***************************************************************************)
Ready == esc = <<>> /\ UNCHANGED esc

Edit(b) ==
  \/ EscapeTooLong \/ EscapeOpens(b) \/ EscapeGoesOn(b) \/ EscapeEnds(b)
  \/ esc = <<>> /\ b = "esc" /\ EscapeStarts
  \/ Ready /\ Insert(b)
  \/ Ready /\ b = "backspace" /\ Backspace
  \/ Ready /\ b = "tab" /\ Complete
  \/ Ready /\ b = "^C" /\ Interrupt
  \/ Ready /\ b = "enter" /\ EnterBlank

RunLine(b) == Ready /\ b = "enter" /\ EnterLine

Leave(b) ==
  \/ Ready /\ b = "enter" /\ EnterFarewell
  \/ Ready /\ b = "^D" /\ EndOfInput

Keys == Text \union {"esc", "backspace", "tab", "enter", "^C", "^D"}

\* The shell around the editor prints the first prompt and opens the recording.
Around == UNCHANGED <<lineVars, walkVars, esc, history>>

EditorNext == (\E b \in Keys : Edit(b) \/ RunLine(b) \/ Leave(b)) \/ Around
EditorSpec == EditorInit /\ [][EditorNext]_editorVars

(***************************************************************************)
(* Properties.                                                             *)
(***************************************************************************)
\* The types of the variables, but for the terminal's.
EditorTypeOK ==
  /\ line \in Seq(Text) /\ cursor \in Nat
  /\ histIdx \in Int /\ saved \in Seq(Text) /\ draft \in Seq(Text)
  /\ esc \in Seq(Keys) /\ history \in Seq(Seq(Text))

\* The indices the closures share stay inside what they index, whatever is pasted, taken
\* from the history or completed, while the history is cut or cleared: otherwise line and
\* hist are sliced out of range, or redraw has to pull the cursor back.  And the line that
\* comes back when the walk through the history ends is the one it began with.
EditorSound ==
  /\ cursor \in 0..Len(line)
  /\ histIdx \in -1..(Len(history) - 1)
  /\ Len(esc) <= MaxEscLen
  /\ Len(history) <= MaxSessionHistory
  /\ histIdx >= 0 => saved = draft

\* What the client sees in its row is what Enter would run, with the cursor at its place,
\* although most keys are answered without drawing the line again.  This is promised for a
\* prompt and a line of ASCII that leave a column free and do not share their row with old
\* output.
SeenIsRun ==
  (~shared /\ Ascii(Prompt \o line) /\ Len(Prompt \o line) < Cols /\ row # <<>>) =>
    /\ row = Prompt \o line
    /\ col = Len(Prompt) + cursor
=============================================================================
