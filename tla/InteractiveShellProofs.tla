------------------------ MODULE InteractiveShellProofs ------------------------
(***************************************************************************)
(* Proofs about the interactive shell, for any chunks of input, any width  *)
(* of the terminal, any limits and any number of chunks.                   *)
(*                                                                         *)
(* Every step of the whole is a step of the channel and a step of the      *)
(* editor, or leaves one of them alone.  So what is proved of each of them *)
(* alone holds of the whole, whatever the other does.                      *)
(***************************************************************************)
EXTENDS InteractiveShell, FiniteSetTheorems, SequenceTheorems,
  WellFoundedInduction, TLAPS

------------------------------------------------------------------------------
(***************************************************************************)
(* The whole implements both of its parts.                                 *)
(***************************************************************************)
InputOK == input \in Seq(Keys)

LEMMA FirstKey ==
  ASSUME InputOK, input # <<>>
  PROVE  Head(input) \in Keys /\ Tail(input) \in Seq(Keys)
BY DEF InputOK

LEMMA StepInput == InputOK /\ [Next]_vars => InputOK'
<1> SUFFICES ASSUME InputOK, [Next]_vars PROVE InputOK'
  OBVIOUS
<1> USE DEF InputOK
<1>1. CASE EditKey \/ RunKey
  BY <1>1, FirstKey DEF EditKey, RunKey
<1>2. CASE LeaveKey \/ PanicKey
  <2>1. input' = <<>>
    BY <1>2 DEF LeaveKey, PanicKey
  <2> QED
    BY <2>1
<1>3. CASE Process
  BY <1>3, ShellAssumption DEF Process
<1>4. CASE UNCHANGED input
  BY <1>4
<1>5. CASE \/ Opens(PtyReq) \/ Opens(Exec) \/ Opens(Sftp) \/ StartShell
           \/ Apart(UnknownSubsystem) \/ Apart(HandlerStep) \/ EndProcess
           \/ FinishExec \/ Apart(SftpEnds) \/ Apart(ReaderStep)
           \/ Apart(Type) \/ Apart(Hangup) \/ Apart(TimerFires) \/ Apart(TimePasses)
  BY <1>5 DEF Opens, StartShell, Apart, NoEditing, EndProcess, FinishExec
<1> QED
  BY <1>1, <1>2, <1>3, <1>4, <1>5 DEF Next, Key, vars

LEMMA StepParts ==
  InputOK /\ [Next]_vars => [ChannelNext]_channelVars /\ [EditorNext]_editorVars
<1> SUFFICES ASSUME InputOK, [Next]_vars
             PROVE  [ChannelNext]_channelVars /\ [EditorNext]_editorVars
  OBVIOUS
<1>1. CASE Opens(PtyReq) \/ Opens(Exec) \/ Opens(Sftp)
  BY <1>1 DEF Opens, NoEditing, ChannelNext, EditorNext, Around
<1>2. CASE StartShell
  BY <1>2 DEF StartShell, ChannelNext, EditorNext, Around
<1>3. CASE \/ Apart(UnknownSubsystem) \/ Apart(HandlerStep) \/ Apart(SftpEnds)
           \/ Apart(ReaderStep)
           \/ Apart(Type) \/ Apart(Hangup) \/ Apart(TimerFires) \/ Apart(TimePasses)
  BY <1>3 DEF Apart, NoEditing, HandlerStep, ProgramEnds, ReaderStep, ChannelNext,
              EditorNext, Around
<1>4. CASE PanicKey \/ Process \/ FinishExec \/ EndProcess
  BY <1>4 DEF PanicKey, Process, FinishExec, EndProcess, NoEditing, ProgramEnds,
              ChannelNext, EditorNext, Around
<1>5. CASE EditKey \/ RunKey \/ LeaveKey
  BY <1>5, FirstKey DEF EditKey, RunKey, LeaveKey, ChannelNext, EditorNext
<1>6. CASE UNCHANGED vars
  BY <1>6 DEF vars
<1> QED
  BY <1>1, <1>2, <1>3, <1>4, <1>5, <1>6 DEF Next, Key

LEMMA InputInvariant == Spec => []InputOK
<1>1. Init => InputOK
  BY DEF Init, InputOK
<1> QED
  BY <1>1, StepInput, PTL DEF Spec

\* The handler, the reader, the timer and the client behave in the whole as SessionChannel
\* lets them, and the keys as LineEditor does.
THEOREM ShellImplementsParts == Spec => ChannelSpec /\ EditorSpec
<1>1. Init => ChannelInit /\ EditorInit
  BY DEF Init
<1> QED
  BY <1>1, StepParts, InputInvariant, PTL DEF Spec, ChannelSpec, EditorSpec

------------------------------------------------------------------------------
(***************************************************************************)
(* The editor.                                                             *)
(***************************************************************************)
EditorInv == EditorTypeOK /\ EditorSound

LEMMA Slices ==
  ASSUME NEW S, NEW s \in Seq(S), NEW n \in 0..Len(s)
  PROVE  /\ Before(s, n) \in Seq(S) /\ Len(Before(s, n)) = n
         /\ After(s, n) \in Seq(S) /\ Len(After(s, n)) = Len(s) - n
BY DEF Before, After

LEMMA RuneSize ==
  ASSUME NEW l \in Seq(Text), l # <<>>
  PROVE  LastRune(l) \in 1..Len(l)
BY DEF LastRune, WholeAt

\* What an edit leaves: the line and the walk are sound.
LineSound(l, c) == l \in Seq(Text) /\ c \in 0..Len(l)
WalkSound(h, i, s, d) ==
  /\ i \in -1..(Len(h) - 1)
  /\ s \in Seq(Text) /\ d \in Seq(Text)
  /\ i >= 0 => s = d
HistorySound(h) == h \in Seq(Seq(Text)) /\ Len(h) <= MaxSessionHistory
EscSound(e) == e \in Seq(Keys) /\ Len(e) <= MaxEscLen

LEMMA InvParts ==
  EditorInv <=> /\ LineSound(line, cursor)
                /\ WalkSound(history, histIdx, saved, draft)
                /\ HistorySound(history)
                /\ EscSound(esc)
<1>1. EditorInv => /\ LineSound(line, cursor)
                   /\ WalkSound(history, histIdx, saved, draft)
                   /\ HistorySound(history) /\ EscSound(esc)
  BY DEF EditorInv, EditorTypeOK, EditorSound, LineSound, WalkSound, HistorySound, EscSound
<1>2. LineSound(line, cursor) /\ WalkSound(history, histIdx, saved, draft)
        /\ HistorySound(history) /\ EscSound(esc) => EditorInv
  BY DEF EditorInv, EditorTypeOK, EditorSound, LineSound, WalkSound, HistorySound, EscSound
<1> QED
  BY <1>1, <1>2

LEMMA InvPartsNext ==
  ASSUME LineSound(line, cursor)', WalkSound(history, histIdx, saved, draft)',
         HistorySound(history)', EscSound(esc')
  PROVE  EditorInv'
BY DEF EditorInv, EditorTypeOK, EditorSound, LineSound, WalkSound, HistorySound, EscSound, Keys

LEMMA NothingKeeps ==
  ASSUME EditorInv, UNCHANGED <<lineVars, walkVars, esc, history>>
  PROVE  EditorInv'
BY DEF EditorInv, EditorTypeOK, EditorSound, lineVars, walkVars

\* Every key keeps the line and its cursor sound.
LEMMA LineKeys ==
  ASSUME EditorInv, NEW b, Insert(b) \/ Backspace \/ Del \/ Right \/ Left \/ Home \/ End \/ Complete
  PROVE  LineSound(line, cursor)' /\ UNCHANGED <<walkVars, history>>
<1> USE DEF LineSound
<1>0. line \in Seq(Text) /\ cursor \in 0..Len(line)
  BY InvParts
<1>1. CASE Insert(b)
  <2>1. b \in Text /\ UNCHANGED <<walkVars, history>>
    BY <1>1 DEF Insert
  <2>2. CASE Len(line) >= MaxInteractiveLine
    BY <1>0, <1>1, <2>1, <2>2 DEF Insert, lineVars
  <2>3. CASE ~(Len(line) >= MaxInteractiveLine)
    <3>1. /\ line' = Before(line, cursor) \o <<b>> \o After(line, cursor)
          /\ cursor' = cursor + 1
      BY <1>1, <2>3 DEF Insert
    <3> QED
      BY <1>0, <2>1, <3>1, Slices
  <2> QED
    BY <2>2, <2>3
<1>2. CASE Backspace
  <2>1. UNCHANGED <<walkVars, history>>
    BY <1>2 DEF Backspace
  <2>2. CASE cursor <= 0
    BY <1>0, <1>2, <2>1, <2>2 DEF Backspace, lineVars
  <2>3. CASE ~(cursor <= 0)
    <3>1. PICK size : /\ size = IF CanErase THEN 1 ELSE LastRune(Before(line, cursor))
                      /\ line' = Before(line, cursor - size) \o After(line, cursor)
                      /\ cursor' = cursor - size
      BY <1>2, <2>3 DEF Backspace
    <3>2. Before(line, cursor) \in Seq(Text) /\ Len(Before(line, cursor)) = cursor
      BY <1>0, Slices
    <3>3. LastRune(Before(line, cursor)) \in 1..cursor
      BY <1>0, <2>3, <3>2, RuneSize
    <3>4. size \in 1..cursor
      BY <1>0, <2>3, <3>1, <3>3
    <3>5. cursor - size \in 0..Len(line)
      BY <1>0, <3>4
    <3>6. /\ Before(line, cursor - size) \in Seq(Text)
          /\ Len(Before(line, cursor - size)) = cursor - size
          /\ After(line, cursor) \in Seq(Text)
          /\ Len(After(line, cursor)) = Len(line) - cursor
      BY <1>0, <3>5, Slices
    <3>7. line' \in Seq(Text) /\ cursor' \in 0..Len(line')
      BY <1>0, <3>1, <3>4, <3>6
    <3> QED
      BY <2>1, <3>7
  <2> QED
    BY <2>2, <2>3
<1>3. CASE Del
  <2>1. UNCHANGED <<cursor, walkVars, history>>
    BY <1>3 DEF Del
  <2>2. CASE cursor >= Len(line)
    BY <1>0, <1>3, <2>1, <2>2 DEF Del
  <2>3. CASE ~(cursor >= Len(line))
    <3>1. line' = Before(line, cursor) \o After(line, cursor + 1)
      BY <1>3, <2>3 DEF Del
    <3>2. cursor + 1 \in 0..Len(line)
      BY <1>0, <2>3
    <3> QED
      BY <1>0, <2>1, <3>1, <3>2, Slices
  <2> QED
    BY <2>2, <2>3
<1>4. CASE Right \/ Left
  BY <1>0, <1>4 DEF Right, Left
<1>5. CASE Home \/ End
  BY <1>0, <1>5 DEF Home, End, MoveTo
<1>6. CASE Complete
  <2>1. UNCHANGED <<walkVars, history>>
    BY <1>6 DEF Complete
  <2>2. CASE UNCHANGED lineVars
    BY <1>0, <2>1, <2>2 DEF lineVars
  <2>3. ASSUME NEW i \in 0..Len(line), CompleteOne(After(line, i))
        PROVE  LineSound(line, cursor)'
    <3>1. After(line, i) \in Seq(Text)
      BY <1>0, Slices
    <3>2. PICK name \in Names : /\ IsPrefix(After(line, i), name)
                                /\ line' = line \o After(name, Len(After(line, i)))
                                /\ cursor' = Len(line')
      BY <2>3 DEF CompleteOne, Candidates
    <3>3. name \in Seq(Text) /\ Len(After(line, i)) \in 0..Len(name)
      BY <3>1, <3>2, EditorAssumption DEF IsPrefix
    <3>4. After(name, Len(After(line, i))) \in Seq(Text)
      BY <3>3, Slices
    <3> QED
      BY <1>0, <3>2, <3>4
  <2> QED
    BY <1>6, <2>1, <2>2, <2>3 DEF Complete, CompleteNone, CompleteMany
<1> QED
  BY <1>1, <1>2, <1>3, <1>4, <1>5, <1>6

\* Walking keeps both the line and the place in the history sound.
LEMMA WalkKeys ==
  ASSUME EditorInv, Up \/ Down
  PROVE  LineSound(line, cursor)' /\ WalkSound(history, histIdx, saved, draft)' /\ history' = history
<1> USE DEF LineSound, WalkSound, GoTo
<1>0. /\ line \in Seq(Text) /\ cursor \in 0..Len(line)
      /\ histIdx \in -1..(Len(history) - 1)
      /\ saved \in Seq(Text) /\ draft \in Seq(Text)
      /\ histIdx >= 0 => saved = draft
      /\ history \in Seq(Seq(Text))
  BY InvParts DEF HistorySound
<1>1. \A i \in 0..(Len(history) - 1) : Entry(i) \in Seq(Text)
  BY <1>0 DEF Entry
<1>2. CASE Up
  <2>1. history' = history
    BY <1>2 DEF Up
  <2>2. CASE history = <<>>
    BY <1>0, <1>2, <2>1, <2>2 DEF Up, lineVars, walkVars
  <2>3. CASE history # <<>>
    <3>1. /\ saved' = IF histIdx = -1 THEN line ELSE saved
          /\ draft' = IF histIdx = -1 THEN line ELSE draft
          /\ histIdx' = IF histIdx < Len(history) - 1 THEN histIdx + 1 ELSE histIdx
          /\ line' = Entry(histIdx') /\ cursor' = Len(Entry(histIdx'))
      BY <1>2, <2>3 DEF Up
    <3>2. Len(history) > 0
      BY <1>0, <2>3
    <3>3. histIdx' \in 0..(Len(history) - 1)
      BY <1>0, <3>1, <3>2
    <3>4. Entry(histIdx') \in Seq(Text)
      BY <1>1, <3>3
    <3>5. saved' = draft' /\ saved' \in Seq(Text)
      BY <1>0, <3>1
    <3> QED
      BY <1>0, <2>1, <3>1, <3>3, <3>4, <3>5
  <2> QED
    BY <2>2, <2>3
<1>3. CASE Down
  <2>1. history' = history
    BY <1>3 DEF Down
  <2>2. CASE histIdx < 0
    BY <1>0, <1>3, <2>1, <2>2 DEF Down, lineVars, walkVars
  <2>3. CASE ~(histIdx < 0)
    <3>1. /\ histIdx' = histIdx - 1 /\ saved' = saved /\ draft' = draft
          /\ line' = IF histIdx = 0 THEN saved ELSE Entry(histIdx')
          /\ cursor' = Len(IF histIdx = 0 THEN saved ELSE Entry(histIdx'))
      BY <1>3, <2>3 DEF Down
    <3>2. histIdx # 0 => Entry(histIdx') \in Seq(Text)
      BY <1>0, <1>1, <2>3, <3>1
    <3>3. line' \in Seq(Text)
      BY <1>0, <3>1, <3>2
    <3> QED
      BY <1>0, <2>1, <2>3, <3>1, <3>3
  <2> QED
    BY <2>2, <2>3
<1> QED
  BY <1>2, <1>3

LEMMA AddedSound ==
  ASSUME NEW h, HistorySound(h), NEW l \in Seq(Text)
  PROVE  HistorySound(Added(h, l))
<1> USE EditorAssumption DEF HistorySound
<1>1. CASE h # <<>> /\ Last(h) = l
  BY <1>1 DEF Added
<1>2. CASE ~(h # <<>> /\ Last(h) = l)
  <2>1. CASE Len(h) >= MaxSessionHistory
    <3>1. h # <<>>
      BY <2>1
    <3>2. Tail(h) \in Seq(Seq(Text)) /\ Len(Tail(h)) = Len(h) - 1
      BY <3>1
    <3> QED
      BY <1>2, <2>1, <3>2 DEF Added
  <2>2. CASE ~(Len(h) >= MaxSessionHistory)
    BY <1>2, <2>2 DEF Added
  <2> QED
    BY <2>1, <2>2
<1> QED
  BY <1>1, <1>2

\* The keys that end a line leave an empty one and no walk.
LEMMA EndKeys ==
  ASSUME EditorInv,
         EnterBlank \/ EnterLine \/ EnterFarewell \/ Interrupt \/ EndOfInput
  PROVE  /\ LineSound(line, cursor)' /\ WalkSound(history, histIdx, saved, draft)'
         /\ HistorySound(history)'
<1> USE DEF LineSound, WalkSound
<1>0. /\ line \in Seq(Text) /\ cursor \in 0..Len(line)
      /\ WalkSound(history, histIdx, saved, draft)
      /\ HistorySound(history)
  BY InvParts
<1>1. CASE EndOfInput
  BY <1>0, <1>1 DEF EndOfInput, lineVars, walkVars
<1>2. CASE ~EndOfInput
  <2>1. line' = <<>> /\ cursor' = 0 /\ histIdx' = -1 /\ saved' = saved /\ draft' = draft
    BY <1>2 DEF EnterBlank, EnterLine, EnterFarewell, Interrupt, ClearLine
  <2>2. HistorySound(history')
    <3>1. CASE EnterLine
      <4>1. history' = Added(IF line = Forget THEN <<>> ELSE history, line)
        BY <3>1 DEF EnterLine
      <4>2. HistorySound(<<>>)
        BY EditorAssumption DEF HistorySound
      <4> QED
        BY <1>0, <4>1, <4>2, AddedSound
    <3>2. CASE ~EnterLine
      BY <1>0, <1>2, <3>2 DEF EnterBlank, EnterFarewell, Interrupt
    <3> QED
      BY <3>1, <3>2
  <2>3. <<>> \in Seq(Text) /\ Len(history') \in Nat
    BY <2>2 DEF HistorySound
  <2> QED
    BY <1>0, <2>1, <2>2, <2>3
<1> QED
  BY <1>1, <1>2

LEMMA EscLimit == MaxEscLen \in Nat /\ MaxEscLen > 1
BY EditorAssumption

LEMMA EscapeSound ==
  ASSUME EditorInv, NEW b \in Keys, Edit(b)
  PROVE  EscSound(esc')
<1> USE EscLimit DEF EscSound
<1>0. esc \in Seq(Keys) /\ Len(esc) <= MaxEscLen
  BY InvParts
<1>1. <<>> \in Seq(Keys) /\ <<"esc">> \in Seq(Keys)
  BY DEF Keys
<1>2. CASE EscapeTooLong \/ EscapeEnds(b) \/ EscapeStarts
  <2>1. esc' = <<>> \/ esc' = <<"esc">>
    BY <1>2 DEF EscapeTooLong, EscapeEnds, EscapeStarts
  <2>2. Len(<<>>) = 0 /\ Len(<<"esc">>) = 1
    OBVIOUS
  <2>3. Len(esc') = 0 \/ Len(esc') = 1
    BY <2>1, <2>2
  <2>5. Len(esc') <= MaxEscLen
    BY <2>3
  <2>4. esc' \in Seq(Keys)
    BY <1>1, <2>1
  <2> QED
    BY <2>4, <2>5
<1>3. CASE EscapeOpens(b) \/ EscapeGoesOn(b)
  <2>1. Len(esc) < MaxEscLen
    BY <1>0, <1>3 DEF EscapeOpens, EscapeGoesOn
  <2>2. esc' = <<>> \/ esc' = Append(esc, b)
    BY <1>3 DEF EscapeOpens, EscapeGoesOn
  <2>3. CASE esc' = <<>>
    <3>1. Len(esc') = 0 /\ esc' \in Seq(Keys)
      BY <2>3
    <3> QED
      BY <3>1
  <2>4. CASE esc' = Append(esc, b)
    <3>1. esc' \in Seq(Keys) /\ Len(esc') = Len(esc) + 1 /\ Len(esc) \in Nat
      BY <1>0, <2>4
    <3> QED
      BY <2>1, <3>1
  <2> QED
    BY <2>2, <2>3, <2>4
<1>4. CASE Ready
  BY <1>0, <1>4 DEF Ready
<1> QED
  BY <1>2, <1>3, <1>4 DEF Edit

\* What an edit does to the line, the walk and the history.
LEMMA EditSound ==
  ASSUME EditorInv, NEW b \in Keys, Edit(b)
  PROVE  /\ LineSound(line, cursor)' /\ WalkSound(history, histIdx, saved, draft)'
         /\ HistorySound(history)'
<1>0. /\ LineSound(line, cursor) /\ WalkSound(history, histIdx, saved, draft)
      /\ HistorySound(history)
  BY InvParts
<1>1. CASE Nothing
  BY <1>0, <1>1 DEF Nothing, lineVars, walkVars, LineSound, WalkSound, HistorySound
<1>2. ASSUME Insert(b) \/ Backspace \/ Del \/ Right \/ Left \/ Home \/ End \/ Complete
      PROVE  /\ LineSound(line, cursor)' /\ WalkSound(history, histIdx, saved, draft)'
             /\ HistorySound(history)'
  BY <1>0, <1>2, LineKeys DEF walkVars, WalkSound, HistorySound
<1>3. ASSUME Up \/ Down
      PROVE  /\ LineSound(line, cursor)' /\ WalkSound(history, histIdx, saved, draft)'
             /\ HistorySound(history)'
  BY <1>0, <1>3, WalkKeys DEF HistorySound
<1>4. CASE Interrupt \/ EnterBlank
  BY <1>4, EndKeys
<1>5. CASE EscapeEnds(b)
  <2>1. HandleEsc(Append(After(esc, 2), b))
    BY <1>5 DEF EscapeEnds
  <2>2. \/ Up \/ Down
        \/ Insert(b) \/ Backspace \/ Del \/ Right \/ Left \/ Home \/ End \/ Complete
        \/ Nothing
    BY <2>1 DEF HandleEsc
  <2> QED
    BY <1>1, <1>2, <1>3, <2>2
<1>6. CASE EscapeTooLong \/ EscapeOpens(b) \/ EscapeGoesOn(b) \/ EscapeStarts
  BY <1>1, <1>6 DEF EscapeTooLong, EscapeOpens, EscapeGoesOn, EscapeStarts
<1> QED
  BY <1>2, <1>4, <1>5, <1>6 DEF Edit

LEMMA StepEditor == EditorInv /\ [EditorNext]_editorVars => EditorInv'
<1> SUFFICES ASSUME EditorInv, [EditorNext]_editorVars PROVE EditorInv'
  OBVIOUS
<1>1. CASE UNCHANGED editorVars \/ Around
  BY <1>1, NothingKeeps DEF editorVars, Around
<1>2. ASSUME NEW b \in Keys, Edit(b)
      PROVE  EditorInv'
  BY <1>2, EditSound, EscapeSound, InvPartsNext
<1>3. ASSUME NEW b \in Keys, RunLine(b) \/ Leave(b)
      PROVE  EditorInv'
  <2>1. EnterBlank \/ EnterLine \/ EnterFarewell \/ Interrupt \/ EndOfInput
    BY <1>3 DEF RunLine, Leave
  <2>2. EscSound(esc')
    BY <1>3, InvParts DEF RunLine, Leave, Ready, EscSound
  <2> QED
    BY <2>1, <2>2, EndKeys, InvPartsNext
<1> QED
  BY <1>1, <1>2, <1>3 DEF EditorNext

LEMMA EditorInvariant == EditorSpec => []EditorInv
<1>1. EditorInit => EditorInv
  BY EditorAssumption DEF EditorInit, EditorInv, EditorTypeOK, EditorSound
<1> QED
  BY <1>1, StepEditor, PTL DEF EditorSpec

\* No index of the editor leaves what it indexes, whatever is typed, pasted, completed or
\* taken from a history that is cut and cleared, and the line that a walk through the
\* history comes back to is the one it began with.
THEOREM EditorStaysSound == Spec => []EditorSound
<1>1. EditorInv => EditorSound
  BY DEF EditorInv
<1> QED
  BY <1>1, ShellImplementsParts, EditorInvariant, PTL

\* The types of the editor's variables.
THEOREM EditorTypes == Spec => []EditorTypeOK
<1>1. EditorInv => EditorTypeOK
  BY DEF EditorInv
<1> QED
  BY <1>1, ShellImplementsParts, EditorInvariant, PTL

------------------------------------------------------------------------------
(***************************************************************************)
(* The channel.  A chunk is in dataCh or with the reader, and the numbers  *)
(* follow on those that were handled.                                      *)
(***************************************************************************)
Waiting == IF dataCh = <<>> \/ dataCh = <<EOF>> THEN 0 ELSE 1

ChunksInv ==
  /\ read \in Nat /\ handled \in Seq(Nat)
  /\ dataCh = <<>> \/ dataCh = <<EOF>> \/ dataCh = <<Len(handled) + 1>>
  /\ pc = "requests" => reader = "none"
  /\ reader \in {"none", "reading", "offering", "stopped"}
  /\ reader = "none" => read = 0 /\ handled = <<>>
  /\ reader \in {"none", "reading", "offering"} => dataCh # <<EOF>>
  /\ reader \in {"none", "reading"} => read = Len(handled) + Waiting
  /\ reader = "offering" => read = Len(handled) + Waiting + 1
  /\ InputInOrder

\* An armed timer counts down what is missing to a full Timeout; a tick means it has passed.
TimerInv ==
  /\ left \in Nat /\ since \in Nat
  /\ timer \in {"off", "armed", "fired"}
  /\ timer = "armed" => left + since = Timeout
  /\ timer = "fired" => since >= Timeout

LEMMA StepChunks == ChunksInv /\ [ChannelNext]_channelVars => ChunksInv'
<1> SUFFICES ASSUME ChunksInv, [ChannelNext]_channelVars PROVE ChunksInv'
  OBVIOUS
<1> USE DEF ChunksInv, InputInOrder, Waiting, EOF
<1>1. ASSUME UNCHANGED <<readerVars, dataCh, handled>>,
             pc' = "requests" => pc = "requests"
      PROVE  ChunksInv'
  BY <1>1 DEF readerVars
<1>2. CASE TakeChunk
  <2>1. /\ dataCh = <<Len(handled) + 1>> /\ dataCh' = <<>>
        /\ handled' = handled \o <<Len(handled) + 1>>
        /\ UNCHANGED <<read, reader>> /\ pc' = "processing"
    BY <1>2 DEF TakeChunk, readerVars
  <2>2. /\ handled' \in Seq(Nat) /\ Len(handled') = Len(handled) + 1
        /\ \A i \in 1..Len(handled) : handled'[i] = handled[i]
        /\ handled'[Len(handled) + 1] = Len(handled) + 1
    BY <2>1
  <2>3. reader # "none"
    BY <2>1
  <2>4. Waiting = 1 /\ Waiting' = 0
    BY <2>1
  <2> QED
    BY <2>1, <2>2, <2>3, <2>4
<1>3. CASE TakeEOF
  <2>1. /\ dataCh = <<EOF>> /\ dataCh' = <<>> /\ pc' = "closing"
        /\ UNCHANGED <<read, reader, handled>>
    BY <1>3 DEF TakeEOF, readerVars
  <2> QED
    BY <2>1
<1>4. CASE Shell
  BY <1>4 DEF Shell
<1>5. CASE ReadChunk
  BY <1>5 DEF ReadChunk
<1>6. CASE OfferChunk
  <2>1. /\ reader = "offering" /\ dataCh = <<>> /\ dataCh' = <<read>> /\ reader' = "reading"
        /\ UNCHANGED <<pc, read, handled>>
    BY <1>6 DEF OfferChunk
  <2>2. read = Len(handled) + 1
    BY <2>1
  <2> QED
    BY <2>1, <2>2
<1>7. CASE OfferAbandoned
  BY <1>7 DEF OfferAbandoned, InShell
<1>8. CASE ReadFails
  <2>1. /\ reader' = "stopped" /\ UNCHANGED <<pc, read, handled>> /\ reader = "reading"
        /\ dataCh' = IF dataCh = <<>> THEN <<EOF>> ELSE dataCh
    BY <1>8 DEF ReadFails
  <2> QED
    BY <2>1
<1>9. CASE \/ PtyReq \/ Exec \/ Sftp \/ UnknownSubsystem \/ Panic
           \/ ExecEnds \/ SftpEnds \/ RequestsEnd \/ CloseSession \/ IdleExpires
           \/ RunCommand \/ InputDone \/ Logout
           \/ Type \/ Hangup \/ TimerFires \/ TimePasses
           \/ UNCHANGED channelVars
  <2>1. UNCHANGED <<readerVars, dataCh, handled>>
    BY <1>9 DEF PtyReq, Exec, Sftp, UnknownSubsystem, Panic, ExecEnds, SftpEnds,
                RequestsEnd, CloseSession, IdleExpires, RunCommand, InputDone, Logout,
                Type, Hangup, TimerFires, TimePasses, channelVars
  <2>2. pc' = "requests" => pc = "requests"
    BY <1>9 DEF PtyReq, Exec, Sftp, UnknownSubsystem, Panic, ExecEnds, SftpEnds,
                RequestsEnd, CloseSession, IdleExpires, RunCommand, InputDone, Logout,
                Type, Hangup, TimerFires, TimePasses, channelVars
  <2> QED
    BY <1>1, <2>1, <2>2
<1> QED
  BY <1>2, <1>3, <1>4, <1>5, <1>6, <1>7, <1>8, <1>9
     DEF ChannelNext, HandlerStep, ProgramEnds, ReaderStep

LEMMA TimeoutIsNat == Timeout \in Nat
BY ChannelAssumption

LEMMA StepTimer ==
  TimerInv /\ [ChannelNext]_channelVars => TimerInv' /\ (IdleExpires => since >= Timeout)
<1> SUFFICES ASSUME TimerInv, [ChannelNext]_channelVars
             PROVE  TimerInv' /\ (IdleExpires => since >= Timeout)
  OBVIOUS
<1> USE TimeoutIsNat DEF TimerInv
<1>1. IdleExpires => since >= Timeout
  BY DEF IdleExpires
<1>2. CASE SetTimer
  BY <1>1, <1>2 DEF SetTimer
<1>3. CASE StopTimer
  BY <1>1, <1>3 DEF StopTimer
<1>4. CASE UNCHANGED timerVars
  BY <1>1, <1>4 DEF timerVars
<1>5. CASE TimerFires
  BY <1>1, <1>5 DEF TimerFires
<1>6. CASE TimePasses
  BY <1>1, <1>6 DEF TimePasses
<1>7. ASSUME ~TimerFires, ~TimePasses
      PROVE  SetTimer \/ StopTimer \/ UNCHANGED timerVars
  BY <1>7 DEF ChannelNext, HandlerStep, ProgramEnds, ReaderStep, PtyReq, Exec, Shell, Sftp,
              UnknownSubsystem, Panic, ExecEnds, SftpEnds, RequestsEnd, CloseSession,
              IdleExpires, RunCommand, InputDone, Logout, Type, Hangup, TakeChunk, TakeEOF,
              ReadChunk, OfferChunk, OfferAbandoned, ReadFails, channelVars
<1> QED
  BY <1>1, <1>2, <1>3, <1>4, <1>5, <1>6, <1>7

\* Every chunk reaches process once and in order, whatever the interleaving of reader,
\* handler, timer and client.
THEOREM InputStaysInOrder == Spec => []InputInOrder
<1>1. ChannelInit => ChunksInv
  BY DEF ChannelInit, ChunksInv, Waiting, EOF, InputInOrder
<1>2. ChunksInv => InputInOrder
  BY DEF ChunksInv
<1> QED
  BY <1>1, <1>2, StepChunks, ShellImplementsParts, PTL DEF ChannelSpec

\* The shell is never closed for idleness before a full Timeout has passed since the last
\* input was handled.
THEOREM IdleIsQuiet == Spec => IdleMeansQuiet
<1>1. ChannelInit => TimerInv
  BY TimeoutIsNat DEF ChannelInit, TimerInv
<1>2. TimerInv /\ [ChannelNext]_channelVars
        => [IdleExpires => since >= Timeout]_channelVars
  BY StepTimer
<1>3. TimerInv /\ [ChannelNext]_channelVars => TimerInv'
  BY StepTimer
<1> QED
  BY <1>1, <1>2, <1>3, ShellImplementsParts, PTL DEF ChannelSpec, IdleMeansQuiet
------------------------------------------------------------------------------
(***************************************************************************)
(* The record.  What the events say of the session agrees with what the    *)
(* handler holds of it.                                                    *)
(***************************************************************************)
Kinds == {"opened", "command", "closed"}
Positions(s, k) == {i \in 1..Len(s) : s[i] = k}

LEMMA PositionsFinite ==
  ASSUME NEW s \in Seq(Kinds), NEW k
  PROVE  IsFiniteSet(Positions(s, k)) /\ Cardinality(Positions(s, k)) \in Nat
<1>1. IsFiniteSet(1..Len(s))
  BY FS_Interval
<1>2. Positions(s, k) \in SUBSET (1..Len(s))
  BY DEF Positions
<1> QED
  BY <1>1, <1>2, FS_Subset, FS_CardinalityType

LEMMA CountOne ==
  ASSUME NEW s \in Seq(Kinds), NEW e \in Kinds, NEW k \in Kinds
  PROVE  Cardinality(Positions(Append(s, e), k))
           = Cardinality(Positions(s, k)) + (IF e = k THEN 1 ELSE 0)
<1> DEFINE t == Append(s, e)
<1>1. /\ Len(s) \in Nat /\ Len(t) = Len(s) + 1 /\ t[Len(s) + 1] = e
      /\ \A i \in 1..Len(s) : t[i] = s[i]
  OBVIOUS
<1>2. IsFiniteSet(Positions(s, k)) /\ Cardinality(Positions(s, k)) \in Nat
  BY PositionsFinite
<1>3. CASE e = k
  <2>1. Positions(t, k) = Positions(s, k) \union {Len(s) + 1}
    BY <1>1, <1>3 DEF Positions
  <2>2. Len(s) + 1 \notin Positions(s, k)
    BY <1>1 DEF Positions
  <2> QED
    BY <1>2, <1>3, <2>1, <2>2, FS_AddElement
<1>4. CASE e # k
  <2>1. Positions(t, k) = Positions(s, k)
    BY <1>1, <1>4 DEF Positions
  <2> QED
    BY <1>2, <1>4, <2>1
<1> QED
  BY <1>3, <1>4

LEMMA CountAppend ==
  ASSUME NEW e \in Kinds, events \in Seq(Kinds), events' = Append(events, e)
  PROVE  /\ events' \in Seq(Kinds)
         /\ \A k \in Kinds : Count(k)' = Count(k) + (IF e = k THEN 1 ELSE 0)
BY CountOne DEF Count, Positions

LEMMA CountTypes ==
  ASSUME events \in Seq(Kinds)
  PROVE  \A k \in Kinds : Count(k) \in Nat
BY PositionsFinite DEF Count, Positions

Opened == Count("opened")
Executed == Count("command")
Closed == Count("closed")

\* What the events say: nothing, open, or open and closed again.
Tally(o, c) == c \in Nat /\ o \in Nat /\ c <= o /\ o <= 1

RecordInv ==
  /\ events \in Seq(Kinds)
  /\ Tally(Opened, Closed) /\ Executed \in Nat
  /\ kept \in BOOLEAN /\ recording \in BOOLEAN
  /\ sess \in {"none", "shell", "exec", "subsystem"}
  /\ kept <=> sess # "none"
  /\ kept <=> (Opened = 1 /\ Closed = 0)
  /\ recording => kept
  /\ pc = "requests" /\ ~kept => Opened = 0
  /\ pc \in {"executing", "shell", "processing", "sftp"} => kept
  /\ pc = "returned" /\ ending = "none" => ~kept
  /\ ending # "none" => pc = "returned"

\* The steps of the record, as the handler makes them.
RecordOpens ==
  /\ ~kept /\ pc = "requests"
  /\ Opened' = 1 /\ Closed' = 0 /\ Executed' = Executed /\ kept' /\ sess' # "none"
RecordKeeps == UNCHANGED <<sess, kept, recording, events>>

Skeleton ==
  \/ /\ pc = "requests" /\ pc' \in {"requests", "executing", "shell", "sftp"}
     /\ \E k \in {"shell", "exec", "subsystem"} : CreateSession(k)
     /\ UNCHANGED ending
  \/ /\ pc = "processing" \/ pc = "executing"
     /\ pc' = "closing" \/ pc' = pc
     /\ events' = Append(events, "command") /\ UNCHANGED <<sess, kept, recording, ending>>
  \/ CloseSession
  \/ RecordKeeps /\ UnknownSubsystem
  \/ RecordKeeps /\ pc' = "returned" /\ ending' = "panic"
  \/ /\ RecordKeeps /\ UNCHANGED ending
     /\ \/ pc' = pc
        \/ pc' = "closing" /\ pc # "returned"
        \/ pc \in {"shell", "processing"} /\ pc' \in {"shell", "processing"}

LEMMA StepSkeleton == [ChannelNext]_channelVars => Skeleton
<1> USE DEF Skeleton, RecordKeeps, sessVars
<1>1. CASE PtyReq \/ Exec \/ Shell \/ Sftp
  BY <1>1 DEF PtyReq, Exec, Shell, Sftp
<1>2. CASE UnknownSubsystem
  BY <1>2 DEF UnknownSubsystem
<1>3. CASE ExecEnds \/ RunCommand
  BY <1>3 DEF ExecEnds, RunCommand
<1>4. CASE CloseSession
  BY <1>4
<1>5. CASE Panic
  BY <1>5 DEF Panic
<1>6. CASE RequestsEnd \/ SftpEnds \/ TakeEOF \/ IdleExpires \/ Logout
  BY <1>6 DEF RequestsEnd, SftpEnds, TakeEOF, IdleExpires, Logout
<1>7. CASE TakeChunk \/ InputDone
  BY <1>7 DEF TakeChunk, InputDone
<1>8. CASE ReaderStep \/ Type \/ Hangup \/ TimerFires \/ TimePasses \/ UNCHANGED channelVars
  BY <1>8 DEF ReaderStep, ReadChunk, OfferChunk, OfferAbandoned, ReadFails, Type, Hangup,
              TimerFires, TimePasses, channelVars
<1> QED
  BY <1>1, <1>2, <1>3, <1>4, <1>5, <1>6, <1>7, <1>8 DEF ChannelNext, HandlerStep, ProgramEnds

LEMMA CountKeeps == UNCHANGED events => \A k : Count(k)' = Count(k)
BY DEF Count

\* What a step does to the record: it opens, executes, closes, or leaves it alone.
LEMMA StepRecord ==
  ASSUME RecordInv, [ChannelNext]_channelVars
  PROVE  /\ RecordInv'
         /\ \/ RecordOpens
            \/ kept /\ kept' /\ Executed' = Executed + 1 /\ UNCHANGED <<Opened, Closed>>
            \/ kept /\ ~kept' /\ Closed' = 1 /\ UNCHANGED <<Opened, Executed>>
            \/ UNCHANGED <<kept, Opened, Closed, Executed>>
<1>1. Skeleton
  BY StepSkeleton
<1>2. Opened \in Nat /\ Executed \in Nat /\ Closed \in Nat
  BY DEF RecordInv, Tally
<1>3. ASSUME RecordKeeps
      PROVE  UNCHANGED <<kept, Opened, Closed, Executed, events, sess, recording>>
  BY <1>3, CountKeeps DEF RecordKeeps, Opened, Closed, Executed
<1>4. ASSUME NEW e \in Kinds, events' = Append(events, e)
      PROVE  /\ events' \in Seq(Kinds)
             /\ Opened' = IF e = "opened" THEN Opened + 1 ELSE Opened
             /\ Executed' = IF e = "command" THEN Executed + 1 ELSE Executed
             /\ Closed' = IF e = "closed" THEN Closed + 1 ELSE Closed
  BY <1>2, <1>4, CountAppend DEF RecordInv, Opened, Closed, Executed, Kinds
<1>5. CASE /\ pc = "requests" /\ pc' \in {"requests", "executing", "shell", "sftp"}
           /\ \E k \in {"shell", "exec", "subsystem"} : CreateSession(k)
           /\ UNCHANGED ending
  <2>1. CASE sess = "none"
    <3>1. events' = Append(events, "opened") /\ kept' = TRUE /\ recording' \in BOOLEAN
          /\ sess' \in {"shell", "exec", "subsystem"}
      BY <1>5, <2>1 DEF CreateSession
    <3>2. events' \in Seq(Kinds) /\ Opened' = Opened + 1 /\ Executed' = Executed
          /\ Closed' = Closed
      BY <1>4, <3>1 DEF Kinds
    <3>3. Opened = 0 /\ Closed = 0
      BY <1>5, <2>1 DEF RecordInv, Tally
    <3> QED
      BY <1>2, <1>5, <2>1, <3>1, <3>2, <3>3 DEF RecordInv, Tally, RecordOpens
  <2>2. CASE sess # "none"
    <3>1. RecordKeeps
      BY <1>5, <2>2 DEF CreateSession, RecordKeeps, sessVars
    <3> QED
      BY <1>3, <1>5, <2>2, <3>1 DEF RecordInv
  <2> QED
    BY <2>1, <2>2
<1>6. CASE /\ pc = "processing" \/ pc = "executing"
           /\ pc' = "closing" \/ pc' = pc
           /\ events' = Append(events, "command")
           /\ UNCHANGED <<sess, kept, recording, ending>>
  <2>1. events' \in Seq(Kinds) /\ Opened' = Opened /\ Executed' = Executed + 1
        /\ Closed' = Closed
    BY <1>4, <1>6 DEF Kinds
  <2> QED
    BY <1>2, <1>6, <2>1 DEF RecordInv, Tally
<1>7. CASE CloseSession
  <2>1. CASE sess = "none"
    <3>1. RecordKeeps /\ pc' = "returned" /\ UNCHANGED ending
      BY <1>7, <2>1 DEF CloseSession, RecordKeeps, RecordInv
    <3> QED
      BY <1>3, <2>1, <3>1 DEF RecordInv
  <2>2. CASE sess # "none"
    <3>1. events' = Append(events, "closed")
          /\ ~kept' /\ kept' \in BOOLEAN /\ ~recording' /\ recording' \in BOOLEAN
          /\ sess' = "none" /\ pc' = "returned" /\ UNCHANGED ending /\ pc = "closing"
      BY <1>7, <2>2 DEF CloseSession
    <3>2. events' \in Seq(Kinds) /\ Opened' = Opened /\ Executed' = Executed
          /\ Closed' = Closed + 1
      BY <1>4, <3>1 DEF Kinds
    <3>3. Opened = 1 /\ Closed = 0 /\ kept
      BY <2>2 DEF RecordInv
    <3>4. Opened' = 1 /\ Closed' = 1 /\ UNCHANGED <<Opened, Executed>>
      BY <3>2, <3>3
    <3>5. Executed' \in Nat /\ Tally(Opened, Closed)'
      BY <1>2, <3>2, <3>4 DEF Tally
    <3>6. ending = "none"
      BY <3>1 DEF RecordInv
    <3>7. RecordInv'
      BY <3>1, <3>2, <3>4, <3>5, <3>6 DEF RecordInv
    <3> QED
      BY <3>1, <3>3, <3>4, <3>7
  <2> QED
    BY <2>1, <2>2
<1>8. CASE RecordKeeps /\ UnknownSubsystem
  BY <1>3, <1>8 DEF RecordInv, UnknownSubsystem
<1>9. CASE RecordKeeps /\ pc' = "returned" /\ ending' = "panic"
  BY <1>3, <1>9 DEF RecordInv
<1>10. CASE /\ RecordKeeps /\ UNCHANGED ending
            /\ \/ pc' = pc
               \/ pc' = "closing" /\ pc # "returned"
               \/ pc \in {"shell", "processing"} /\ pc' \in {"shell", "processing"}
  BY <1>3, <1>10 DEF RecordInv
<1> QED
  BY <1>1, <1>5, <1>6, <1>7, <1>8, <1>9, <1>10 DEF Skeleton

LEMMA RecordStarts ==
  ASSUME ChannelInit
  PROVE  RecordInv /\ Opened = 0 /\ Closed = 0 /\ Executed = 0
<1>1. events = <<>> /\ events \in Seq(Kinds)
  BY DEF ChannelInit
<1>2. \A k : Positions(<<>>, k) = {}
  BY DEF Positions
<1>3. Opened = 0 /\ Closed = 0 /\ Executed = 0
  BY <1>1, <1>2, FS_EmptySet DEF Opened, Closed, Executed, Count, Positions
<1>4. /\ pc = "requests" /\ sess = "none" /\ ending = "none"
      /\ ~kept /\ kept \in BOOLEAN /\ ~recording /\ recording \in BOOLEAN
  BY DEF ChannelInit
<1>5. Tally(Opened, Closed) /\ Executed \in Nat
  BY <1>3 DEF Tally
<1> QED
  BY <1>1, <1>3, <1>4, <1>5 DEF RecordInv

LEMMA RecordInvariant == ChannelSpec => []RecordInv
<1>1. ChannelInit => RecordInv
  BY RecordStarts
<1>2. RecordInv /\ [ChannelNext]_channelVars => RecordInv'
  BY StepRecord
<1> QED
  BY <1>1, <1>2, PTL DEF ChannelSpec

\* A handler that has returned by way of closeSession has left no executor state, no open
\* recording and no session without its closed event, however the session began and ended.
THEOREM ReturnsClean == Spec => []NothingLeftBehind
<1>1. RecordInv => NothingLeftBehind
  BY DEF RecordInv, NothingLeftBehind, Opened, Closed, Tally
<1> QED
  BY <1>1, RecordInvariant, ShellImplementsParts, PTL

\* The types that the invariants so far leave open: a reader has read no more than was
\* typed, and when it has stopped there is still nothing handled or waiting that it did not
\* read.
WithinInv ==
  /\ pc \in {"requests", "executing", "shell", "processing", "sftp", "closing", "returned"}
  /\ ending \in {"none", "panic", "refused"}
  /\ client \in {"open", "closed"}
  /\ typed \in 0..MaxChunks /\ read \in 0..typed
  /\ Len(handled) + Waiting <= read
  /\ left \in 0..Timeout /\ since \in 0..Timeout

LEMMA StepWithin ==
  ASSUME ChunksInv, ChunksInv', WithinInv, [ChannelNext]_channelVars
  PROVE  WithinInv'
<1> USE ChannelAssumption
<1>1. /\ pc' \in {"requests", "executing", "shell", "processing", "sftp", "closing", "returned"}
      /\ ending' \in {"none", "panic", "refused"}
      /\ client' \in {"open", "closed"}
  BY DEF WithinInv, ChannelNext, HandlerStep, ProgramEnds, ReaderStep, PtyReq, Exec, Shell, Sftp,
         UnknownSubsystem, Panic, ExecEnds, SftpEnds, RequestsEnd, CloseSession,
         IdleExpires, RunCommand, InputDone, Logout, Type, Hangup, TakeChunk, TakeEOF,
         ReadChunk, OfferChunk, OfferAbandoned, ReadFails, TimerFires, TimePasses,
         clientVars, channelVars
<1>2. typed' \in 0..MaxChunks /\ read' \in 0..typed'
  <2>1. CASE Type
    BY <2>1 DEF WithinInv, Type, readerVars
  <2>2. CASE ReadChunk
    BY <2>2 DEF WithinInv, ReadChunk, clientVars
  <2>3. CASE UNCHANGED <<typed, read>>
    BY <2>3 DEF WithinInv
  <2>4. ~Type /\ ~ReadChunk => UNCHANGED <<typed, read>>
    BY DEF ChannelNext, HandlerStep, ProgramEnds, ReaderStep, PtyReq, Exec, Shell, Sftp,
           UnknownSubsystem, Panic, ExecEnds, SftpEnds, RequestsEnd, CloseSession,
           IdleExpires, RunCommand, InputDone, Logout, Hangup, TakeChunk, TakeEOF,
           OfferChunk, OfferAbandoned, ReadFails, TimerFires, TimePasses,
           clientVars, readerVars, channelVars
  <2> QED
    BY <2>1, <2>2, <2>3, <2>4
<1>3. left' \in 0..Timeout /\ since' \in 0..Timeout
  <2>1. CASE SetTimer \/ StopTimer
    BY <2>1 DEF SetTimer, StopTimer
  <2>2. CASE TimePasses
    BY <2>2 DEF WithinInv, TimePasses
  <2>3. CASE UNCHANGED <<left, since>>
    BY <2>3 DEF WithinInv
  <2>4. ~TimePasses => SetTimer \/ StopTimer \/ UNCHANGED <<left, since>>
    BY DEF ChannelNext, HandlerStep, ProgramEnds, ReaderStep, PtyReq, Exec, Shell, Sftp,
           UnknownSubsystem, Panic, ExecEnds, SftpEnds, RequestsEnd, CloseSession,
           IdleExpires, RunCommand, InputDone, Logout, Type, Hangup, TakeChunk, TakeEOF,
           ReadChunk, OfferChunk, OfferAbandoned, ReadFails, TimerFires, timerVars, channelVars
  <2> QED
    BY <2>1, <2>2, <2>3, <2>4
<1>4. Len(handled') + Waiting' <= read'
  <2>1. CASE reader' # "stopped"
    BY <2>1, <1>2 DEF ChunksInv, Waiting
  <2>2. CASE OfferAbandoned
    BY <2>2 DEF WithinInv, OfferAbandoned, Waiting
  <2>3. CASE ReadFails
    BY <2>3 DEF WithinInv, ReadFails, Waiting, EOF
  <2>4. CASE TakeChunk
    <3>1. /\ dataCh = <<Len(handled) + 1>> /\ dataCh' = <<>>
          /\ handled' = handled \o <<Len(handled) + 1>> /\ read' = read
      BY <2>4 DEF ChunksInv, TakeChunk, readerVars, EOF
    <3>2. Len(handled) \in Nat /\ Len(handled') = Len(handled) + 1
      BY <3>1 DEF ChunksInv
    <3>3. Waiting = 1 /\ Waiting' = 0
      BY <3>1, <3>2 DEF Waiting, EOF
    <3> QED
      BY <3>1, <3>2, <3>3 DEF WithinInv
  <2>5. CASE TakeEOF
    BY <2>5 DEF WithinInv, TakeEOF, Waiting, readerVars
  <2>6. CASE UNCHANGED <<dataCh, handled, read>>
    BY <2>6 DEF WithinInv, Waiting
  <2>7. \/ reader' # "stopped" \/ OfferAbandoned \/ ReadFails \/ TakeChunk \/ TakeEOF
        \/ UNCHANGED <<dataCh, handled, read>>
    BY DEF ChannelNext, HandlerStep, ProgramEnds, ReaderStep, PtyReq, Exec, Shell, Sftp,
           UnknownSubsystem, Panic, ExecEnds, SftpEnds, RequestsEnd, CloseSession,
           IdleExpires, RunCommand, InputDone, Logout, Type, Hangup,
           ReadChunk, OfferChunk, TimerFires, TimePasses, readerVars, channelVars
  <2> QED
    BY <2>1, <2>2, <2>3, <2>4, <2>5, <2>6, <2>7
<1> QED
  BY <1>1, <1>2, <1>3, <1>4 DEF WithinInv

\* The variables of the channel have their types: what waits in dataCh is one chunk or the
\* end, no chunk is handled that was not typed, and a timer has never more to go than Timeout.
THEOREM ChannelTypes == Spec => []ChannelTypeOK
<1>1. ChannelInit => ChunksInv /\ WithinInv /\ TimerInv
  <2> SUFFICES ASSUME ChannelInit PROVE ChunksInv /\ WithinInv /\ TimerInv
    OBVIOUS
  <2>1. ChunksInv
    BY DEF ChannelInit, ChunksInv, Waiting, EOF, InputInOrder
  <2>2. Len(handled) + Waiting <= read
    BY DEF ChannelInit, Waiting
  <2> QED
    BY <2>1, <2>2, ChannelAssumption DEF ChannelInit, WithinInv, TimerInv
<1>2. ChunksInv /\ WithinInv /\ TimerInv /\ [ChannelNext]_channelVars
        => ChunksInv' /\ WithinInv' /\ TimerInv'
  BY StepChunks, StepWithin, StepTimer
<1>3. ASSUME ChunksInv, WithinInv, TimerInv, RecordInv
      PROVE  ChannelTypeOK
  <2>1. Len(handled) \in Nat /\ handled \in Seq(Nat) /\ Waiting \in {0, 1}
        /\ typed \in 0..MaxChunks /\ read \in 0..typed /\ Len(handled) + Waiting <= read
    BY <1>3 DEF ChunksInv, WithinInv, Waiting
  <2>2. Len(handled) <= MaxChunks /\ Len(handled) + Waiting <= MaxChunks
    BY <2>1, ChannelAssumption
  <2>3. \A i \in 1..Len(handled) : handled[i] \in 1..MaxChunks
    BY <2>1, <2>2, <1>3, ChannelAssumption DEF ChunksInv, InputInOrder
  <2>4. handled \in Seq(1..MaxChunks)
    <3>1. handled = [i \in 1..Len(handled) |-> handled[i]]
      BY <2>1
    <3>2. Len(handled) \in Nat /\ handled \in [1..Len(handled) -> 1..MaxChunks]
      BY <2>1, <2>3, <3>1
    <3> QED
      BY <3>2, SeqDef
  <2>5. dataCh \in {<<>>} \union {<<n>> : n \in 0..MaxChunks}
    <3>1. CASE dataCh = <<>> \/ dataCh = <<EOF>>
      BY <3>1, ChannelAssumption DEF EOF
    <3>2. CASE ~(dataCh = <<>> \/ dataCh = <<EOF>>)
      <4>1. Waiting = 1 /\ dataCh = <<Len(handled) + 1>>
        BY <3>2, <1>3 DEF Waiting, ChunksInv
      <4>2. Len(handled) + 1 \in 0..MaxChunks
        BY <4>1, <2>1, <2>2, ChannelAssumption
      <4> QED BY <4>1, <4>2
    <3> QED BY <3>1, <3>2
  <2>6. events \in Seq({"opened", "command", "closed"})
    BY <1>3 DEF RecordInv, Kinds
  <2> QED
    BY <1>3, <2>4, <2>5, <2>6 DEF ChannelTypeOK, WithinInv, ChunksInv, TimerInv, RecordInv
<1>4. ChunksInv /\ WithinInv /\ TimerInv /\ RecordInv => ChannelTypeOK
  BY <1>3
<1> QED
  BY <1>1, <1>2, <1>4, RecordInvariant, ShellImplementsParts, PTL DEF ChannelSpec

\* The events of a session and the executor's entry for it are what SessionRecord promises.
THEOREM ShellKeepsRecord == Spec => ImplementsRecord
<1>1. ASSUME ChannelInit
      PROVE  Promise!RecordInit
  <2>1. Opened = 0 /\ Closed = 0 /\ Executed = 0
    BY <1>1, RecordStarts
  <2>2. kept = FALSE
    BY <1>1 DEF ChannelInit
  <2> QED
    BY <2>1, <2>2 DEF Promise!RecordInit, Opened, Closed, Executed
<1>2. ASSUME RecordInv, [ChannelNext]_channelVars
      PROVE  Promise!RecordNext \/ UNCHANGED Promise!recordVars
  <2>1. /\ Tally(Opened, Closed) /\ Tally(Opened, Closed)'
        /\ kept <=> (Opened = 1 /\ Closed = 0)
        /\ (kept <=> (Opened = 1 /\ Closed = 0))'
        /\ kept' \in BOOLEAN /\ kept \in BOOLEAN
        /\ pc = "requests" /\ ~kept => Opened = 0
    BY <1>2, StepRecord DEF RecordInv
  <2>2. CASE RecordOpens
    BY <2>1, <2>2
       DEF RecordOpens, Promise!RecordNext, Promise!Opens, Tally, Opened, Closed, Executed
  <2>3. CASE kept /\ kept' /\ Executed' = Executed + 1 /\ UNCHANGED <<Opened, Closed>>
    BY <2>1, <2>3 DEF Promise!RecordNext, Promise!Executes, Tally, Opened, Closed, Executed
  <2>4. CASE kept /\ ~kept' /\ Closed' = 1 /\ UNCHANGED <<Opened, Executed>>
    BY <2>1, <2>4 DEF Promise!RecordNext, Promise!Closes, Tally, Opened, Closed, Executed
  <2>5. CASE UNCHANGED <<kept, Opened, Closed, Executed>>
    BY <2>5 DEF Promise!recordVars, Opened, Closed, Executed
  <2> QED
    BY <1>2, <2>2, <2>3, <2>4, <2>5, StepRecord
<1>3. RecordInv /\ [ChannelNext]_channelVars => [Promise!RecordNext]_(Promise!recordVars)
  BY <1>2
<1> QED
  BY <1>1, <1>3, RecordInvariant, ShellImplementsParts, PTL
     DEF ChannelSpec, ImplementsRecord, Promise!RecordSpec

------------------------------------------------------------------------------
(***************************************************************************)
(* The recording.  It follows the client frame by frame until it is full;  *)
(* only the last word of the shell goes to the client alone.               *)
(***************************************************************************)
\* Induction on the naturals, for a set.
LEMMA Induction ==
  ASSUME NEW X, 0 \in X, \A i \in Nat : i \in X => i + 1 \in X
  PROVE  \A i \in Nat : i \in X
<1> DEFINE Y == Nat \ X
<1> SUFFICES ASSUME Y # {} PROVE FALSE
  OBVIOUS
<1>1. PICK m \in Y : \A y \in Y : ~ <<y, m>> \in OpToRel(<, Nat)
  <2>1. Y \subseteq Nat
    OBVIOUS
  <2> HIDE DEF Y
  <2> QED BY <2>1, NatLessThanWellFounded, WFMin
<1>2. \A y \in Y : ~ y < m
  BY <1>1 DEF OpToRel
<1>3. m - 1 \in Nat /\ m - 1 \in X /\ (m - 1) + 1 = m
  BY <1>2
<1> QED BY <1>3

\* The frames in the file are the first ones; "behind" of them at most are missing before
\* the file is full.
Follows(t, behind) ==
  /\ t = [on |-> t.on, frames |-> t.frames, kept |-> t.kept, written |-> t.written]
  /\ t.frames \in Nat
  /\ t.on => \E n \in 0..t.frames : t.kept = 1..n /\ (~Full(t) => n >= t.frames - behind)

LEMMA RecordFollows ==
  ASSUME NEW t, Follows(t, 0), NEW size
  PROVE  Follows(Record(t, size), 0) /\ Record(t, size).on = t.on
<1>1. CASE size = 0
  BY <1>1 DEF Record
<1>2. CASE size # 0 /\ (~t.on \/ Full(t))
  <2>1. Record(t, size) = [on |-> t.on, frames |-> t.frames + 1, kept |-> t.kept, written |-> t.written]
    BY <1>2 DEF Record, Unrecorded, Follows
  <2>2. t.on => Full(Record(t, size))
    BY <1>2, <2>1 DEF Full
  <2> QED BY <2>1, <2>2 DEF Follows
<1>3. CASE size # 0 /\ t.on /\ ~Full(t)
  <2>1. PICK w : Record(t, size) = [on |-> t.on, frames |-> t.frames + 1,
                                    kept |-> t.kept \union {t.frames + 1}, written |-> w]
    BY <1>3 DEF Record, Unrecorded, Follows
  <2>2. t.frames \in Nat /\ t.kept = 1..t.frames
    BY <1>3 DEF Follows
  <2>3. t.kept \union {t.frames + 1} = 1..(t.frames + 1)
    BY <2>2
  <2> QED BY <2>1, <2>2, <2>3 DEF Follows
<1> QED
  BY <1>1, <1>2, <1>3

LEMMA UnrecordedFollows ==
  ASSUME NEW t, Follows(t, 0)
  PROVE  Follows(Unrecorded(t), 1)
<1>1. Unrecorded(t) = [on |-> t.on, frames |-> t.frames + 1, kept |-> t.kept, written |-> t.written]
  BY DEF Unrecorded, Follows
<1>2. Full(Unrecorded(t)) = Full(t)
  BY <1>1 DEF Full
<1> QED
  BY <1>1, <1>2 DEF Follows

LEMMA NewTapeFollows ==
  ASSUME NEW on
  PROVE  Follows(NewTape(on), 0)
BY DEF NewTape, Follows

\* Any number of writes.
LEMMA EmitFollows ==
  ASSUME Follows(tape, 0), NEW sizes, Len(sizes) \in Nat, Emit(sizes)
  PROVE  Follows(tape', 0)
<1> DEFINE F(f, n) == [i \in 0..n |-> IF i = 0 THEN tape ELSE Record(f[i - 1], sizes[i])]
           X == {n \in Nat : \E f : f = F(f, n) /\ \A i \in 0..n : Follows(f[i], 0)}
<1>1. 0 \in X
  <2>1. [i \in 0..0 |-> tape] = F([i \in 0..0 |-> tape], 0)
    OBVIOUS
  <2> QED BY <2>1
<1>2. ASSUME NEW n \in Nat, n \in X PROVE n + 1 \in X
  <2>1. PICK f : f = F(f, n) /\ \A i \in 0..n : Follows(f[i], 0)
    BY <1>2
  <2> DEFINE last == Record(f[n], sizes[n + 1])
             g == [i \in 0..(n + 1) |-> IF i = n + 1 THEN last ELSE f[i]]
  <2>2. \A i \in 0..n : g[i] = f[i]
    OBVIOUS
  <2>3. g[n + 1] = last
    OBVIOUS
  <2>4. \A i \in 0..(n + 1) : Follows(g[i], 0)
    <3>1. Follows(last, 0)
      BY <2>1, RecordFollows
    <3> HIDE DEF last, g
    <3> QED BY <2>1, <2>2, <2>3, <3>1
  <2>5. ASSUME NEW i \in 0..(n + 1) PROVE g[i] = F(g, n + 1)[i]
    <3> HIDE DEF last, g
    <3>1. CASE i = 0
      <4>1. g[0] = f[0] /\ f[0] = F(f, n)[0]
        BY <2>1, <2>2
      <4> QED BY <3>1, <4>1
    <3>2. CASE i \in 1..n
      <4>1. g[i] = f[i] /\ f[i] = F(f, n)[i] /\ g[i - 1] = f[i - 1]
        BY <2>1, <2>2, <3>2
      <4> QED BY <3>2, <4>1
    <3>3. CASE i = n + 1
      <4>1. g[(n + 1) - 1] = f[n]
        BY <2>2
      <4> QED BY <2>3, <3>3, <4>1 DEF last
    <3> QED BY <3>1, <3>2, <3>3
  <2>6. g = F(g, n + 1)
    <3>1. g = [i \in 0..(n + 1) |-> g[i]]
      OBVIOUS
    <3> DEFINE h == F(g, n + 1)
    <3>2. h = [i \in 0..(n + 1) |-> h[i]]
      OBVIOUS
    <3>3. \A i \in 0..(n + 1) : g[i] = h[i]
      BY <2>5
    <3> HIDE DEF g, h
    <3>4. g = h
      BY <3>1, <3>2, <3>3
    <3> HIDE DEF F
    <3> QED BY <3>4 DEF h
  <2> HIDE DEF g, F
  <2>7. \E x : x = F(x, n + 1) /\ \A i \in 0..(n + 1) : Follows(x[i], 0)
    BY <2>4, <2>6
  <2> QED BY <2>7
<1>3. Len(sizes) \in X
  <2> HIDE DEF X
  <2> QED BY <1>1, <1>2, Induction
<1> DEFINE t == CHOOSE f : f = F(f, Len(sizes))
<1>4. t = F(t, Len(sizes))
  BY <1>3
<1>5. tape' = t[Len(sizes)]
  BY DEF Emit
<1> HIDE DEF t
<1> DEFINE Z == {i \in Nat : i <= Len(sizes) => Follows(t[i], 0)}
<1>6. 0 \in Z
  BY <1>4
<1>7. ASSUME NEW i \in Nat, i \in Z PROVE i + 1 \in Z
  <2> SUFFICES ASSUME i + 1 <= Len(sizes) PROVE Follows(t[i + 1], 0)
    OBVIOUS
  <2>1. t[i + 1] = Record(t[i], sizes[i + 1])
    BY <1>4
  <2> QED BY <1>7, <2>1, RecordFollows
<1>8. Len(sizes) \in Z
  <2> HIDE DEF Z
  <2> QED BY <1>6, <1>7, Induction
<1> QED BY <1>5, <1>8

\* What a key writes.
Writes == tape' = tape \/ \E sizes : Len(sizes) \in Nat /\ Emit(sizes)

LEMMA Short ==
  /\ \A a : Len(<<a>>) \in Nat
  /\ \A a, b : Len(<<a, b>>) \in Nat
  /\ \A a, b, c : Len(<<a, b, c>>) \in Nat
OBVIOUS

LEMMA ShownWrites ==
  /\ Silent => Writes
  /\ \A cells : Echo(cells) => Writes
  /\ Ring => Writes
  /\ \A l, c : Redraw(l, c) => Writes
  /\ Erase => Writes
<1>1. Silent => Writes
  BY DEF Silent, Writes
<1>2. ASSUME NEW cells, Echo(cells) PROVE Writes
  BY <1>2, Short DEF Echo, Writes
<1>3. Ring => Writes
  BY Short DEF Ring, Writes
<1>4. ASSUME NEW l, NEW c, Redraw(l, c) PROVE Writes
  BY <1>4, Short DEF Redraw, Writes
<1>5. Erase => Writes
  BY Short DEF Erase, Writes
<1> QED
  BY <1>1, <1>2, <1>3, <1>4, <1>5

LEMMA LineWrites ==
  ASSUME NEW b, Insert(b) \/ Backspace \/ Del \/ Right \/ Left \/ Home \/ End \/ Up \/ Down
  PROVE  Writes
<1>1. CASE Insert(b)
  BY <1>1, ShownWrites DEF Insert
<1>2. CASE Backspace
  <2>1. Silent \/ Erase \/ Redraw(line', cursor')
    BY <1>2 DEF Backspace
  <2> QED BY <2>1, ShownWrites
<1>3. CASE Del
  BY <1>3, ShownWrites DEF Del
<1>4. CASE Right \/ Left
  <2>1. Silent \/ Emit(<<3>>)
    BY <1>4 DEF Right, Left
  <2> QED BY <2>1, ShownWrites, Short DEF Writes
<1>5. CASE Home \/ End
  BY <1>5, ShownWrites DEF Home, End, MoveTo
<1>6. CASE Up \/ Down
  <2>1. Silent \/ \E l, c : Redraw(l, c)
    BY <1>6 DEF Up, Down, GoTo
  <2> QED BY <2>1, ShownWrites
<1> QED
  BY <1>1, <1>2, <1>3, <1>4, <1>5, <1>6

LEMMA CompleteWrites ==
  ASSUME Complete
  PROVE  Writes
<1>1. CASE Silent
  BY <1>1, ShownWrites
<1>2. ASSUME NEW tok, CompleteNone(tok) \/ CompleteOne(tok)
      PROVE  Writes
  BY <1>2, ShownWrites DEF CompleteNone, CompleteOne
<1>3. ASSUME NEW tok, CompleteMany(tok)
      PROVE  Writes
  <2> DEFINE n == Cardinality(Candidates(tok))
             rows == [i \in 1..n |-> 2]
             rest == <<2, Len(Prompt) + Len(line)>>
  <2>1. n \in Nat
    <3>1. IsFiniteSet(Candidates(tok))
      <4>1. Candidates(tok) \subseteq Names /\ IsFiniteSet(Names)
        BY EditorAssumption DEF Candidates
      <4> QED BY <4>1, FS_Subset
    <3> QED BY <3>1, FS_CardinalityType
  <2>2. Emit(<<2>> \o rows \o rest)
    BY <1>3 DEF CompleteMany
  <2> HIDE DEF n
  <2>3. rows \in Seq(Nat)
    BY <2>1
  <2>4. Len(<<2>> \o rows) \in Nat /\ Len(<<2>> \o rows \o rest) \in Nat
    <3> DEFINE one == <<2>>
    <3>1. \E S : one \in Seq(S) /\ rows \in Seq(S) /\ rest \in Seq(S)
      <4> DEFINE S == Nat \union {Len(Prompt) + Len(line)}
      <4>1. one \in Seq(S) /\ rows \in Seq(S) /\ rest \in Seq(S)
        BY <2>1
      <4> QED BY <4>1
    <3> HIDE DEF one, rows, rest
    <3>2. PICK S : one \in Seq(S) /\ rows \in Seq(S) /\ rest \in Seq(S)
      BY <3>1
    <3>3. one \o rows \in Seq(S) /\ one \o rows \o rest \in Seq(S)
      BY <3>2
    <3>4. Len(one \o rows) \in Nat /\ Len(one \o rows \o rest) \in Nat
      BY <3>3
    <3> QED BY <3>4 DEF one
  <2> QED BY <2>2, <2>4 DEF Writes
<1> QED
  BY <1>1, <1>2, <1>3 DEF Complete

LEMMA KeyWrites ==
  ASSUME NEW b, Edit(b) \/ RunLine(b) \/ (Leave(b) /\ ~EndOfInput)
  PROVE  Writes
<1>1. ASSUME NEW rest, NEW sizes, Len(sizes) \in Nat, NewPrompt(rest, sizes)
      PROVE  Writes
  BY <1>1 DEF NewPrompt, Writes
<1>2. CASE Interrupt \/ EnterBlank \/ EnterLine \/ EnterFarewell
  BY <1>1, <1>2, Short DEF Interrupt, EnterBlank, EnterLine, EnterFarewell, Writes
<1>3. CASE Nothing
  BY <1>3, ShownWrites DEF Nothing
<1>4. CASE EscapeEnds(b)
  <2>1. HandleEsc(Append(After(esc, 2), b))
    BY <1>4 DEF EscapeEnds
  <2>2. Up \/ Down \/ Del \/ Right \/ Left \/ Home \/ End \/ Nothing
    BY <2>1 DEF HandleEsc
  <2> QED
    BY <1>3, <2>2, LineWrites
<1>5. CASE EscapeTooLong \/ EscapeOpens(b) \/ EscapeGoesOn(b) \/ EscapeStarts
  BY <1>3, <1>5 DEF EscapeTooLong, EscapeOpens, EscapeGoesOn, EscapeStarts
<1> QED
  BY <1>2, <1>4, <1>5, LineWrites, CompleteWrites DEF Edit, RunLine, Leave

Ended == {"closing", "returned"}

TapeInv ==
  /\ pc \notin Ended => Follows(tape, 0)
  /\ Follows(tape, 1)

LEMMA FollowsWeakens ==
  ASSUME NEW t, Follows(t, 0)
  PROVE  Follows(t, 1)
BY DEF Follows

LEMMA StepTape ==
  ASSUME TapeInv, [Next]_vars
  PROVE  TapeInv'
<1>1. ASSUME Follows(tape', 0) PROVE TapeInv'
  BY <1>1, FollowsWeakens DEF TapeInv
<1>2. ASSUME Writes, pc \notin Ended PROVE TapeInv'
  BY <1>1, <1>2, EmitFollows DEF Writes, TapeInv
<1>3. ASSUME tape' = tape, pc \in Ended => pc' \in Ended PROVE TapeInv'
  BY <1>3 DEF TapeInv
<1>4. CASE Opens(PtyReq) \/ Opens(Exec) \/ Opens(Sftp)
  <2>1. pc \notin Ended
    BY <1>4 DEF Opens, PtyReq, Exec, Sftp, Ended
  <2>2. tape' = NewTape(recording') \/ tape' = tape
    BY <1>4 DEF Opens
  <2> QED BY <1>1, <2>1, <2>2, NewTapeFollows DEF TapeInv
<1>5. CASE StartShell
  <2>1. pc \notin Ended
    BY <1>5 DEF StartShell, Shell, Ended
  <2>2. \/ tape' = Record(NewTape(recording'), Len(Prompt))
        \/ tape' = Record(tape, Len(Prompt))
    BY <1>5 DEF StartShell
  <2> QED BY <1>1, <2>1, <2>2, NewTapeFollows, RecordFollows DEF TapeInv
<1>6. CASE FinishExec \/ Process
  <2>1. pc \notin Ended
    BY <1>6 DEF FinishExec, ExecEnds, Process, TakeChunk, Ended
  <2>2. Writes
    BY <1>6, Short DEF FinishExec, Process, Writes
  <2> QED BY <1>2, <2>1, <2>2
<1>7. CASE EditKey \/ RunKey
  <2>1. pc \notin Ended
    BY <1>7 DEF EditKey, RunKey, RunCommand, Ended
  <2>2. Writes
    BY <1>7, KeyWrites DEF EditKey, RunKey
  <2> QED BY <1>2, <2>1, <2>2
<1>8. CASE LeaveKey
  <2>1. pc \notin Ended /\ pc' \in Ended
    BY <1>8 DEF LeaveKey, Logout, Ended
  <2>2. CASE EndOfInput
    BY <2>1, <2>2, UnrecordedFollows DEF EndOfInput, TapeInv
  <2>3. CASE ~EndOfInput
    <3>1. Writes
      BY <1>8, <2>3, KeyWrites DEF LeaveKey
    <3> QED BY <1>2, <2>1, <3>1
  <2> QED BY <2>2, <2>3
<1>9. CASE \/ Apart(UnknownSubsystem) \/ Apart(HandlerStep) \/ Apart(SftpEnds)
           \/ Apart(ReaderStep) \/ Apart(Type) \/ Apart(Hangup) \/ Apart(TimerFires)
           \/ Apart(TimePasses) \/ PanicKey \/ EndProcess
  <2>1. tape' = tape
    BY <1>9 DEF Apart, PanicKey, EndProcess, editorVars
  <2>2. pc \in Ended => pc' \in Ended
    BY <1>9 DEF Apart, PanicKey, EndProcess, UnknownSubsystem, HandlerStep, TakeEOF, IdleExpires,
       CloseSession, RequestsEnd, SftpEnds, ReaderStep, ReadChunk, OfferChunk, OfferAbandoned,
       ReadFails, Type, Hangup, TimerFires, TimePasses, Panic, InputDone, Ended
  <2> QED BY <1>3, <2>1, <2>2
<1>10. CASE UNCHANGED vars
  BY <1>3, <1>10 DEF vars, channelVars, editorVars
<1> QED
  BY <1>4, <1>5, <1>6, <1>7, <1>8, <1>9, <1>10 DEF Next, Key

\* A replay is what the client saw, cut off where the recording was full, except for the
\* word that answers Ctrl-D, for any sizes of frames and any limit.
THEOREM ReplayFollows == Spec => []ReplayIsPrefix
<1>1. Init => TapeInv
  BY NewTapeFollows, FollowsWeakens DEF Init, EditorInit, TapeInv
<1>2. TapeInv /\ [Next]_vars => TapeInv'
  BY StepTape
<1>3. ASSUME TapeInv PROVE ReplayIsPrefix
  <2> SUFFICES ASSUME tape.on PROVE /\ tape.kept = 1..Cardinality(tape.kept)
                                    /\ ~Full(tape) => Cardinality(tape.kept) >= tape.frames - 1
    BY DEF ReplayIsPrefix
  <2>1. PICK n \in 0..tape.frames : tape.kept = 1..n /\ (~Full(tape) => n >= tape.frames - 1)
    BY <1>3 DEF TapeInv, Follows
  <2>2. tape.frames \in Nat
    BY <1>3 DEF TapeInv, Follows
  <2>3. Cardinality(1..n) = n
    <3>1. n \in Nat
      BY <2>2
    <3>2. Cardinality(1..n) = IF 1 > n THEN 0 ELSE n - 1 + 1
      BY <3>1, FS_Interval
    <3> QED BY <3>1, <3>2
  <2> QED BY <2>1, <2>3
<1>4. TapeInv => ReplayIsPrefix
  BY <1>3
<1> QED
  BY <1>1, <1>2, <1>4, PTL DEF Spec

------------------------------------------------------------------------------
(***************************************************************************)
(* The screen.  While the prompt and the line fit in a row, each way of    *)
(* answering a key leaves what drawing the line again would leave.         *)
(***************************************************************************)
Fits(l) == Ascii(Prompt) /\ Ascii(l) /\ Len(Prompt) + Len(l) < Cols

Shown(l, c) == row = Prompt \o l /\ col = Len(Prompt) + c

ScreenInv == ~shared /\ Fits(line) => Shown(line, cursor)

LEMMA AsciiConcat ==
  ASSUME NEW k \in Seq(Text), NEW l \in Seq(Text)
  PROVE  /\ Len(k \o l) = Len(k) + Len(l) /\ k \o l \in Seq(Text)
         /\ Ascii(k \o l) <=> Ascii(k) /\ Ascii(l)
<1>1. /\ Len(k \o l) = Len(k) + Len(l) /\ k \o l \in Seq(Text)
      /\ \A i \in 1..(Len(k) + Len(l)) : (k \o l)[i] = IF i <= Len(k) THEN k[i] ELSE l[i - Len(k)]
  BY ConcatProperties
<1>2. Len(k) \in Nat /\ Len(l) \in Nat
  OBVIOUS
<1>3. ASSUME Ascii(k \o l) PROVE Ascii(k) /\ Ascii(l)
  <2>1. ASSUME NEW i \in 1..Len(k) PROVE k[i] \notin {Lead, Cont}
    <3>1. i \in 1..(Len(k) + Len(l)) /\ (k \o l)[i] = k[i]
      BY <1>1, <1>2
    <3> QED BY <1>1, <1>3, <3>1 DEF Ascii
  <2>2. ASSUME NEW i \in 1..Len(l) PROVE l[i] \notin {Lead, Cont}
    <3>1. i + Len(k) \in 1..(Len(k) + Len(l)) /\ (k \o l)[i + Len(k)] = l[i]
      BY <1>1, <1>2
    <3> QED BY <1>1, <1>3, <3>1 DEF Ascii
  <2> QED BY <2>1, <2>2 DEF Ascii
<1>4. ASSUME Ascii(k), Ascii(l) PROVE Ascii(k \o l)
  <2> SUFFICES ASSUME NEW i \in 1..(Len(k) + Len(l)) PROVE (k \o l)[i] \notin {Lead, Cont}
    BY <1>1 DEF Ascii
  <2>1. CASE i <= Len(k)
    BY <1>1, <1>2, <1>4, <2>1 DEF Ascii
  <2>2. CASE ~(i <= Len(k))
    <3>1. i - Len(k) \in 1..Len(l) /\ (k \o l)[i] = l[i - Len(k)]
      BY <1>1, <1>2, <2>2
    <3> QED BY <1>4, <3>1 DEF Ascii
  <2> QED BY <2>1, <2>2
<1> QED BY <1>1, <1>3, <1>4

\* Cutting a line in two and joining it again.
LEMMA Halves ==
  ASSUME NEW l \in Seq(Text), NEW c \in 0..Len(l)
  PROVE  /\ Before(l, c) \o After(l, c) = l
         /\ Before(l, Len(l)) = l /\ After(l, Len(l)) = <<>>
<1>1. Len(l) \in Nat
  OBVIOUS
<1>2. SubSeq(l, 1, c) \o SubSeq(l, c + 1, Len(l)) = SubSeq(l, 1, Len(l))
  <2>1. 1 \in 1..(Len(l) + 1) /\ c \in (1 - 1)..Len(l) /\ Len(l) \in c..Len(l)
    BY <1>1
  <2> QED BY <2>1, ConcatAdjacentSubSeq
<1>3. SubSeq(l, 1, Len(l)) = l
  BY SubSeqFull
<1>4. SubSeq(l, Len(l) + 1, Len(l)) = <<>>
  BY <1>1, SubSeqEmpty
<1> QED
  BY <1>2, <1>3, <1>4 DEF Before, After

\* Printing behind all that is in the row, while there is room.
LEMMA PrintedBehind ==
  ASSUME NEW r \in Seq(Text), NEW cells \in Seq(Text), Len(r) + Len(cells) < Cols
  PROVE  /\ Printed(r, Len(r), cells).row = r \o cells
         /\ Printed(r, Len(r), cells).col = Len(r) + Len(cells)
<1>1. Len(r) \in Nat /\ Len(cells) \in Nat
  OBVIOUS
<1>2. Before(r, Len(r)) = r
  BY SubSeqFull DEF Before
<1>3. r \o cells \in Seq(Text) /\ Len(r \o cells) = Len(r) + Len(cells)
  BY ConcatProperties
<1>4. After(r, Len(r \o cells)) = <<>>
  BY <1>1, <1>3, SubSeqEmpty DEF After
<1>5. (r \o cells) \o <<>> = r \o cells
  BY <1>3, ConcatEmptySeq
<1>6. Len(r \o cells) <= Cols
  BY <1>1, <1>3, EditorAssumption
<1>7. Printed(r, Len(r), cells) = [row |-> (r \o cells) \o <<>>, col |-> Len(r \o cells)]
  BY <1>2, <1>4, <1>6, Zenon DEF Printed
<1> QED
  BY <1>3, <1>5, <1>7

\* Without a byte of a longer rune, runes are counted like bytes.
LEMMA AsciiRunes ==
  ASSUME NEW l \in Seq(Text), Ascii(l)
  PROVE  RuneCount(l) = Len(l)
<1> DEFINE k == Len(l)
<1>1. k \in Nat
  OBVIOUS
<1>2. {i \in 1..Len(l) : ~WholeAt(l, i)} = 1..k
  BY DEF WholeAt, Ascii
<1>3. RuneCount(l) = Cardinality(1..k)
  BY <1>2 DEF RuneCount
<1> HIDE DEF k
<1>4. Cardinality(1..k) = k
  BY <1>1, FS_Interval
<1> QED
  BY <1>3, <1>4 DEF k

\* Drawing the line again shows it, with the cursor at its place.
LEMMA RedrawnShows ==
  ASSUME NEW l \in Seq(Text), NEW c \in 0..Len(l), Fits(l)
  PROVE  Redrawn(l, c).row = Prompt \o l /\ Redrawn(l, c).col = Len(Prompt) + c
<1> DEFINE all == Printed(<<>>, 0, Prompt \o l)
           n == Len(Prompt) + Len(l)
<1>1. Prompt \in Seq(Text) /\ Len(Prompt) \in Nat /\ Len(l) \in Nat /\ Cols \in Nat
  BY EditorAssumption
<1>2. Prompt \o l \in Seq(Text) /\ Len(Prompt \o l) = n
  BY <1>1, AsciiConcat
<1>3. all.row = Prompt \o l /\ all.col = n
  <2>1. <<>> \in Seq(Text) /\ Len(<<>>) = 0
    OBVIOUS
  <2>2. <<>> \o (Prompt \o l) = Prompt \o l
    BY <1>2, ConcatEmptySeq
  <2>3. 0 + n = n /\ n < Cols
    BY <1>1 DEF Fits
  <2>4. Printed(<<>>, Len(<<>>), Prompt \o l).row = Prompt \o l
    BY <1>2, <2>1, <2>2, <2>3, PrintedBehind
  <2>5. Printed(<<>>, Len(<<>>), Prompt \o l).col = n
    BY <1>2, <2>1, <2>3, PrintedBehind
  <2> QED BY <2>1, <2>4, <2>5
<1>4. RuneCount(After(l, c)) = Len(l) - c
  <2>1. After(l, c) \in Seq(Text) /\ Len(After(l, c)) = Len(l) - c
    BY Slices
  <2>2. Ascii(After(l, c))
    <3>1. Before(l, c) \in Seq(Text) /\ Before(l, c) \o After(l, c) = l
      BY Slices, Halves
    <3> QED BY <2>1, <3>1, AsciiConcat DEF Fits
  <2> QED BY <2>1, <2>2, AsciiRunes
<1>5. all = [row |-> all.row, col |-> all.col]
  BY DEF Printed
<1> DEFINE at == IF Len(l) - c = 0 THEN all.col ELSE MovedLeft(all.col, Len(l) - c)
<1>6. Redrawn(l, c) = [row |-> all.row, col |-> at]
  <2>1. Redrawn(l, c) = [all EXCEPT !.col = at]
    BY <1>4 DEF Redrawn
  <2> HIDE DEF all, at
  <2> QED BY <1>5, <2>1
<1>7. at = Len(Prompt) + c
  <2>1. n < Cols /\ n \in Nat
    BY <1>1 DEF Fits
  <2> HIDE DEF all
  <2> QED BY <1>1, <1>3, <2>1 DEF MovedLeft
<1> HIDE DEF all, at
<1> QED
  BY <1>3, <1>6, <1>7

\* The four ways a key is answered.
LEMMA RedrawShows ==
  ASSUME NEW l \in Seq(Text), NEW c \in 0..Len(l), Show(Redrawn(l, c)), line' = l, cursor' = c
  PROVE  ScreenInv'
<1>1. Fits(line') => row' = Prompt \o line' /\ col' = Len(Prompt) + cursor'
  BY RedrawnShows DEF Show
<1> QED
  BY <1>1 DEF ScreenInv, Shown, Fits, Ascii

LEMMA EchoShows ==
  ASSUME ScreenInv, line \in Seq(Text), NEW cells \in Seq(Text), Echo(cells),
         cursor = Len(line), line' = line \o cells, cursor' = Len(line')
  PROVE  ScreenInv'
<1> SUFFICES ASSUME ~shared', Fits(line)' PROVE Shown(line, cursor)'
  BY DEF ScreenInv
<1>1. Prompt \in Seq(Text) /\ Len(Prompt) \in Nat /\ Len(line) \in Nat /\ Len(cells) \in Nat
      /\ Cols \in Nat
  BY EditorAssumption
<1>2. Ascii(line') /\ Len(Prompt) + Len(line') < Cols /\ Ascii(Prompt)
  BY DEF Fits, Ascii
<1>3. Len(line') = Len(line) + Len(cells) /\ Ascii(line)
  BY <1>2, AsciiConcat
<1>4. Fits(line) /\ ~shared
  BY <1>1, <1>2, <1>3 DEF Fits, Echo
<1>5. row = Prompt \o line /\ col = Len(Prompt) + Len(line)
  BY <1>4 DEF ScreenInv, Shown
<1>6. row \in Seq(Text) /\ Len(row) = col
  BY <1>1, <1>5, AsciiConcat
<1>7. row' = row \o cells /\ col' = col + Len(cells)
  <2>1. Len(row) + Len(cells) < Cols
    BY <1>1, <1>2, <1>3, <1>5, <1>6
  <2>2. Show(Printed(row, Len(row), cells))
    BY <1>6 DEF Echo
  <2> QED BY <1>6, <2>1, <2>2, PrintedBehind DEF Show
<1>8. row' = Prompt \o line'
  <2>1. (Prompt \o line) \o cells = Prompt \o (line \o cells)
    BY <1>1, ConcatAssociative
  <2> QED
    BY <1>5, <1>7, <2>1
<1>9. col' = Len(Prompt) + cursor'
  BY <1>1, <1>3, <1>5, <1>7
<1> QED
  BY <1>8, <1>9 DEF Shown

LEMMA EraseShows ==
  ASSUME ScreenInv, line \in Seq(Text), line # <<>>, CanErase, Erase,
         cursor = Len(line), line' = Before(line, Len(line) - 1), cursor' = Len(line) - 1
  PROVE  ScreenInv'
<1> SUFFICES ASSUME ~shared', Fits(line)' PROVE Shown(line, cursor)'
  BY DEF ScreenInv
<1> DEFINE n == Len(line)
<1>1. Prompt \in Seq(Text) /\ Len(Prompt) \in Nat /\ n \in Nat /\ n > 0 /\ Cols \in Nat
  BY EditorAssumption
<1>2. Ascii(line') /\ Ascii(Prompt)
  BY DEF Fits, Ascii
<1>3. line' \in Seq(Text) /\ Len(line') = n - 1 /\ \A i \in 1..(n - 1) : line'[i] = line[i]
  BY <1>1 DEF Before
<1>4. Ascii(line)
  <2>1. line[n] \notin {Lead, Cont}
    BY DEF CanErase
  <2>2. \A i \in 1..(n - 1) : line[i] \notin {Lead, Cont}
    BY <1>2, <1>3 DEF Ascii
  <2>3. \A i \in 1..n : i \in 1..(n - 1) \/ i = n
    BY <1>1
  <2> QED BY <2>1, <2>2, <2>3 DEF Ascii
<1>5. RuneCount(Prompt) = Len(Prompt)
  BY <1>1, <1>2, AsciiRunes
<1>6. Fits(line) /\ ~shared
  BY <1>2, <1>4, <1>5 DEF Fits, CanErase, Erase
<1>7. row = Prompt \o line /\ col = Len(Prompt) + n /\ col < Cols
  BY <1>6 DEF ScreenInv, Shown, Fits
<1>8. row \in Seq(Text) /\ Len(row) = Len(Prompt) + n
      /\ \A i \in 1..(Len(Prompt) + n) :
           row[i] = IF i <= Len(Prompt) THEN Prompt[i] ELSE line[i - Len(Prompt)]
  BY <1>1, <1>7, ConcatProperties
<1>9. col' = Len(Prompt) + n - 1 /\ row' = Before(row, col')
  BY <1>1, <1>7 DEF Erase
<1>10. row' = Prompt \o line'
  <2>1. /\ row' \in Seq(Text) /\ Len(row') = Len(Prompt) + n - 1
        /\ \A i \in 1..(Len(Prompt) + n - 1) : row'[i] = row[i]
    BY <1>1, <1>8, <1>9 DEF Before
  <2>2. /\ Prompt \o line' \in Seq(Text) /\ Len(Prompt \o line') = Len(Prompt) + (n - 1)
        /\ \A i \in 1..(Len(Prompt) + (n - 1)) :
             (Prompt \o line')[i] = IF i <= Len(Prompt) THEN Prompt[i] ELSE line'[i - Len(Prompt)]
    <3> DEFINE l == line'
    <3>1. l \in Seq(Text) /\ Len(l) = n - 1
      BY <1>3
    <3> HIDE DEF l, n
    <3>2. /\ Prompt \o l \in Seq(Text) /\ Len(Prompt \o l) = Len(Prompt) + Len(l)
          /\ \A i \in 1..(Len(Prompt) + Len(l)) :
               (Prompt \o l)[i] = IF i <= Len(Prompt) THEN Prompt[i] ELSE l[i - Len(Prompt)]
      BY <1>1, <3>1, ConcatProperties
    <3> QED BY <3>1, <3>2 DEF l
  <2>3. ASSUME NEW i \in 1..(Len(Prompt) + n - 1) PROVE row'[i] = (Prompt \o line')[i]
    <3>1. CASE i <= Len(Prompt)
      BY <1>1, <1>8, <2>1, <2>2, <3>1
    <3>2. CASE ~(i <= Len(Prompt))
      <4>1. i - Len(Prompt) \in 1..(n - 1)
        BY <1>1, <3>2
      <4>2. row'[i] = line[i - Len(Prompt)]
        BY <1>1, <1>8, <2>1, <3>2
      <4>3. (Prompt \o line')[i] = line'[i - Len(Prompt)]
        BY <1>1, <2>2, <3>2
      <4> QED BY <1>3, <4>1, <4>2, <4>3
    <3> QED BY <3>1, <3>2
  <2> QED BY <1>1, <2>1, <2>2, <2>3, SeqEqual
<1>11. col' = Len(Prompt) + cursor'
  BY <1>1, <1>9
<1> QED
  BY <1>10, <1>11 DEF Shown

LEMMA ArrowShows ==
  ASSUME EditorInv, ScreenInv, Right \/ Left
  PROVE  ScreenInv'
<1>1. line \in Seq(Text) /\ cursor \in 0..Len(line) /\ Len(line) \in Nat
      /\ Len(Prompt) \in Nat /\ Cols \in Nat
  BY InvParts, EditorAssumption DEF LineSound
<1>2. line' = line
  BY DEF Right, Left
<1>3. CASE Silent /\ UNCHANGED cursor
  BY <1>2, <1>3 DEF Silent, screenVars, ScreenInv, Fits, Ascii, Shown
<1>4. CASE ~(Silent /\ UNCHANGED cursor)
  <2>1. UNCHANGED <<row, shared>>
    BY <1>4 DEF Right, Left
  <2> SUFFICES ASSUME ~shared, Fits(line) PROVE row' = Prompt \o line /\ col' = Len(Prompt) + cursor'
    BY <1>2, <2>1 DEF ScreenInv, Fits, Ascii, Shown
  <2>2. row = Prompt \o line /\ col = Len(Prompt) + cursor /\ Len(Prompt) + Len(line) < Cols
    BY DEF ScreenInv, Shown, Fits
  <2>3. CASE Right
    <3>1. cursor < Len(line) /\ cursor' = cursor + 1 /\ col' = IF col >= Cols - 1 THEN col ELSE col + 1
      BY <1>1, <1>4, <2>3 DEF Right
    <3> QED BY <1>1, <2>1, <2>2, <3>1
  <2>4. CASE Left
    <3>1. cursor > 0 /\ cursor' = cursor - 1 /\ col' = MovedLeft(col, 1)
      BY <1>1, <1>4, <2>4 DEF Left
    <3> QED BY <1>1, <2>1, <2>2, <3>1 DEF MovedLeft
  <2> QED BY <2>3, <2>4
<1> QED
  BY <1>3, <1>4

\* A key that answers nothing, or rings the bell.
LEMMA SameShows ==
  ASSUME ScreenInv, UNCHANGED <<line, cursor, screenVars>>
  PROVE  ScreenInv'
BY DEF ScreenInv, Fits, Ascii, Shown, screenVars

LEMMA PromptShows ==
  ASSUME NEW rest, NEW sizes, NewPrompt(rest, sizes), ClearLine
  PROVE  ScreenInv'
<1>1. line' = <<>> /\ cursor' = 0
  BY DEF ClearLine
<1> SUFFICES ASSUME ~shared', Fits(<<>>) PROVE row' = Prompt \o <<>> /\ col' = Len(Prompt) + 0
  BY <1>1 DEF ScreenInv, Fits, Ascii, Shown
<1>2. rest = <<>>
  BY DEF NewPrompt
<1>3. Prompt \in Seq(Text) /\ Len(Prompt) \in Nat /\ <<>> \in Seq(Text) /\ Len(<<>>) = 0
  BY EditorAssumption
<1>4. rest \o Prompt = Prompt /\ <<>> \o Prompt = Prompt /\ Prompt \o <<>> = Prompt
  BY <1>2, <1>3, ConcatEmptySeq
<1>5. 0 + Len(Prompt) = Len(Prompt) /\ Len(Prompt) < Cols
  BY <1>3 DEF Fits
<1>6. /\ Printed(<<>>, Len(<<>>), Prompt).row = Prompt
      /\ Printed(<<>>, Len(<<>>), Prompt).col = Len(Prompt)
  BY <1>3, <1>4, <1>5, PrintedBehind
<1> QED
  BY <1>3, <1>4, <1>6 DEF NewPrompt, Show

\* The line and the cursor a key leaves, for those that draw the line again.
LEMMA DrawnShows ==
  ASSUME EditorInv, EditorInv', Redraw(line', cursor')
  PROVE  ScreenInv'
<1>1. line' \in Seq(Text) /\ cursor' \in 0..Len(line')
  BY DEF EditorInv, EditorTypeOK, EditorSound
<1>2. Show(Redrawn(line', cursor'))
  BY DEF Redraw
<1> QED
  BY <1>1, <1>2, RedrawShows

LEMMA InsertShows ==
  ASSUME EditorInv, EditorInv', ScreenInv, NEW b, Insert(b)
  PROVE  ScreenInv'
<1>1. line \in Seq(Text) /\ cursor \in 0..Len(line) /\ Len(line) \in Nat
  BY InvParts DEF LineSound
<1>2. CASE Len(line) >= MaxInteractiveLine
  BY <1>2, SameShows DEF Insert, Silent, lineVars
<1>3. CASE ~(Len(line) >= MaxInteractiveLine) /\ cursor # Len(line)
  BY <1>3, DrawnShows DEF Insert
<1>4. CASE ~(Len(line) >= MaxInteractiveLine) /\ cursor = Len(line)
  <2>1. /\ Echo(<<b>>) /\ cursor' = cursor + 1 /\ b \in Text
        /\ line' = Before(line, cursor) \o <<b>> \o After(line, cursor)
    BY <1>4 DEF Insert
  <2>2. Before(line, cursor) = line /\ After(line, cursor) = <<>>
    BY <1>1, <1>4, Halves
  <2>3. <<b>> \in Seq(Text) /\ Len(<<b>>) = 1
    BY <2>1
  <2>4. line \o <<b>> \in Seq(Text) /\ Len(line \o <<b>>) = Len(line) + 1
    BY <1>1, <2>3, ConcatProperties
  <2>5. line' = line \o <<b>>
    BY <2>1, <2>2, <2>4, ConcatEmptySeq
  <2>6. cursor' = Len(line')
    BY <1>4, <2>1, <2>4, <2>5
  <2> QED BY <1>1, <1>4, <2>1, <2>3, <2>5, <2>6, EchoShows
<1> QED
  BY <1>2, <1>3, <1>4

LEMMA BackspaceShows ==
  ASSUME EditorInv, EditorInv', ScreenInv, Backspace
  PROVE  ScreenInv'
<1>1. line \in Seq(Text) /\ cursor \in 0..Len(line) /\ Len(line) \in Nat
  BY InvParts DEF LineSound
<1>2. CASE cursor <= 0
  BY <1>2, SameShows DEF Backspace, Silent, lineVars
<1>3. CASE ~(cursor <= 0) /\ ~CanErase
  BY <1>3, DrawnShows DEF Backspace
<1>4. CASE ~(cursor <= 0) /\ CanErase
  <2>1. /\ Erase /\ cursor' = cursor - 1
        /\ line' = Before(line, cursor - 1) \o After(line, cursor)
    BY <1>4 DEF Backspace
  <2>2. cursor = Len(line) /\ line # <<>>
    BY <1>1, <1>4 DEF CanErase
  <2>3. After(line, cursor) = <<>>
    BY <1>1, <2>2, Halves
  <2>4. Before(line, cursor - 1) \in Seq(Text)
    BY <1>1, <1>4, Slices
  <2>5. line' = Before(line, Len(line) - 1)
    BY <2>1, <2>2, <2>3, <2>4, ConcatEmptySeq
  <2> QED BY <1>1, <1>4, <2>1, <2>2, <2>5, EraseShows
<1> QED
  BY <1>2, <1>3, <1>4

LEMMA CompleteShows ==
  ASSUME EditorInv, EditorInv', ScreenInv, Complete
  PROVE  ScreenInv'
<1>1. line \in Seq(Text) /\ cursor \in 0..Len(line) /\ Len(line) \in Nat
  BY InvParts DEF LineSound
<1>2. CASE cursor # Len(line)
  BY <1>2, SameShows DEF Complete, Silent, lineVars
<1>3. CASE cursor = Len(line)
  <2>1. PICK i \in 0..Len(line) : \/ CompleteNone(After(line, i)) \/ CompleteOne(After(line, i))
                                  \/ CompleteMany(After(line, i))
    BY <1>3 DEF Complete
  <2>2. CASE CompleteNone(After(line, i))
    BY <2>2, SameShows DEF CompleteNone, Ring, lineVars
  <2>3. CASE CompleteMany(After(line, i))
    BY <1>1, <2>3, RedrawShows DEF CompleteMany, lineVars
  <2>4. CASE CompleteOne(After(line, i))
    <3>1. After(line, i) \in Seq(Text)
      BY <1>1, Slices
    <3>2. PICK name \in Names : /\ IsPrefix(After(line, i), name)
                                /\ line' = line \o After(name, Len(After(line, i)))
                                /\ cursor' = Len(line')
                                /\ Echo(After(name, Len(After(line, i))))
      BY <2>4 DEF CompleteOne, Candidates
    <3>3. name \in Seq(Text) /\ Len(After(line, i)) \in 0..Len(name)
      BY <3>1, <3>2, EditorAssumption DEF IsPrefix
    <3>4. After(name, Len(After(line, i))) \in Seq(Text)
      BY <3>3, Slices
    <3> QED BY <1>1, <1>3, <3>2, <3>4, EchoShows
  <2> QED BY <2>1, <2>2, <2>3, <2>4
<1> QED
  BY <1>2, <1>3

\* Every key but those that end the shell.
LEMMA KeyShows ==
  ASSUME EditorInv, EditorInv', ScreenInv, NEW b \in Keys, Edit(b) \/ RunLine(b)
  PROVE  ScreenInv'
<1>0. line \in Seq(Text) /\ cursor \in 0..Len(line) /\ Len(line) \in Nat
  BY InvParts DEF LineSound
<1>1. CASE Nothing
  BY <1>1, SameShows DEF Nothing, Silent, lineVars
<1>2. CASE Interrupt \/ EnterBlank \/ EnterLine
  BY <1>2, PromptShows DEF Interrupt, EnterBlank, EnterLine
<1>3. CASE Insert(b)
  BY <1>3, InsertShows
<1>4. CASE Backspace
  BY <1>4, BackspaceShows
<1>5. CASE Complete
  BY <1>5, CompleteShows
<1>6. CASE EscapeEnds(b)
  <2>1. HandleEsc(Append(After(esc, 2), b))
    BY <1>6 DEF EscapeEnds
  <2>2. Up \/ Down \/ Del \/ Right \/ Left \/ Home \/ End \/ Nothing
    BY <2>1 DEF HandleEsc
  <2>3. ASSUME Silent, UNCHANGED <<line, cursor>> PROVE ScreenInv'
    BY <2>3, SameShows DEF Silent
  <2>4. CASE Right \/ Left
    BY <2>4, ArrowShows
  <2>5. CASE Del
    BY <2>3, <2>5, DrawnShows DEF Del
  <2>6. CASE Home \/ End
    BY <2>3, <2>6, DrawnShows DEF Home, End, MoveTo
  <2>7. CASE Up \/ Down
    <3>1. CASE Silent /\ UNCHANGED lineVars
      BY <2>3, <3>1 DEF lineVars
    <3>2. CASE ~(Silent /\ UNCHANGED lineVars)
      <4>1. PICK l : GoTo(l)
        BY <2>7, <3>2 DEF Up, Down
      <4> QED BY <4>1, DrawnShows DEF GoTo
    <3> QED BY <3>1, <3>2
  <2> QED BY <1>1, <2>2, <2>4, <2>5, <2>6, <2>7
<1>7. CASE EscapeTooLong \/ EscapeOpens(b) \/ EscapeGoesOn(b) \/ EscapeStarts
  BY <1>1, <1>7 DEF EscapeTooLong, EscapeOpens, EscapeGoesOn, EscapeStarts
<1> QED
  BY <1>2, <1>3, <1>4, <1>5, <1>6, <1>7 DEF Edit, RunLine

\* Before the shell nothing is on the screen; after a word of farewell nothing is any more.
SeenInv ==
  /\ pc \in {"requests", "executing", "sftp"} => line = <<>> /\ cursor = 0 /\ row = <<>>
  /\ InShell \/ row # <<>> => ScreenInv

LEMMA StepSeen ==
  ASSUME InputOK, EditorInv, EditorInv', SeenInv, [Next]_vars
  PROVE  SeenInv'
<1>1. CASE StartShell
  <2>1. /\ pc' = "shell" /\ line' = line /\ cursor' = cursor /\ line = <<>> /\ cursor = 0
        /\ Show(Printed(<<>>, 0, Prompt)) /\ shared' = shared
    BY <1>1 DEF StartShell, Shell, lineVars, SeenInv
  <2>2. ScreenInv'
    <3> SUFFICES ASSUME Fits(<<>>) PROVE row' = Prompt \o <<>> /\ col' = Len(Prompt) + 0
      BY <2>1 DEF ScreenInv, Fits, Ascii, Shown
    <3>1. Prompt \in Seq(Text) /\ Len(Prompt) \in Nat /\ <<>> \in Seq(Text) /\ Len(<<>>) = 0
      BY EditorAssumption
    <3>2. <<>> \o Prompt = Prompt /\ Prompt \o <<>> = Prompt
      BY <3>1, ConcatEmptySeq
    <3>3. 0 + Len(Prompt) = Len(Prompt) /\ Len(Prompt) < Cols
      BY <3>1 DEF Fits
    <3>4. /\ Printed(<<>>, Len(<<>>), Prompt).row = Prompt
          /\ Printed(<<>>, Len(<<>>), Prompt).col = Len(Prompt)
      BY <3>1, <3>2, <3>3, PrintedBehind
    <3> QED BY <2>1, <3>1, <3>2, <3>4 DEF Show
  <2> QED BY <2>1, <2>2 DEF SeenInv
<1>2. CASE EditKey \/ RunKey
  <2>1. pc = "processing" /\ pc' = pc
    BY <1>2 DEF EditKey, RunKey, RunCommand, channelVars
  <2>2. ScreenInv
    BY <2>1 DEF SeenInv, InShell
  <2>3. Edit(Head(input)) \/ RunLine(Head(input))
    BY <1>2 DEF EditKey, RunKey
  <2>4. Head(input) \in Keys
    BY <1>2, FirstKey DEF EditKey, RunKey
  <2>5. ScreenInv'
    BY <2>2, <2>3, <2>4, KeyShows
  <2> QED BY <2>1, <2>5 DEF SeenInv
<1>3. CASE LeaveKey
  <2>1. pc' = "closing" /\ row' = <<>>
    BY <1>3 DEF LeaveKey, Logout, Leave, EnterFarewell, EndOfInput
  <2> QED BY <2>1 DEF SeenInv, InShell
<1>4. ASSUME UNCHANGED <<line, cursor, screenVars>>,
             pc' \in {"requests", "executing", "sftp"} => pc \in {"requests", "executing", "sftp"},
             InShell' => InShell
      PROVE  SeenInv'
  BY <1>4, SameShows DEF SeenInv, screenVars
<1>5. CASE \/ Opens(PtyReq) \/ Opens(Exec) \/ Opens(Sftp)
           \/ Apart(UnknownSubsystem) \/ Apart(HandlerStep) \/ Apart(SftpEnds)
           \/ Apart(ReaderStep) \/ Apart(Type) \/ Apart(Hangup) \/ Apart(TimerFires)
           \/ Apart(TimePasses) \/ PanicKey \/ EndProcess \/ Process \/ FinishExec
  <2>1. UNCHANGED <<line, cursor, screenVars>>
    BY <1>5 DEF Opens, Apart, NoEditing, PanicKey, EndProcess, Process, FinishExec, editorVars, lineVars
  <2>2. /\ pc' \in {"requests", "executing", "sftp"} => pc \in {"requests", "executing", "sftp"}
        /\ InShell' => InShell
    BY <1>5 DEF Opens, Apart, PanicKey, EndProcess, Process, FinishExec, PtyReq, Exec, Sftp,
       UnknownSubsystem, HandlerStep, TakeEOF, IdleExpires, CloseSession, RequestsEnd, SftpEnds,
       ReaderStep, ReadChunk, OfferChunk, OfferAbandoned, ReadFails, Type, Hangup, TimerFires,
       TimePasses, Panic, InputDone, TakeChunk, ExecEnds, InShell
  <2> QED BY <1>4, <2>1, <2>2
<1>6. CASE UNCHANGED vars
  BY <1>4, <1>6 DEF vars, channelVars, editorVars, lineVars, InShell
<1> QED
  BY <1>1, <1>2, <1>3, <1>5, <1>6 DEF Next, Key

\* For any line, width, history, completion and order of keys: what stands in the row is
\* what Enter would run, and the cursor stands where the next key will act.
THEOREM ScreenFollows == Spec => []SeenIsRun
<1>1. Init => SeenInv
  BY DEF Init, ChannelInit, EditorInit, SeenInv, InShell
<1>2. InputOK /\ EditorInv /\ EditorInv' /\ SeenInv /\ [Next]_vars => SeenInv'
  BY StepSeen
<1>3. ASSUME EditorInv, SeenInv PROVE SeenIsRun
  <2>1. line \in Seq(Text) /\ Prompt \in Seq(Text)
    BY <1>3, InvParts, EditorAssumption DEF LineSound
  <2>2. Len(Prompt \o line) = Len(Prompt) + Len(line)
        /\ (Ascii(Prompt \o line) <=> Ascii(Prompt) /\ Ascii(line))
    BY <2>1, AsciiConcat
  <2> QED BY <1>3, <2>2 DEF SeenInv, ScreenInv, Fits, Shown, SeenIsRun
<1>4. EditorInv /\ SeenInv => SeenIsRun
  BY <1>3
<1> QED
  BY <1>1, <1>2, <1>4, InputInvariant, ShellImplementsParts, EditorInvariant, PTL DEF Spec
=============================================================================
