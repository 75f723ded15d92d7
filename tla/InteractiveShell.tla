--------------------------- MODULE InteractiveShell ---------------------------
(***************************************************************************)
(* A session channel with its line editor and its recording: handleSession *)
(* and runInteractiveShell of internal/ssh/server.go, whole.               *)
(*                                                                         *)
(* SessionChannel says how a chunk of input reaches the handler and what   *)
(* ends the session, LineEditor what one byte does.  Here process walks    *)
(* through the bytes of a chunk.  Nothing looks at a chunk before process  *)
(* does, so what it holds is chosen then.                                  *)
(***************************************************************************)
EXTENDS SessionChannel, LineEditor

CONSTANT Chunks  \* what one Read may return: sequences of Keys

ASSUME ShellAssumption == Chunks \subseteq Seq(Keys)

VARIABLE input  \* the bytes of the chunk that process has yet to handle

vars == <<channelVars, editorVars, input>>

Init == ChannelInit /\ EditorInit /\ input = <<>>

NoEditing == UNCHANGED <<lineVars, walkVars, esc, history, screenVars, input>>

\* createSession makes the recorder with the session.
Opens(A) ==
  /\ A
  /\ tape' = IF sess = "none" THEN NewTape(recording') ELSE tape
  /\ NoEditing

Apart(A) == A /\ NoEditing /\ UNCHANGED tape

\* The first prompt.
StartShell ==
  /\ Shell
  /\ Show(Printed(<<>>, 0, Prompt))
  /\ tape' = Record(IF sess = "none" THEN NewTape(recording') ELSE tape, Len(Prompt))
  /\ UNCHANGED <<lineVars, walkVars, esc, history, shared, input>>

\* The output of an exec request.
FinishExec ==
  /\ ExecEnds
  /\ Emit(<<1>>)
  /\ NoEditing

\* process records the chunk as one frame of input and goes through it.
Process ==
  /\ TakeChunk
  /\ \E chunk \in Chunks : input' = chunk /\ Emit(<<Len(chunk)>>)
  /\ UNCHANGED <<lineVars, walkVars, esc, history, screenVars>>

EditKey ==
  /\ pc = "processing" /\ input # <<>>
  /\ Edit(Head(input))
  /\ input' = Tail(input)
  /\ UNCHANGED channelVars

RunKey ==
  /\ RunCommand
  /\ input # <<>>
  /\ RunLine(Head(input))
  /\ input' = Tail(input)

\* The rest of the chunk is never looked at.
LeaveKey ==
  /\ Logout
  /\ input # <<>>
  /\ Leave(Head(input))
  /\ input' = <<>>

EndProcess ==
  /\ InputDone
  /\ input = <<>>
  /\ UNCHANGED <<editorVars, input>>

PanicKey == Panic /\ input' = <<>> /\ UNCHANGED editorVars

Key == EditKey \/ RunKey \/ LeaveKey \/ EndProcess

Next ==
  \/ Opens(PtyReq) \/ Opens(Exec) \/ Opens(Sftp) \/ StartShell
  \/ Apart(UnknownSubsystem) \/ PanicKey
  \/ Apart(HandlerStep) \/ Process \/ Key
  \/ FinishExec \/ Apart(SftpEnds)
  \/ Apart(ReaderStep)
  \/ Apart(Type) \/ Apart(Hangup) \/ Apart(TimerFires) \/ Apart(TimePasses)

Spec == Init /\ [][Next]_vars

(***************************************************************************)
(* Fairness: goroutines are scheduled, time passes, timers fire.  A command *)
(* or a transfer may wait for the client to take its output, so it is only *)
(* sure to end once the channel is closed.                                 *)
(***************************************************************************)
Fairness ==
  /\ WF_vars(Apart(HandlerStep) \/ Process)
  /\ WF_vars(Apart(ReaderStep))
  /\ WF_vars((Key \/ FinishExec \/ Apart(SftpEnds)) /\ client = "closed")
  /\ WF_vars(Apart(TimerFires))
  /\ WF_vars(Apart(TimePasses))

FairSpec == Spec /\ Fairness

\* Once the client has gone, both goroutines end, even when the reader could not tell the
\* handler so: the idle timer makes up for it.
Unwinds ==
  (client = "closed") ~> (pc = "returned" /\ reader \in {"none", "stopped"})
=============================================================================
