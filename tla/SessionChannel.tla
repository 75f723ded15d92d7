---------------------------- MODULE SessionChannel ----------------------------
(***************************************************************************)
(* One session channel: handleSession and runInteractiveShell of           *)
(* internal/ssh/server.go with the Session of internal/session.            *)
(*                                                                         *)
(* Three goroutines take part: the handler, the shell's reader, which      *)
(* hands what the client typed to the handler through dataCh (room for     *)
(* one), and the idle timer.  A chunk is what one Read returns and is      *)
(* named by its number.  What process makes of a chunk is left open here   *)
(* (RunCommand, InputDone and Logout in any order); InteractiveShell joins *)
(* this module with the line editor, which decides it.                     *)
(***************************************************************************)
EXTENDS Naturals, Sequences, FiniteSets

CONSTANTS
  MaxChunks,  \* bound of the model: chunks the client types
  Timeout     \* cfg.Server.IdleTimeout of the interactive shell

ASSUME ChannelAssumption ==
  /\ MaxChunks \in Nat
  /\ Timeout \in Nat \ {0}

VARIABLES
  pc,         \* where handleSession stands
  sess,       \* none while sess is nil, else sess.Channel
  kept,       \* does the executor hold state for the session id?
  recording,  \* is recFile open?
  events,     \* what was published for the session
  ending,     \* history: how the handler left without closing its session, if it did
  client,     \* has the transport seen the end of the channel?
  typed,      \* number of chunks the client has sent
  reader,     \* the reader goroutine of the shell
  read,       \* chunks it has read
  dataCh,     \* the channel to the handler: <<>>, or one chunk number or EOF
  handled,    \* history: the chunks process was called with
  left,       \* time until the idle timer fires
  timer,      \* off, armed, or fired with its tick in idle.C
  since       \* time since the timer was last set

sessVars == <<sess, kept, recording, events>>
readerVars == <<reader, read>>
timerVars == <<left, timer, since>>
clientVars == <<client, typed>>
channelVars == <<pc, sessVars, ending, clientVars, readerVars, dataCh, handled, timerVars>>

EOF == 0  \* readResult with err, where chunks are numbered from 1
Count(kind) == Cardinality({i \in 1..Len(events) : events[i] = kind})
InShell == pc \in {"shell", "processing"}

ChannelInit ==
  /\ pc = "requests"
  /\ sess = "none" /\ kept = FALSE /\ recording = FALSE /\ events = <<>>
  /\ ending = "none"
  /\ client = "open" /\ typed = 0
  /\ reader = "none" /\ read = 0
  /\ dataCh = <<>> /\ handled = <<>>
  /\ left = 0 /\ timer = "off" /\ since = 0

(***************************************************************************)
(* The session and its timer.                                              *)
(***************************************************************************)
\* createSession: session.New puts the identity in the executor's state; the recording may
\* fail to open, which is ignored; Open publishes.
CreateSession(kind) ==
  IF sess # "none" THEN UNCHANGED sessVars
  ELSE /\ sess' = kind
       /\ kept' = TRUE
       /\ recording' \in BOOLEAN
       /\ events' = Append(events, "opened")

SetTimer == left' = Timeout /\ timer' = "armed" /\ since' = 0
StopTimer == left' = 0 /\ timer' = "off" /\ since' = 0

(***************************************************************************)
(* The loop over the requests of the channel.                              *)
(***************************************************************************)
PtyReq ==
  /\ pc = "requests"
  /\ CreateSession("shell")
  /\ UNCHANGED <<pc, ending, clientVars, readerVars, dataCh, handled, timerVars>>

\* Bug: the command runs without a session.
ExecUnopened ==
  /\ pc = "requests"
  /\ pc' = "executing"
  /\ UNCHANGED <<sessVars, ending, clientVars, readerVars, dataCh, handled, timerVars>>

Exec ==
  /\ pc = "requests"
  /\ CreateSession("exec")
  /\ pc' = "executing"
  /\ UNCHANGED <<ending, clientVars, readerVars, dataCh, handled, timerVars>>

Shell ==
  /\ pc = "requests"
  /\ CreateSession("shell")
  /\ pc' = "shell"
  /\ reader' = "reading"
  /\ SetTimer
  /\ UNCHANGED <<ending, clientVars, read, dataCh, handled>>

Sftp ==
  /\ pc = "requests"
  /\ CreateSession("subsystem")
  /\ pc' = "sftp"
  /\ UNCHANGED <<ending, clientVars, readerVars, dataCh, handled, timerVars>>

\* Any other subsystem: the handler returns at once, and does not call closeSession.
UnknownSubsystem ==
  /\ pc = "requests"
  /\ pc' = "returned"
  /\ ending' = IF sess = "none" THEN "none" ELSE "refused"
  /\ UNCHANGED <<sessVars, clientVars, readerVars, dataCh, handled, timerVars>>

RequestsEnd ==
  /\ pc = "requests"
  /\ client = "closed"
  /\ pc' = "closing"
  /\ UNCHANGED <<sessVars, ending, clientVars, readerVars, dataCh, handled, timerVars>>

\* s.exec.Execute publishes command.executed.
ExecEnds ==
  /\ pc = "executing"
  /\ events' = Append(events, "command")
  /\ pc' = "closing"
  /\ UNCHANGED <<sess, kept, recording, ending, clientVars, readerVars, dataCh, handled,
                 timerVars>>

\* srv.Serve returns, on EOF or an error.
SftpEnds ==
  /\ pc = "sftp"
  /\ pc' = "closing"
  /\ UNCHANGED <<sessVars, ending, clientVars, readerVars, dataCh, handled, timerVars>>

\* Bug: the recording is not closed.
CloseSessionOnly ==
  /\ pc = "closing"
  /\ sess' = "none" /\ kept' = FALSE /\ UNCHANGED recording
  /\ events' = IF sess = "none" THEN events ELSE Append(events, "closed")
  /\ pc' = "returned"
  /\ UNCHANGED <<ending, clientVars, readerVars, dataCh, handled, timerVars>>

\* closeSession: Close publishes and calls RemoveSession; the recording is closed.
CloseSession ==
  /\ pc = "closing"
  /\ sess' = "none" /\ kept' = FALSE /\ recording' = FALSE
  /\ events' = IF sess = "none" THEN events ELSE Append(events, "closed")
  /\ pc' = "returned"
  /\ UNCHANGED <<ending, clientVars, readerVars, dataCh, handled, timerVars>>

\* A panic in a command or in the SFTP server is recovered by the goroutine around
\* handleSession, which knows nothing of the session.
Panic ==
  /\ pc \in {"executing", "processing", "sftp"}
  /\ pc' = "returned"
  /\ ending' = "panic"
  /\ StopTimer
  /\ UNCHANGED <<sessVars, clientVars, readerVars, dataCh, handled>>

(***************************************************************************)
(* The main loop of the interactive shell.                                 *)
(***************************************************************************)
TakeChunk ==
  /\ pc = "shell"
  /\ dataCh # <<>> /\ dataCh # <<EOF>>
  /\ handled' = handled \o dataCh
  /\ dataCh' = <<>>
  /\ pc' = "processing"
  /\ UNCHANGED <<sessVars, ending, clientVars, readerVars, timerVars>>

TakeEOF ==
  /\ pc = "shell"
  /\ dataCh = <<EOF>>
  /\ dataCh' = <<>>
  /\ pc' = "closing"
  /\ StopTimer
  /\ UNCHANGED <<sessVars, ending, clientVars, readerVars, handled>>

\* process runs a line of the chunk: s.exec.Execute publishes command.executed.
RunCommand ==
  /\ pc = "processing"
  /\ events' = Append(events, "command")
  /\ UNCHANGED <<pc, sess, kept, recording, ending, clientVars, readerVars, dataCh, handled,
                 timerVars>>

\* Bug: the tick that came meanwhile is not drained.
InputDoneUndrained ==
  /\ pc = "processing"
  /\ pc' = "shell"
  /\ left' = Timeout /\ since' = 0
  /\ timer' = IF timer = "fired" THEN "fired" ELSE "armed"
  /\ UNCHANGED <<sessVars, ending, clientVars, readerVars, dataCh, handled>>

\* process returns true; the timer is stopped, a tick that came meanwhile is drained, and
\* the timer is set again.
InputDone ==
  /\ pc = "processing"
  /\ pc' = "shell"
  /\ SetTimer
  /\ UNCHANGED <<sessVars, ending, clientVars, readerVars, dataCh, handled>>

\* exit, logout or Ctrl-D: process returns false.
Logout ==
  /\ pc = "processing"
  /\ pc' = "closing"
  /\ StopTimer
  /\ UNCHANGED <<sessVars, ending, clientVars, readerVars, dataCh, handled>>

\* case <-idle.C
IdleExpires ==
  /\ pc = "shell"
  /\ timer = "fired"
  /\ pc' = "closing"
  /\ StopTimer
  /\ UNCHANGED <<sessVars, ending, clientVars, readerVars, dataCh, handled>>

(***************************************************************************)
(* The reader goroutine.                                                   *)
(***************************************************************************)
ReadChunk ==
  /\ reader = "reading"
  /\ read < typed
  /\ read' = read + 1
  /\ reader' = "offering"
  /\ UNCHANGED <<pc, sessVars, ending, clientVars, dataCh, handled, timerVars>>

\* Bug: the chunk is dropped when there is no room, as the error is.
OfferChunkOrDrop ==
  /\ reader = "offering"
  /\ dataCh' = IF dataCh = <<>> THEN <<read>> ELSE dataCh
  /\ reader' = "reading"
  /\ UNCHANGED <<pc, sessVars, ending, clientVars, read, handled, timerVars>>

\* case dataCh <- readResult{data: cp}
OfferChunk ==
  /\ reader = "offering"
  /\ dataCh = <<>>
  /\ dataCh' = <<read>>
  /\ reader' = "reading"
  /\ UNCHANGED <<pc, sessVars, ending, clientVars, read, handled, timerVars>>

\* Bug: done is never closed.
OfferForEver == FALSE /\ UNCHANGED channelVars

\* case <-done, which is closed when runInteractiveShell returns
OfferAbandoned ==
  /\ reader = "offering"
  /\ ~InShell
  /\ reader' = "stopped"
  /\ UNCHANGED <<pc, sessVars, ending, clientVars, read, dataCh, handled, timerVars>>

\* Read fails: the error is offered without waiting, so it is lost when a chunk is
\* still in dataCh, and the reader returns.
ReadFails ==
  /\ reader = "reading"
  /\ read = typed
  /\ client = "closed"
  /\ reader' = "stopped"
  /\ dataCh' = IF dataCh = <<>> THEN <<EOF>> ELSE dataCh
  /\ UNCHANGED <<pc, sessVars, ending, clientVars, read, handled, timerVars>>

(***************************************************************************)
(* The client, and time.                                                   *)
(***************************************************************************)
Type ==
  /\ client = "open"
  /\ typed < MaxChunks
  /\ typed' = typed + 1
  /\ UNCHANGED <<pc, sessVars, ending, client, readerVars, dataCh, handled, timerVars>>

Hangup ==
  /\ client = "open"
  /\ client' = "closed"
  /\ UNCHANGED <<pc, sessVars, ending, typed, readerVars, dataCh, handled, timerVars>>

TimerFires ==
  /\ timer = "armed"
  /\ left = 0
  /\ timer' = "fired"
  /\ UNCHANGED <<pc, sessVars, ending, clientVars, readerVars, dataCh, handled, left, since>>

TimePasses ==
  /\ timer = "armed" => left > 0
  /\ since < Timeout
  /\ InShell
  /\ since' = since + 1
  /\ left' = IF left > 0 THEN left - 1 ELSE 0
  /\ UNCHANGED <<pc, sessVars, ending, clientVars, readerVars, dataCh, handled, timer>>

\* What the handler does of its own accord; what it does once a program has ended.
HandlerStep == TakeEOF \/ IdleExpires \/ CloseSession \/ RequestsEnd
ProgramEnds == ExecEnds \/ SftpEnds
ReaderStep == ReadChunk \/ OfferChunk \/ OfferAbandoned \/ ReadFails

ChannelNext ==
  \/ PtyReq \/ Exec \/ Shell \/ Sftp \/ UnknownSubsystem \/ Panic
  \/ HandlerStep \/ ProgramEnds \/ ReaderStep
  \/ TakeChunk \/ RunCommand \/ InputDone \/ Logout
  \/ Type \/ Hangup \/ TimerFires \/ TimePasses

ChannelSpec == ChannelInit /\ [][ChannelNext]_channelVars

(***************************************************************************)
(* Properties.                                                             *)
(***************************************************************************)
\* The types of the variables; dataCh never holds more than one result.
ChannelTypeOK ==
  /\ pc \in {"requests", "executing", "shell", "processing", "sftp", "closing", "returned"}
  /\ sess \in {"none", "shell", "exec", "subsystem"}
  /\ kept \in BOOLEAN /\ recording \in BOOLEAN
  /\ events \in Seq({"opened", "command", "closed"})
  /\ ending \in {"none", "panic", "refused"}
  /\ client \in {"open", "closed"}
  /\ typed \in 0..MaxChunks /\ read \in 0..typed
  /\ reader \in {"none", "reading", "offering", "stopped"}
  /\ dataCh \in {<<>>} \union {<<n>> : n \in 0..MaxChunks}
  /\ handled \in Seq(1..MaxChunks)
  /\ left \in 0..Timeout /\ since \in 0..Timeout
  /\ timer \in {"off", "armed", "fired"}

\* Every chunk the client typed reaches process once and in the order it was typed, up to
\* the end of the shell, although only one fits between the reader and the handler.
InputInOrder == \A i \in 1..Len(handled) : handled[i] = i

\* A handler that has returned leaves nothing behind: no entry in the executor, no open
\* recording, and a closed event for its opened event; leaving out the two ways it ends
\* without closeSession.
NothingLeftBehind ==
  (pc = "returned" /\ ending = "none") =>
    /\ ~kept /\ ~recording
    /\ Count("opened") = Count("closed")

\* The shell is only closed for idleness when a full Timeout has passed since the last
\* input was handled: a tick that came while a command ran is never taken for idleness.
IdleMeansQuiet == [][IdleExpires => since >= Timeout]_channelVars

\* The events of a session and the executor's entry for it keep what SessionRecord promises.
Promise == INSTANCE SessionRecord
  WITH status <- IF Count("closed") > 0 THEN "closed"
                 ELSE IF Count("opened") > 0 THEN "open" ELSE "none",
       commands <- Count("command")

ImplementsRecord == Promise!RecordSpec
=============================================================================
