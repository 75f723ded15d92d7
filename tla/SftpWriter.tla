------------------------------ MODULE SftpWriter ------------------------------
(***************************************************************************)
(* Uploads over SFTP: the sftpWriter of internal/ssh/sftp.go.              *)
(*                                                                         *)
(* Every open handle has a writer that collects the upload in memory and   *)
(* saves it to the virtual file system, as a whole, when it has grown by a *)
(* step and at the end.  The workers of pkg/sftp call WriteAt for the      *)
(* packets of a handle in any order, each under the writer's mutex, and    *)
(* Close when all of them are done; when the connection breaks,            *)
(* TransferError comes before Close.  All handles here are on one path,    *)
(* each from a connection of its own.                                      *)
(***************************************************************************)
EXTENDS Naturals, Sequences, FiniteSets

CONSTANTS
  Handles,       \* open handles on the path
  Packets,       \* the writes a client may send: pairs <<offset, length>>
  MaxUploadSize, \* maxUploadSize
  FlushStep,     \* sftpFlushStep
  MaxWrites,     \* bound of the model: writes on one handle
  MaxFailures    \* bound of the model: saves the file system refuses

ASSUME WriterAssumption ==
  /\ Packets \subseteq (Nat \X Nat)
  /\ MaxUploadSize \in Nat
  /\ FlushStep \in Nat \ {0}
  /\ MaxWrites \in Nat /\ MaxFailures \in Nat

VARIABLES
  phase,     \* phase[h]: open, closing (CLOSE received), or broken
  numbered,  \* numbered[h]: packets sent, which numbers the writes from 1
  waiting,   \* waiting[h]: packets no worker has executed yet
  buf,       \* buf[h]: for each byte, the number of the write it is from, or 0
  pubSize,   \* pubSize[h]: length of buf when it was last saved
  dirty,     \* dirty[h]: does buf hold something not saved?
  closed,    \* closed[h]: has Close been called?
  locked,    \* locked[h]: free, or what the holder of the mutex does: save or publish
  caller,    \* caller[h]: the method that called flush
  told,      \* history: handles whose client was told that Close failed
  file,      \* content of the path: who saved it and what
  events,    \* events[h]: sizes in the file.written events
  failures   \* saves refused so far

writerVars == <<buf, pubSize, dirty, closed, locked, caller>>
clientVars == <<phase, numbered, waiting, told>>
fileVars == <<file, events, failures>>
vars == <<writerVars, clientVars, fileVars>>

Write == [number : 1..MaxWrites, packet : Packets]

Init ==
  /\ phase = [h \in Handles |-> "open"]
  /\ numbered = [h \in Handles |-> 0]
  /\ waiting = [h \in Handles |-> {}]
  /\ buf = [h \in Handles |-> <<>>]
  /\ pubSize = [h \in Handles |-> 0]
  /\ dirty = [h \in Handles |-> FALSE]
  /\ closed = [h \in Handles |-> FALSE]
  /\ locked = [h \in Handles |-> "free"]
  /\ caller = [h \in Handles |-> "none"]
  /\ told = {}
  /\ file = <<>>
  /\ events = [h \in Handles |-> <<>>]
  /\ failures = 0

(***************************************************************************)
(* The client.                                                             *)
(***************************************************************************)
SendWrite(h) ==
  /\ phase[h] = "open"
  /\ numbered[h] < MaxWrites
  /\ numbered' = [numbered EXCEPT ![h] = @ + 1]
  /\ \E p \in Packets :
       waiting' = [waiting EXCEPT ![h] = @ \union {[number |-> numbered[h] + 1, packet |-> p]}]
  /\ UNCHANGED <<phase, told, writerVars, fileVars>>

SendClose(h) ==
  /\ phase[h] = "open"
  /\ phase' = [phase EXCEPT ![h] = "closing"]
  /\ UNCHANGED <<numbered, waiting, told, writerVars, fileVars>>

\* The connection breaks; the packets received are still executed.
Break(h) ==
  /\ phase[h] = "open"
  /\ phase' = [phase EXCEPT ![h] = "broken"]
  /\ UNCHANGED <<numbered, waiting, told, writerVars, fileVars>>

(***************************************************************************)
(* The methods of the writer.  A method that flushes keeps the mutex until *)
(* the file is saved and the event is published.                           *)
(***************************************************************************)
\* The buffer after the bytes off+1 .. off+len were written by write k.
Overlay(old, off, len, k) ==
  [i \in 1..(IF off + len > Len(old) THEN off + len ELSE Len(old)) |->
     IF i \in (off + 1)..(off + len) THEN k ELSE IF i <= Len(old) THEN old[i] ELSE 0]

\* Bug: a write inside the buffer does not make it dirty.
WriteAtGrowing(h, w) ==
  /\ locked[h] = "free"
  /\ w \in waiting[h]
  /\ waiting' = [waiting EXCEPT ![h] = @ \ {w}]
  /\ LET off == w.packet[1]
         len == w.packet[2]
         new == Overlay(buf[h], off, len, w.number)
     IN IF off + len > MaxUploadSize
        THEN UNCHANGED writerVars
        ELSE /\ buf' = [buf EXCEPT ![h] = new]
             /\ dirty' = [dirty EXCEPT ![h] = @ \/ Len(new) > Len(buf[h])]
             /\ IF Len(new) - pubSize[h] >= FlushStep
                THEN /\ locked' = [locked EXCEPT ![h] = "save"]
                     /\ caller' = [caller EXCEPT ![h] = "WriteAt"]
                ELSE UNCHANGED <<locked, caller>>
             /\ UNCHANGED <<pubSize, closed>>
  /\ UNCHANGED <<phase, numbered, told, fileVars>>

\* A write past the limit is refused and changes nothing.
WriteAt(h, w) ==
  /\ locked[h] = "free"
  /\ w \in waiting[h]
  /\ waiting' = [waiting EXCEPT ![h] = @ \ {w}]
  /\ LET off == w.packet[1]
         len == w.packet[2]
         new == Overlay(buf[h], off, len, w.number)
     IN IF off + len > MaxUploadSize
        THEN UNCHANGED writerVars
        ELSE /\ buf' = [buf EXCEPT ![h] = new]
             /\ dirty' = [dirty EXCEPT ![h] = TRUE]
             /\ IF Len(new) - pubSize[h] >= FlushStep
                THEN /\ locked' = [locked EXCEPT ![h] = "save"]
                     /\ caller' = [caller EXCEPT ![h] = "WriteAt"]
                ELSE UNCHANGED <<locked, caller>>
             /\ UNCHANGED <<pubSize, closed>>
  /\ UNCHANGED <<phase, numbered, told, fileVars>>

\* flush on behalf of Close or TransferError: nothing to do when the buffer is clean.
FlushFor(h, method) ==
  /\ locked' = [locked EXCEPT ![h] = IF dirty[h] THEN "save" ELSE "free"]
  /\ caller' = [caller EXCEPT ![h] = method]

\* Close, once the packets before it are executed and, on a broken connection, after
\* TransferError.
Close(h) ==
  /\ phase[h] = "closing" \/ (phase[h] = "broken" /\ caller[h] = "TransferError")
  /\ locked[h] = "free"
  /\ waiting[h] = {}
  /\ ~closed[h]
  /\ closed' = [closed EXCEPT ![h] = TRUE]
  /\ FlushFor(h, "Close")
  /\ UNCHANGED <<buf, pubSize, dirty, clientVars, fileVars>>

TransferError(h) ==
  /\ phase[h] = "broken"
  /\ locked[h] = "free"
  /\ waiting[h] = {}
  /\ caller[h] # "TransferError"
  /\ ~closed[h]
  /\ FlushFor(h, "TransferError")
  /\ UNCHANGED <<buf, pubSize, dirty, closed, clientVars, fileVars>>

\* Bug: the buffer stays dirty.
SaveStaysDirty(h) ==
  /\ locked[h] = "save"
  /\ file' = <<h, buf[h]>>
  /\ pubSize' = [pubSize EXCEPT ![h] = Len(buf[h])]
  /\ locked' = [locked EXCEPT ![h] = "publish"]
  /\ UNCHANGED <<buf, dirty, closed, caller, clientVars, events, failures>>

\* fs.WriteFile succeeds.
Save(h) ==
  /\ locked[h] = "save"
  /\ file' = <<h, buf[h]>>
  /\ pubSize' = [pubSize EXCEPT ![h] = Len(buf[h])]
  /\ dirty' = [dirty EXCEPT ![h] = FALSE]
  /\ locked' = [locked EXCEPT ![h] = "publish"]
  /\ UNCHANGED <<buf, closed, caller, clientVars, events, failures>>

\* fs.WriteFile fails: the buffer stays dirty, nothing is published, and the caller gets
\* the error, which reaches the client unless the caller is TransferError.
SaveRefused(h) ==
  /\ locked[h] = "save"
  /\ failures < MaxFailures
  /\ failures' = failures + 1
  /\ locked' = [locked EXCEPT ![h] = "free"]
  /\ told' = IF caller[h] = "Close" /\ phase[h] = "closing" THEN told \union {h} ELSE told
  /\ UNCHANGED <<phase, numbered, waiting, buf, pubSize, dirty, closed, caller, file, events>>

\* bus.Publish of file.written
Publish(h) ==
  /\ locked[h] = "publish"
  /\ events' = [events EXCEPT ![h] = Append(@, Len(buf[h]))]
  /\ locked' = [locked EXCEPT ![h] = "free"]
  /\ UNCHANGED <<buf, pubSize, dirty, closed, caller, clientVars, file, failures>>

ServerStep(h) ==
  \/ \E w \in waiting[h] : WriteAt(h, w)
  \/ Close(h) \/ TransferError(h)
  \/ Save(h) \/ SaveRefused(h) \/ Publish(h)

Next ==
  \E h \in Handles : SendWrite(h) \/ SendClose(h) \/ Break(h) \/ ServerStep(h)

Spec == Init /\ [][Next]_vars

(***************************************************************************)
(* Properties.                                                             *)
(***************************************************************************)
\* The types of the variables, and the bound on what one upload keeps in memory.
TypeOK ==
  /\ phase \in [Handles -> {"open", "closing", "broken"}]
  /\ numbered \in [Handles -> 0..MaxWrites]
  /\ waiting \in [Handles -> SUBSET Write]
  /\ buf \in [Handles -> Seq(0..MaxWrites)]
  /\ \A h \in Handles : Len(buf[h]) <= MaxUploadSize /\ pubSize[h] \in 0..Len(buf[h])
  /\ dirty \in [Handles -> BOOLEAN] /\ closed \in [Handles -> BOOLEAN]
  /\ locked \in [Handles -> {"free", "save", "publish"}]
  /\ caller \in [Handles -> {"none", "WriteAt", "Close", "TransferError"}]
  /\ told \subseteq Handles
  /\ file = <<>> \/ file \in Handles \X Seq(0..MaxWrites)
  /\ events \in [Handles -> Seq(Nat)]
  /\ failures \in 0..MaxFailures

Ended(h) == closed[h] /\ locked[h] = "free"

\* The file holds every byte of the upload, unless another handle saved over it, and the
\* last event of the handle announced the whole size.
Saved(h) ==
  buf[h] # <<>> =>
    /\ file # <<>> /\ (file[1] = h => file[2] = buf[h])
    /\ events[h] # <<>> /\ events[h][Len(events[h])] = Len(buf[h])

\* Once a handle is closed and its client was not told of an error, the upload is saved,
\* overwrites of bytes that were already saved included.  Only a broken connection, whose
\* client cannot be told, loses an upload silently, and only if a save was refused.
ClosedMeansSaved ==
  \A h \in Handles :
    (Ended(h) /\ ((phase[h] = "closing" /\ h \notin told) \/ failures = 0)) => Saved(h)

\* sftp.go promises at most MaxUploadSize bytes in memory for an upload, and one event for
\* each step the file grows and one for its end, however small the writes and however often
\* saving fails.
Throttled ==
  \A h \in Handles :
    /\ Len(buf[h]) <= MaxUploadSize
    /\ Len(events[h]) <= (Len(buf[h]) \div FlushStep) + 1

=============================================================================
