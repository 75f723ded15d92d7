----------------------------- MODULE TtyRecorder ------------------------------
(***************************************************************************)
(* The terminal recording of a session, internal/tty/recorder.go.          *)
(*                                                                         *)
(* A frame is a piece of output or one read of input; its content is left  *)
(* out and only its size is kept, because the size decides when the        *)
(* recording stops.  Frames are numbered in the order they are exchanged   *)
(* with the client, recorded or not.                                       *)
(***************************************************************************)
EXTENDS Integers, FiniteSets, SequencesExt

CONSTANTS
  MaxRecordingBytes,  \* 64 MiB
  MagicSize,          \* len(magic)
  HeaderSize          \* len(hdr)

ASSUME RecorderAssumption ==
  /\ MaxRecordingBytes \in Nat
  /\ MagicSize \in Nat
  /\ HeaderSize \in Nat \ {0}

VARIABLE
  tape  \* [on: is there a recorder?, frames: exchanged so far, kept: those in the
        \* file, written: r.written]

NewTape(on) == [on |-> on, frames |-> 0, kept |-> {}, written |-> 0]

Full(t) == t.written >= MaxRecordingBytes

\* A frame that the client sees and that is not recorded.
Unrecorded(t) == [t EXCEPT !.frames = @ + 1]

\* Bug: a frame is left out when it does not fit any more, so that a smaller one after it
\* may still be written.
RecordFitting(t, size) ==
  IF size = 0 THEN t
  ELSE IF ~t.on \/ t.written + HeaderSize + size > MaxRecordingBytes THEN Unrecorded(t)
  ELSE [Unrecorded(t) EXCEPT
          !.kept = @ \union {t.frames + 1},
          !.written = @ + HeaderSize + size + (IF @ = 0 THEN MagicSize ELSE 0)]

\* record: nothing is not a frame; the limit is compared before the frame, never with it;
\* the magic comes first.
Record(t, size) ==
  IF size = 0 THEN t
  ELSE IF ~t.on \/ Full(t) THEN Unrecorded(t)
  ELSE [Unrecorded(t) EXCEPT
          !.kept = @ \union {t.frames + 1},
          !.written = @ + HeaderSize + size + (IF @ = 0 THEN MagicSize ELSE 0)]

\* The writes of one key, recorded one after the other.
Emit(sizes) ==
  LET tapes[i \in 0..Len(sizes)] ==
        IF i = 0 THEN tape ELSE Record(tapes[i - 1], sizes[i])
  IN tape' = tapes[Len(sizes)]

(***************************************************************************)
(* What a replay shows.                                                    *)
(***************************************************************************)
\* A replay is what the client saw, cut off at one point: a frame is missing only when
\* every later one is, and before the limit is reached none is but the last of the shell,
\* the word logout that answers Ctrl-D.
ReplayIsPrefix ==
  tape.on =>
    /\ tape.kept = 1..Cardinality(tape.kept)
    /\ ~Full(tape) => Cardinality(tape.kept) >= tape.frames - 1
=============================================================================
