---------------------------- MODULE SessionRecord -----------------------------
(***************************************************************************)
(* What a session promises to the readers of the event stream (store,      *)
(* detector, report) and to the executor: it is opened once, its commands  *)
(* come while it is open, it is closed at most once, and the executor      *)
(* keeps state for it exactly as long as it is open.  internal/session     *)
(* documents these as Open, ExecuteLine and Close; SessionChannel          *)
(* implements this specification.                                          *)
(***************************************************************************)
EXTENDS Naturals

VARIABLES
  status,    \* none, open or closed: what the events say
  commands,  \* number of command.executed events
  kept       \* does the executor hold an entry for the session?

recordVars == <<status, commands, kept>>

RecordInit == status = "none" /\ commands = 0 /\ kept = FALSE

Opens ==
  /\ status = "none"
  /\ status' = "open"
  /\ kept' = TRUE
  /\ UNCHANGED commands

Executes ==
  /\ status = "open"
  /\ commands' = commands + 1
  /\ UNCHANGED <<status, kept>>

Closes ==
  /\ status = "open"
  /\ status' = "closed"
  /\ kept' = FALSE
  /\ UNCHANGED commands

RecordNext == Opens \/ Executes \/ Closes

RecordSpec == RecordInit /\ [][RecordNext]_recordVars
=============================================================================
