------------------------------- MODULE DailyLog -------------------------------
(***************************************************************************)
(* dailyRotatingWriter of cmd/anti_attack/main.go: one lumberjack.Logger   *)
(* that is told to archive its file when the date has changed.             *)
(*                                                                         *)
(* Writer, timer and Close take the mutex, so each is one step.  Days are  *)
(* numbered.  Of a log file only this is kept: the days it was written on  *)
(* (none: it is empty), and those on which the writer had tried to archive *)
(* it first and could not.                                                 *)
(***************************************************************************)
EXTENDS Naturals, FiniteSets

CONSTANTS
  MaxDay,      \* bound of the model
  MaxFailures  \* bound of the model: archivings that fail

ASSUME LogAssumption == MaxDay \in Nat /\ MaxFailures \in Nat

VARIABLES
  day,      \* the date
  curDate,  \* w.curDate
  file,     \* the active file
  archive,  \* the archived files
  timer,    \* off, armed, or fired and waiting for the mutex
  due,      \* the day it is to fire
  closed,   \* w.closed
  failures  \* archivings that have failed

fileVars == <<curDate, file, archive, failures>>
timerVars == <<timer, due, closed>>
logVars == <<day, fileVars, timerVars>>

Empty == [days |-> {}, forced |-> {}]

\* The date of the last change of a file that is not empty.
ModTime(f) == CHOOSE d \in f.days : \A e \in f.days : e <= d

Start(d) ==
  /\ timer' = "armed"
  /\ due' = d + 1
  /\ closed' = FALSE

LogInit ==
  /\ day = 0 /\ curDate = 0
  /\ file = Empty /\ archive = {} /\ failures = 0
  /\ timer = "off" /\ due = 0 /\ closed = TRUE

(***************************************************************************)
(* rotateIfNeeded, for a file last dated "from".  Archiving may fail.      *)
(***************************************************************************)
\* Bug: the date is moved on although archiving failed, so that nobody tries again today.
RotatedMovingOn(from, f) ==
  IF from = day THEN {[cur |-> day, file |-> f, gone |-> {}, failed |-> FALSE]}
  ELSE IF f = Empty THEN {[cur |-> day, file |-> f, gone |-> {}, failed |-> FALSE]}
  ELSE {[cur |-> day, file |-> Empty, gone |-> {f}, failed |-> FALSE],
        [cur |-> day, file |-> f, gone |-> {}, failed |-> TRUE]}

\* The outcomes; an empty file is not archived, and a failure leaves curDate for a retry.
Rotated(from, f) ==
  IF from = day THEN {[cur |-> day, file |-> f, gone |-> {}, failed |-> FALSE]}
  ELSE IF f = Empty THEN {[cur |-> day, file |-> f, gone |-> {}, failed |-> FALSE]}
  ELSE {[cur |-> day, file |-> Empty, gone |-> {f}, failed |-> FALSE],
        [cur |-> from, file |-> f, gone |-> {}, failed |-> TRUE]}

\* Of these, at most MaxFailures fail.
Outcomes(from) == {r \in Rotated(from, file) : r.failed => failures < MaxFailures}

Keep(r) ==
  /\ curDate' = r.cur
  /\ archive' = archive \union r.gone
  /\ failures' = IF r.failed THEN failures + 1 ELSE failures

\* newDailyRotatingWriter: a file that is there belongs to the day of its last change.
OpenLog ==
  /\ closed /\ timer = "off"
  /\ \E r \in Outcomes(IF file = Empty THEN day ELSE ModTime(file)) :
       Keep(r) /\ file' = r.file
  /\ Start(day)
  /\ UNCHANGED day

\* Write of one line.  That lumberjack may start a new file of the same day for its size
\* is left out.
WriteLine ==
  /\ \E r \in Outcomes(curDate) :
       /\ Keep(r)
       /\ file' = [days |-> r.file.days \union {day},
                   forced |-> IF r.failed THEN r.file.forced \union {day} ELSE r.file.forced]
  /\ UNCHANGED <<day, timerVars>>

\* The timer fires when its day has come, or earlier if the clock was set back.
Fire ==
  /\ timer = "armed"
  /\ timer' = "fired"
  /\ UNCHANGED <<day, fileVars, due, closed>>

\* Its function, once it has the mutex.
Midnight ==
  /\ timer = "fired"
  /\ IF closed
     THEN timer' = "off" /\ UNCHANGED <<fileVars, due, closed>>
     ELSE /\ \E r \in Outcomes(curDate) : Keep(r) /\ file' = r.file
          /\ Start(day)
  /\ UNCHANGED day

\* Close stops the timer, unless it has fired already.
CloseLog ==
  /\ ~closed
  /\ closed' = TRUE
  /\ timer' = IF timer = "armed" THEN "off" ELSE timer
  /\ UNCHANGED <<day, fileVars, due>>

NextDay ==
  /\ day < MaxDay
  /\ day' = day + 1
  /\ UNCHANGED <<fileVars, timerVars>>

(***************************************************************************)
(* Properties.                                                             *)
(***************************************************************************)
\* A log file, archived or not, holds lines written on one day; a line of a later day is
\* in it only if archiving was tried for the sake of that day and failed at its first
\* line.
OneDayPerFile ==
  \A f \in archive \union {file} : \A d, e \in f.days : e < d => d \in f.forced
=============================================================================
