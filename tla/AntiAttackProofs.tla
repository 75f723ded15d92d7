--------------------------- MODULE AntiAttackProofs ---------------------------
(***************************************************************************)
(* Proofs about anti_attack, for any number of bytes, days, failures and   *)
(* restarts: the relay loses nothing, and a log file holds one day.        *)
(*                                                                         *)
(* The steps of the process are steps of the relay, of the log, or of      *)
(* both; each is looked at for the part it moves.                          *)
(***************************************************************************)
EXTENDS AntiAttack, WellFoundedInduction, TLAPS

------------------------------------------------------------------------------
(***************************************************************************)
(* The relay.                                                              *)
(***************************************************************************)
RelayType ==
  /\ handler \in {"none", "dialing", "refused", "copying", "closing", "closed", "cut"}
  /\ peer \in [Sides -> {"open", "finished", "reset"}]
  /\ sent \in [Sides -> Nat] /\ taken \in [Sides -> Nat] /\ got \in [Sides -> Nat]
  /\ shut \in [Sides -> BOOLEAN]
  /\ copier \in [Sides -> {"off", "reading", "writing", "ending", "ended"}]
  /\ errc \in Nat /\ waits \in Nat

Over(s) == copier[s] \in {"ending", "ended"}

\* The copies that are over have left a result, taken or not; the handler closes both
\* connections when it has taken two.
CollectInv ==
  /\ handler \in {"none", "dialing"} =>
       errc = 0 /\ \A s \in Sides : copier[s] = "off" /\ ~shut[s] /\ taken[s] = 0 /\ got[s] = 0
  /\ handler = "refused" => \A s \in Sides : copier[s] \in {"off", "ended"} /\ ~shut[s]
  /\ handler = "copying" =>
       /\ waits \in {1, 2}
       /\ errc + 2 = waits + (IF Over("client") THEN 1 ELSE 0) + (IF Over("upstream") THEN 1 ELSE 0)
       /\ \A s \in Sides : copier[s] # "off" /\ (shut[Other(s)] => copier[s] = "ended")
  /\ handler \in {"closing", "closed"} => \A s \in Sides : Over(s)
  /\ handler = "cut" => \A s \in Sides : copier[s] = "ended"

Unbroken == \A s \in Sides : peer[s] # "reset"
Complete(s) == peer[s] = "finished" /\ got[Other(s)] = sent[s]

\* A copier that waits for its side has passed on all it took, and one that is over had
\* come to the end of a side that has finished.
StreamInv ==
  Unbroken =>
    \A s \in Sides :
      /\ taken[s] <= sent[s]
      /\ copier[s] = "reading" => got[Other(s)] = taken[s]
      /\ Over(s) /\ handler \in {"copying", "closing", "closed"} => Complete(s)
      /\ shut[s] => Complete(Other(s))

RelayInv == RelayType /\ CollectInv /\ StreamInv

\* Every step of the relay, whatever else it does.
RelayStep ==
  \/ Accept \/ TurnAway \/ Connect \/ Collect \/ CloseBoth \/ CopyStep \/ PeerStep

LEMMA OtherSide ==
  /\ Sides = {"client", "upstream"}
  /\ \A s \in Sides : Other(s) \in Sides /\ Other(s) # s /\ Other(Other(s)) = s
BY DEF Sides, Other

LEMMA RelayInitial == RelayInit => RelayInv
BY OtherSide DEF RelayInit, RelayInv, RelayType, CollectInv, StreamInv

LEMMA HandlerKeeps ==
  ASSUME RelayInv, Accept \/ TurnAway \/ Connect \/ Collect \/ CloseBoth
  PROVE  RelayInv'
<1> USE OtherSide DEF RelayInv, RelayType, peerVars
<1>1. CASE Accept \/ TurnAway
  BY <1>1 DEF Accept, TurnAway, CollectInv, StreamInv, Unbroken, Complete, Over
<1>2. CASE Connect
  <2>1. RelayType' /\ CollectInv'
    BY <1>2 DEF Connect, CollectInv, Over
  <2>2. StreamInv'
    BY <1>2 DEF Connect, CollectInv, StreamInv, Unbroken, Complete, Over
  <2> QED
    BY <2>1, <2>2
<1>3. CASE Collect
  <2>1. /\ handler = "copying" /\ errc > 0 /\ errc' = errc - 1 /\ waits' = waits - 1
        /\ handler' = IF waits = 1 THEN "closing" ELSE "copying"
        /\ UNCHANGED <<peerVars, taken, got, shut, copier>>
    BY <1>3 DEF Collect
  <2>2. RelayType'
    BY <2>1 DEF CollectInv
  <2>3. CollectInv'
    BY <2>1 DEF CollectInv, Over
  <2>4. StreamInv'
    BY <2>1 DEF StreamInv, Unbroken, Complete, Over
  <2> QED
    BY <2>2, <2>3, <2>4
<1>4. CASE CloseBoth
  BY <1>4 DEF CloseBoth, CollectInv, StreamInv, Unbroken, Complete, Over
<1> QED
  BY <1>1, <1>2, <1>3, <1>4

LEMMA CopyKeeps ==
  ASSUME RelayInv, NEW s \in Sides, Read(s) \/ Write(s) \/ EndCopy(s) \/ CloseWrite(s)
  PROVE  RelayInv'
<1> USE OtherSide DEF RelayInv, RelayType, peerVars
<1>1. CASE Read(s)
  <2>1. PICK n \in (taken[s] + 1)..sent[s] : taken' = [taken EXCEPT ![s] = n]
    BY <1>1 DEF Read
  <2>2. /\ copier[s] = "reading" /\ copier' = [copier EXCEPT ![s] = "writing"]
        /\ UNCHANGED <<handler, peerVars, got, shut, errc, waits>>
    BY <1>1 DEF Read
  <2>3. RelayType'
    BY <2>1, <2>2
  <2>4. CollectInv'
    BY <2>2 DEF CollectInv, Over
  <2>5. StreamInv'
    BY <2>1, <2>2 DEF StreamInv, Unbroken, Complete, Over
  <2> QED
    BY <2>3, <2>4, <2>5
<1>2. CASE Write(s)
  <2>1. /\ copier[s] = "writing" /\ copier' = [copier EXCEPT ![s] = "reading"]
        /\ got' = [got EXCEPT ![Other(s)] = taken[s]]
        /\ UNCHANGED <<handler, peerVars, taken, shut, errc, waits>>
    BY <1>2 DEF Write
  <2>2. RelayType' /\ CollectInv'
    BY <2>1 DEF CollectInv, Over
  <2>3. StreamInv'
    <3> SUFFICES ASSUME Unbroken, NEW t \in Sides
                 PROVE  /\ taken'[t] <= sent'[t]
                        /\ copier'[t] = "reading" => got'[Other(t)] = taken'[t]
                        /\ Over(t)' /\ handler' \in {"copying", "closing", "closed"} => Complete(t)'
                        /\ shut'[t] => Complete(Other(t))'
      BY <2>1 DEF StreamInv, Unbroken
    <3>1. ~shut[Other(s)]
      BY <2>1 DEF CollectInv, Over
    <3> QED
      BY <2>1, <3>1 DEF StreamInv, Complete, Over
  <2> QED
    BY <2>2, <2>3
<1>3. CASE EndCopy(s)
  <2>1. /\ CopyEnds(s) /\ copier' = [copier EXCEPT ![s] = "ending"] /\ errc' = errc + 1
        /\ UNCHANGED <<handler, peerVars, taken, got, shut, waits>>
    BY <1>3 DEF EndCopy
  <2>2. copier[s] \in {"reading", "writing"}
    BY <2>1 DEF CopyEnds
  <2>3. RelayType'
    BY <2>1
  <2>4. handler \in {"copying"}
    BY <2>2 DEF CollectInv, Over
  <2>5. CollectInv'
    BY <2>1, <2>2, <2>4 DEF CollectInv, Over
  <2>6. Unbroken => peer[s] = "finished" /\ taken[s] = sent[s] /\ copier[s] = "reading"
    BY <2>1, <2>4 DEF CopyEnds, Unbroken
  <2>7. StreamInv'
    BY <2>1, <2>6 DEF StreamInv, Unbroken, Complete, Over
  <2> QED
    BY <2>3, <2>5, <2>7
<1>4. CASE CloseWrite(s)
  <2>1. /\ copier[s] = "ending" /\ copier' = [copier EXCEPT ![s] = "ended"]
        /\ shut' = [shut EXCEPT ![Other(s)] = TRUE]
        /\ UNCHANGED <<handler, peerVars, taken, got, errc, waits>>
    BY <1>4 DEF CloseWrite
  <2>2. RelayType' /\ CollectInv'
    BY <2>1 DEF CollectInv, Over
  <2>3. StreamInv'
    BY <2>1 DEF CollectInv, StreamInv, Unbroken, Complete, Over
  <2> QED
    BY <2>2, <2>3
<1> QED
  BY <1>1, <1>2, <1>3, <1>4

\* A peer that has finished sends no more, and one that is reset stays so.
LEMMA PeerKeeps ==
  ASSUME RelayInv, NEW s \in Sides, Send(s) \/ Finish(s) \/ Reset(s)
  PROVE  RelayInv'
<1> USE OtherSide DEF RelayInv, RelayType
<1>1. UNCHANGED <<handler, taken, got, shut, copier, errc, waits>>
  BY DEF Send, Finish, Reset
<1>2. CollectInv'
  BY <1>1 DEF CollectInv, Over
<1>3. CASE Send(s)
  <2>1. sent' = [sent EXCEPT ![s] = sent[s] + 1] /\ UNCHANGED peer /\ peer[s] = "open"
    BY <1>3 DEF Send, Speaks
  <2>2. RelayType'
    BY <1>1, <2>1
  <2>3. StreamInv'
    BY <1>1, <2>1 DEF StreamInv, Unbroken, Complete, Over
  <2> QED
    BY <1>2, <2>2, <2>3
<1>4. CASE Finish(s)
  <2>1. peer' = [peer EXCEPT ![s] = "finished"] /\ UNCHANGED sent /\ peer[s] = "open"
    BY <1>4 DEF Finish, Speaks
  <2> QED
    BY <1>1, <1>2, <2>1 DEF StreamInv, Unbroken, Complete, Over
<1>5. CASE Reset(s)
  <2>1. peer' = [peer EXCEPT ![s] = "reset"] /\ UNCHANGED sent
    BY <1>5 DEF Reset
  <2>2. ~Unbroken'
    BY <2>1 DEF Unbroken
  <2> QED
    BY <1>1, <1>2, <2>1, <2>2 DEF StreamInv
<1> QED
  BY <1>3, <1>4, <1>5

LEMMA RelayExit ==
  ASSUME RelayInv, Exit
  PROVE  RelayInv'
<1> USE OtherSide DEF RelayInv, RelayType, peerVars
<1>1. /\ handler' = IF handler \in {"none", "refused", "closed"} THEN handler ELSE "cut"
      /\ copier' = [s \in Sides |-> IF handler = "none" THEN "off" ELSE "ended"]
      /\ UNCHANGED <<peerVars, taken, got, shut, errc, waits>>
  BY DEF Exit
<1>2. RelayType'
  BY <1>1
<1>3. CollectInv'
  BY <1>1 DEF CollectInv, Over
<1>4. StreamInv'
  BY <1>1 DEF CollectInv, StreamInv, Unbroken, Complete, Over
<1> QED
  BY <1>2, <1>3, <1>4

\* What the process does is a step of the relay, its end, or leaves the relay alone.
LEMMA RelayCases ==
  ASSUME Next
  PROVE  RelayStep \/ Exit \/ UNCHANGED relayVars
BY DEF Next, Launch, MainLogs, Signal, Shutdown, LeaveLog, AcceptOne, HandlerStep, LogStep,
       Logs, Quiet, RelayStep

LEMMA RelayKeeps ==
  ASSUME RelayInv, [Next]_vars
  PROVE  RelayInv'
<1>1. CASE RelayStep
  BY <1>1, HandlerKeeps, CopyKeeps, PeerKeeps DEF RelayStep, CopyStep, PeerStep
<1>2. CASE UNCHANGED relayVars
  BY <1>2 DEF relayVars, peerVars, RelayInv, RelayType, CollectInv, StreamInv, Unbroken, Complete, Over
<1> QED
  BY <1>1, <1>2, RelayCases, RelayExit DEF vars

\* A side that has finished sending receives all the other sends before it is told the end.
THEOREM RelayLosesNothing == Spec => []RelaysAll
<1>1. Init => RelayInv
  BY RelayInitial DEF Init
<1>2. RelayInv /\ [Next]_vars => RelayInv'
  BY RelayKeeps
<1>3. RelayInv => RelaysAll
  BY OtherSide DEF RelayInv, StreamInv, Unbroken, Complete, RelaysAll
<1> QED
  BY <1>1, <1>2, <1>3, PTL DEF Spec

------------------------------------------------------------------------------
(***************************************************************************)
(* The log.                                                                *)
(***************************************************************************)
LogFiles == [days : SUBSET (0..day), forced : SUBSET (0..day)]

LogType ==
  /\ day \in Nat /\ curDate \in 0..day /\ failures \in Nat
  /\ archive \in SUBSET LogFiles /\ file \in LogFiles

\* Lines of the active file that are older than w.curDate are there because archiving was
\* tried on that day and failed.  The writer looks at nothing else to decide whether it
\* has to archive, so this is what keeps the files apart.
DateInv ==
  /\ file.days = {} => file = Empty
  /\ \A e \in file.days : e < curDate => curDate \in file.forced

LogInv == LogType /\ DateInv /\ OneDayPerFile

\* A file that is not empty has a last day.
LEMMA ModTimeIsLast ==
  ASSUME NEW B \in Nat, NEW f, f.days \in SUBSET (0..B), f.days # {}
  PROVE  ModTime(f) \in f.days /\ \A e \in f.days : e <= ModTime(f)
<1> DEFINE S == f.days
           Bounds == {u \in Nat : \A x \in S : x <= u}
<1>1. B \in Bounds /\ Bounds \subseteq Nat
  OBVIOUS
<1>2. PICK m \in Bounds : \A u \in Bounds : ~ <<u, m>> \in OpToRel(<, Nat)
  <2> HIDE DEF Bounds
  <2> QED BY <1>1, NatLessThanWellFounded, WFMin
<1>3. \A u \in Bounds : ~ u < m
  BY <1>2 DEF OpToRel
<1>4. m \in S
  <2> SUFFICES ASSUME m \notin S PROVE FALSE
    OBVIOUS
  <2>1. \A x \in S : x \in Nat /\ x < m
    OBVIOUS
  <2>2. m \in Nat /\ m > 0
    <3>1. PICK x \in S : TRUE
      OBVIOUS
    <3> QED BY <3>1, <2>1
  <2>3. m - 1 \in Bounds
    BY <2>1, <2>2
  <2> QED BY <2>2, <2>3, <1>3
<1>5. \E d \in f.days : \A e \in f.days : e <= d
  BY <1>4
<1> QED
  BY <1>5 DEF ModTime

\* What rotateIfNeeded leaves when the active file is of the day "from": nothing of
\* another day, unless archiving failed.
LEMMA RotatedKeeps ==
  ASSUME LogInv, NEW from \in 0..day,
         \A e \in file.days : e < from => from \in file.forced,
         NEW r \in Outcomes(from)
  PROVE  /\ r.cur \in 0..day /\ r.file \in {file, Empty} /\ r.gone \in {{}, {file}}
         /\ \A e \in r.file.days : e < r.cur => r.cur \in r.file.forced
         /\ ~r.failed => \A e \in r.file.days : e < day => day \in r.file.forced
<1>1. day \in Nat
  BY DEF LogInv, LogType
<1>2. Empty.days = {}
  BY DEF Empty
<1>3. r \in Rotated(from, file)
  BY DEF Outcomes
<1>4. CASE from = day
  <2>1. r = [cur |-> day, file |-> file, gone |-> {}, failed |-> FALSE]
    BY <1>3, <1>4 DEF Rotated
  <2> QED BY <1>1, <1>4, <2>1
<1>5. CASE from # day /\ file = Empty
  <2>1. r = [cur |-> day, file |-> file, gone |-> {}, failed |-> FALSE]
    BY <1>3, <1>5 DEF Rotated
  <2> QED BY <1>1, <1>2, <1>5, <2>1
<1>6. CASE from # day /\ file # Empty
  <2>1. \/ r = [cur |-> day, file |-> Empty, gone |-> {file}, failed |-> FALSE]
        \/ r = [cur |-> from, file |-> file, gone |-> {}, failed |-> TRUE]
    BY <1>3, <1>6 DEF Rotated
  <2> QED BY <1>1, <1>2, <2>1
<1> QED
  BY <1>4, <1>5, <1>6

\* Archived or not, the files that were there and an empty one are as they should be.
LEMMA ArchiveKeeps ==
  ASSUME LogInv, NEW g \in {{}, {file}}
  PROVE  /\ \A f \in archive \union g : f \in LogFiles /\ \A d, e \in f.days : e < d => d \in f.forced
         /\ \A f \in {file, Empty} : /\ f \in LogFiles /\ (f.days = {} => f = Empty)
                                    /\ \A d, e \in f.days : e < d => d \in f.forced
BY DEF LogInv, LogType, LogFiles, DateInv, OneDayPerFile, Empty

\* Opening the log, and the timer: the active file stays, or an empty one is in its place.
LEMMA RotateStep ==
  ASSUME LogInv, NEW from \in 0..day,
         \A e \in file.days : e < from => from \in file.forced,
         NEW r \in Outcomes(from), Keep(r), file' = r.file, day' = day
  PROVE  LogInv'
<1>1. /\ r.cur \in 0..day /\ r.file \in {file, Empty} /\ r.gone \in {{}, {file}}
      /\ \A e \in r.file.days : e < r.cur => r.cur \in r.file.forced
  BY RotatedKeeps
<1>2. /\ curDate' = r.cur /\ archive' = archive \union r.gone
      /\ failures' \in {failures, failures + 1}
  BY DEF Keep
<1>3. /\ \A f \in archive' : f \in LogFiles /\ \A d, e \in f.days : e < d => d \in f.forced
      /\ file' \in LogFiles /\ (file'.days = {} => file' = Empty)
      /\ \A d, e \in file'.days : e < d => d \in file'.forced
  BY <1>1, <1>2, ArchiveKeeps
<1>4. LogFiles' = LogFiles
  BY DEF LogFiles
<1>5. LogType'
  BY <1>1, <1>2, <1>3, <1>4 DEF LogInv, LogType
<1>6. DateInv'
  BY <1>1, <1>2, <1>3 DEF DateInv
<1>7. OneDayPerFile'
  BY <1>3 DEF OneDayPerFile
<1> QED
  BY <1>5, <1>6, <1>7 DEF LogInv

LEMMA OpenLogKeeps ==
  ASSUME LogInv, OpenLog
  PROVE  LogInv'
<1> DEFINE from == IF file = Empty THEN day ELSE ModTime(file)
<1>1. PICK r \in Outcomes(from) : Keep(r) /\ file' = r.file
  BY DEF OpenLog
<1>2. day \in Nat /\ file.days \in SUBSET (0..day) /\ day' = day
  BY DEF OpenLog, LogInv, LogType, LogFiles
<1>3. from \in 0..day /\ \A e \in file.days : e < from => from \in file.forced
  <2>1. CASE file = Empty
    BY <1>2, <2>1 DEF Empty
  <2>2. CASE file # Empty
    <3>1. file.days # {}
      BY <2>2 DEF LogInv, DateInv
    <3>2. ModTime(file) \in file.days
      BY <1>2, <3>1, ModTimeIsLast
    <3>3. \A e \in file.days : e < ModTime(file) => ModTime(file) \in file.forced
      BY <3>2 DEF LogInv, OneDayPerFile
    <3> QED BY <1>2, <2>2, <3>2, <3>3
  <2> QED BY <2>1, <2>2
<1> HIDE DEF from
<1> QED
  BY <1>1, <1>2, <1>3, RotateStep

LEMMA MidnightKeeps ==
  ASSUME LogInv, Midnight
  PROVE  LogInv'
<1>1. CASE closed
  BY <1>1 DEF Midnight, fileVars, LogInv, LogType, LogFiles, DateInv, OneDayPerFile
<1>2. CASE ~closed
  <2>1. PICK r \in Outcomes(curDate) : Keep(r) /\ file' = r.file
    BY <1>2 DEF Midnight
  <2>2. day' = day /\ curDate \in 0..day
    BY DEF Midnight, LogInv, LogType
  <2>3. \A e \in file.days : e < curDate => curDate \in file.forced
    BY DEF LogInv, DateInv
  <2> QED BY <2>1, <2>2, <2>3, RotateStep
<1> QED
  BY <1>1, <1>2

LEMMA WriteLineKeeps ==
  ASSUME LogInv, WriteLine
  PROVE  LogInv'
<1>1. PICK r \in Outcomes(curDate) :
         /\ Keep(r)
         /\ file' = [days |-> r.file.days \union {day},
                     forced |-> IF r.failed THEN r.file.forced \union {day} ELSE r.file.forced]
  BY DEF WriteLine
<1>2. day \in Nat /\ day' = day /\ curDate \in 0..day
  BY DEF WriteLine, LogInv, LogType
<1>3. /\ r.cur \in 0..day /\ r.file \in {file, Empty} /\ r.gone \in {{}, {file}}
      /\ \A e \in r.file.days : e < r.cur => r.cur \in r.file.forced
      /\ ~r.failed => \A e \in r.file.days : e < day => day \in r.file.forced
  BY <1>2, RotatedKeeps DEF LogInv, DateInv
<1>4. /\ curDate' = r.cur /\ archive' = archive \union r.gone
      /\ failures' \in {failures, failures + 1}
  BY <1>1 DEF Keep
<1>5. /\ \A f \in archive' : f \in LogFiles /\ \A d, e \in f.days : e < d => d \in f.forced
      /\ r.file \in LogFiles
      /\ \A d, e \in r.file.days : e < d => d \in r.file.forced
  BY <1>3, <1>4, ArchiveKeeps
<1>6. /\ r.file.days \in SUBSET (0..day) /\ r.file.forced \in SUBSET (0..day)
  BY <1>5 DEF LogFiles
<1>7. /\ file'.days = r.file.days \union {day}
      /\ r.file.forced \subseteq file'.forced /\ file'.forced \in SUBSET (0..day)
      /\ r.failed => day \in file'.forced
      /\ file' \in LogFiles
  BY <1>1, <1>2, <1>6 DEF LogFiles
<1>8. LogType'
  <2>1. LogFiles' = LogFiles
    BY <1>2 DEF LogFiles
  <2> QED BY <1>2, <1>3, <1>4, <1>5, <1>7, <2>1 DEF LogInv, LogType
<1>9. DateInv'
  BY <1>2, <1>3, <1>4, <1>6, <1>7 DEF DateInv
<1>10. \A d, e \in file'.days : e < d => d \in file'.forced
  <2> SUFFICES ASSUME NEW d \in file'.days, NEW e \in file'.days, e < d
               PROVE  d \in file'.forced
    OBVIOUS
  <2>1. CASE d \in r.file.days /\ e \in r.file.days
    BY <1>5, <1>7, <2>1
  <2>2. CASE d \notin r.file.days
    <3>1. d = day /\ e \in r.file.days
      BY <1>2, <1>7, <2>2
    <3> QED BY <1>3, <1>7, <3>1
  <2>3. CASE e \notin r.file.days
    BY <1>2, <1>6, <1>7, <2>3
  <2> QED BY <2>1, <2>2, <2>3
<1>11. OneDayPerFile'
  BY <1>5, <1>10 DEF OneDayPerFile
<1> QED
  BY <1>8, <1>9, <1>11 DEF LogInv

LEMMA NextDayKeeps ==
  ASSUME LogInv, NextDay
  PROVE  LogInv'
<1>1. /\ day' = day + 1 /\ UNCHANGED fileVars /\ day \in Nat
  BY DEF NextDay, LogInv, LogType
<1>2. LogFiles \subseteq LogFiles'
  BY <1>1 DEF LogFiles
<1>3. LogType'
  BY <1>1, <1>2 DEF LogInv, LogType, fileVars
<1> QED
  BY <1>1, <1>3 DEF LogInv, DateInv, OneDayPerFile, fileVars

LEMMA LogCases ==
  ASSUME [Next]_vars
  PROVE  OpenLog \/ WriteLine \/ Midnight \/ NextDay \/ (UNCHANGED fileVars /\ day' = day)
BY DEF Next, Launch, MainLogs, Signal, Shutdown, LeaveLog, CloseLog, Exit, AcceptOne, HandlerStep,
       LogStep, Fire, Logs, Quiet, logVars, vars

LEMMA LogKeeps ==
  ASSUME LogInv, [Next]_vars
  PROVE  LogInv'
<1>1. CASE UNCHANGED fileVars /\ day' = day
  BY <1>1 DEF fileVars, LogInv, LogType, LogFiles, DateInv, OneDayPerFile
<1> QED
  BY <1>1, LogCases, OpenLogKeeps, WriteLineKeeps, MidnightKeeps, NextDayKeeps

\* Over midnights, failed archivings, restarts and clocks: a log file holds the lines of
\* one day, and those of a later one only after archiving failed on that day.
THEOREM LogFilesAreDaily == Spec => []OneDayPerFile
<1>1. Init => LogInv
  BY DEF Init, LogInit, LogInv, LogType, LogFiles, DateInv, OneDayPerFile, Empty
<1>2. LogInv /\ [Next]_vars => LogInv'
  BY LogKeeps
<1>3. LogInv => OneDayPerFile
  BY DEF LogInv
<1> QED
  BY <1>1, <1>2, <1>3, PTL DEF Spec
=============================================================================
