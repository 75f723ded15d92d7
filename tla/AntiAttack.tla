------------------------------ MODULE AntiAttack ------------------------------
(***************************************************************************)
(* The process of cmd/anti_attack/main.go: main with its listener, one of  *)
(* the connections it relays, and the log they write to; with restarts.    *)
(*                                                                         *)
(* main does not wait for its connections: when it returns, they are cut.  *)
(***************************************************************************)
EXTENDS Relay, DailyLog

CONSTANT MaxRuns  \* bound of the model: how often the process is started

ASSUME ProcessAssumption == MaxRuns \in Nat

VARIABLES
  main,  \* where main stands
  runs   \* history: how often it was started

processVars == <<main, runs>>
vars == <<relayVars, logVars, processVars>>

Init == RelayInit /\ LogInit /\ main = "down" /\ runs = 0

Alive == main # "down"

Launch ==
  /\ main = "down" /\ runs < MaxRuns
  /\ OpenLog
  /\ main' = "starting" /\ runs' = runs + 1
  /\ UNCHANGED relayVars

\* The lines main writes before it accepts, and for a connection it could not accept.
MainLogs ==
  /\ main \in {"starting", "accepting"}
  /\ WriteLine
  /\ main' = "accepting"
  /\ UNCHANGED <<relayVars, runs>>

\* A signal closes the listener, and the loop over Accept ends.
Signal ==
  /\ main = "accepting"
  /\ main' = "stopping"
  /\ UNCHANGED <<relayVars, logVars, runs>>

Shutdown ==
  /\ main = "stopping"
  /\ WriteLine
  /\ main' = "leaving"
  /\ UNCHANGED <<relayVars, runs>>

\* The deferred w.Close.
LeaveLog ==
  /\ main = "leaving"
  /\ CloseLog
  /\ main' = "exiting"
  /\ UNCHANGED <<relayVars, runs>>

\* The process ends, after main has returned or because it was killed: its goroutines and
\* its timer are gone.
Exit ==
  /\ Alive
  /\ main' = "down"
  /\ handler' = IF handler \in {"none", "refused", "closed"} THEN handler ELSE "cut"
  /\ copier' = [s \in Sides |-> IF handler = "none" THEN "off" ELSE "ended"]
  /\ timer' = "off" /\ closed' = TRUE
  /\ UNCHANGED <<peerVars, taken, got, shut, errc, waits, day, fileVars, due, runs>>

\* A step of the relay that writes a line, and one that does not.
Logs(A) == Alive /\ A /\ WriteLine /\ UNCHANGED processVars
Quiet(A) == Alive /\ A /\ UNCHANGED <<logVars, processVars>>

AcceptOne == main = "accepting" /\ Quiet(Accept)
HandlerStep == Logs(TurnAway) \/ Logs(Connect) \/ Quiet(Collect) \/ Logs(CloseBoth)
LogStep == (Alive /\ (Fire \/ Midnight) /\ UNCHANGED <<relayVars, processVars>>)

Next ==
  \/ Launch \/ MainLogs \/ Signal \/ Shutdown \/ LeaveLog \/ Exit
  \/ AcceptOne \/ HandlerStep \/ Quiet(CopyStep) \/ Quiet(PeerStep)
  \/ LogStep
  \/ NextDay /\ UNCHANGED <<relayVars, processVars>>

Spec == Init /\ [][Next]_vars

(***************************************************************************)
(* Fairness: goroutines are scheduled; a peer takes what is written to it, *)
(* and one that was told that nothing more comes finishes as well.         *)
(***************************************************************************)
Fairness ==
  /\ WF_vars(HandlerStep)
  /\ \A s \in Sides :
       /\ WF_vars(Quiet(Read(s) \/ Write(s) \/ EndCopy(s) \/ CloseWrite(s)))
       /\ WF_vars(Quiet(Finish(s)) /\ shut[s])

FairSpec == Spec /\ Fairness
=============================================================================
