-------------------------------- MODULE Relay ---------------------------------
(***************************************************************************)
(* One connection of anti_attack, handleConn of cmd/anti_attack/main.go:   *)
(* the client is connected back to its own address, and two goroutines     *)
(* copy what each side sends to the other until both have come to an end.  *)
(*                                                                         *)
(* A stream is counted in bytes.  copier[s] reads from side s and writes   *)
(* to the other one.  Connections share nothing but the log, so one of     *)
(* them is enough.                                                         *)
(***************************************************************************)
EXTENDS Naturals

CONSTANT MaxBytes  \* bound of the model: bytes a side sends

ASSUME RelayAssumption == MaxBytes \in Nat

VARIABLES
  handler,  \* where handleConn stands
  peer,     \* peer[s]: open, finished sending, or reset, as the network shows it
  sent,     \* sent[s]: bytes side s has sent
  taken,    \* taken[s]: bytes its copier has read
  got,      \* got[s]: bytes written to side s
  shut,     \* shut[s]: was side s told that nothing more comes?
  copier,   \* copier[s]: where the copier of side s stands
  errc,     \* results in errc
  waits     \* results the handler still waits for

peerVars == <<peer, sent>>
relayVars == <<handler, peerVars, taken, got, shut, copier, errc, waits>>

Sides == {"client", "upstream"}
Other(s) == IF s = "client" THEN "upstream" ELSE "client"

RelayInit ==
  /\ handler = "none"
  /\ peer = [s \in Sides |-> "open"]
  /\ sent = [s \in Sides |-> 0] /\ taken = [s \in Sides |-> 0] /\ got = [s \in Sides |-> 0]
  /\ shut = [s \in Sides |-> FALSE]
  /\ copier = [s \in Sides |-> "off"]
  /\ errc = 0 /\ waits = 0

(***************************************************************************)
(* handleConn.                                                             *)
(***************************************************************************)
Accept ==
  /\ handler = "none"
  /\ handler' = "dialing"
  /\ UNCHANGED <<peerVars, taken, got, shut, copier, errc, waits>>

\* An address of this machine, or one that does not answer.
TurnAway ==
  /\ handler = "dialing"
  /\ handler' = "refused"
  /\ UNCHANGED <<peerVars, taken, got, shut, copier, errc, waits>>

Connect ==
  /\ handler = "dialing"
  /\ handler' = "copying"
  /\ copier' = [s \in Sides |-> "reading"]
  /\ waits' = 2
  /\ UNCHANGED <<peerVars, taken, got, shut, errc>>

\* Bug: the handler goes on when the first copier has ended.
CollectFirst ==
  /\ handler = "copying" /\ errc > 0
  /\ errc' = errc - 1
  /\ waits' = 0
  /\ handler' = "closing"
  /\ UNCHANGED <<peerVars, taken, got, shut, copier>>

\* <-errc
Collect ==
  /\ handler = "copying" /\ errc > 0
  /\ errc' = errc - 1
  /\ waits' = waits - 1
  /\ handler' = IF waits = 1 THEN "closing" ELSE "copying"
  /\ UNCHANGED <<peerVars, taken, got, shut, copier>>

\* The deferred Close of both connections.
CloseBoth ==
  /\ handler = "closing"
  /\ handler' = "closed"
  /\ shut' = [s \in Sides |-> TRUE]
  /\ UNCHANGED <<peerVars, taken, got, copier, errc, waits>>

(***************************************************************************)
(* io.Copy from side s.                                                    *)
(***************************************************************************)
Read(s) ==
  /\ copier[s] = "reading" /\ handler # "closed" /\ peer[s] # "reset"
  /\ taken[s] < sent[s]
  /\ \E n \in (taken[s] + 1)..sent[s] : taken' = [taken EXCEPT ![s] = n]
  /\ copier' = [copier EXCEPT ![s] = "writing"]
  /\ UNCHANGED <<handler, peerVars, got, shut, errc, waits>>

\* A write of one connection returns when all of it is written or has failed.
Write(s) ==
  /\ copier[s] = "writing" /\ handler # "closed" /\ peer[Other(s)] # "reset"
  /\ got' = [got EXCEPT ![Other(s)] = taken[s]]
  /\ copier' = [copier EXCEPT ![s] = "reading"]
  /\ UNCHANGED <<handler, peerVars, taken, shut, errc, waits>>

\* Does the copy of s end here, with EOF or an error?
CopyEnds(s) ==
  \/ /\ copier[s] = "reading"
     /\ \/ peer[s] = "finished" /\ taken[s] = sent[s]
        \/ peer[s] = "reset"
  \/ copier[s] = "writing" /\ peer[Other(s)] = "reset"
  \/ copier[s] \in {"reading", "writing"} /\ handler = "closed"

\* errc has room for both results, so the send never waits.
EndCopy(s) ==
  /\ CopyEnds(s)
  /\ copier' = [copier EXCEPT ![s] = "ending"]
  /\ errc' = errc + 1
  /\ UNCHANGED <<handler, peerVars, taken, got, shut, waits>>

\* Bug: the end is not passed on.
CloseWriteNever(s) ==
  /\ copier[s] = "ending"
  /\ copier' = [copier EXCEPT ![s] = "ended"]
  /\ UNCHANGED <<handler, peerVars, taken, got, shut, errc, waits>>

CloseWrite(s) ==
  /\ copier[s] = "ending"
  /\ copier' = [copier EXCEPT ![s] = "ended"]
  /\ shut' = [shut EXCEPT ![Other(s)] = TRUE]
  /\ UNCHANGED <<handler, peerVars, taken, got, errc, waits>>

(***************************************************************************)
(* The two peers.  The upstream answers once it is connected.  A peer that *)
(* was told that nothing more comes finishes in the end.                   *)
(***************************************************************************)
Speaks(s) == peer[s] = "open" /\ IF s = "client" THEN handler # "none" ELSE handler \notin {"none", "dialing", "refused"}

Send(s) ==
  /\ Speaks(s) /\ sent[s] < MaxBytes
  /\ sent' = [sent EXCEPT ![s] = @ + 1]
  /\ UNCHANGED <<handler, peer, taken, got, shut, copier, errc, waits>>

Finish(s) ==
  /\ Speaks(s)
  /\ peer' = [peer EXCEPT ![s] = "finished"]
  /\ UNCHANGED <<handler, sent, taken, got, shut, copier, errc, waits>>

Reset(s) ==
  /\ Speaks(s) \/ (peer[s] = "finished" /\ handler # "none")
  /\ peer' = [peer EXCEPT ![s] = "reset"]
  /\ UNCHANGED <<handler, sent, taken, got, shut, copier, errc, waits>>

CopyStep == \E s \in Sides : Read(s) \/ Write(s) \/ EndCopy(s) \/ CloseWrite(s)
PeerStep == \E s \in Sides : Send(s) \/ Finish(s) \/ Reset(s)

(***************************************************************************)
(* Properties.                                                             *)
(***************************************************************************)
\* A side that has finished sending still receives all the other sends, and is told the
\* end only after the last byte: one direction coming to its end never cuts the other.
\* A reset may lose what was under way.
RelaysAll ==
  (\A s \in Sides : peer[s] # "reset") =>
    \A s \in Sides : shut[s] =>
      /\ peer[Other(s)] = "finished"
      /\ got[s] = sent[Other(s)]

\* When one side has finished, or is gone, and peers that are told so finish as well, the
\* handler closes both connections.
RelayEnds ==
  (handler = "copying" /\ \E s \in Sides : peer[s] # "open") ~> handler # "copying"
=============================================================================
