--------------------------- MODULE SshServerProofs ---------------------------
(***************************************************************************)
(* Proofs about the connection level of the SSH server, for any addresses, *)
(* any finite set of connections and any limits and timeouts.              *)
(*                                                                         *)
(* The semaphores are counters, so that they never pass their bounds is    *)
(* known only together with what they count; and what they count depends   *)
(* on where a handler can still have sessions and an open socket.          *)
(***************************************************************************)
EXTENDS SshServer, FiniteSetTheorems, SequenceTheorems, TLAPS

\* Where a connection can have sessions, a channel whose requests nobody takes, a stalled
\* transport.
MuxInv ==
  \A c \in Conns :
    /\ handler[c] \in {"absent", "rejected", "spawned", "handshake"} =>
         sessions[c] = 0 /\ c \notin unserved
    /\ handler[c] = "ended" => ~socket[c]
    /\ socket[c] /\ (sessions[c] > 0 \/ c \in unserved) => handler[c] = "serving"
    /\ c \in stalled => handler[c] = "serving"

\* What has been published at each place of a handler.
ReportInv ==
  \A c \in Conns :
    /\ c \in panicked => handler[c] \in {"returning", "gone"}
    /\ handler[c] \in {"absent", "rejected", "spawned"} => events[c] = <<>>
    /\ handler[c] \in {"handshake", "serving", "ended"} => events[c] = <<"opened">>
    /\ handler[c] \in {"returning", "gone"} =>
         events[c] = IF c \in panicked THEN <<"opened">> ELSE <<"opened", "closed">>

\* An open connection is watched, and the next tick comes in time.
WatchInv ==
  \A c \in Conns :
    handler[c] = "serving" /\ socket[c] =>
      c \in watching /\ idleFor[c] + ticksIn[c] < 2 * IdleTimeout

ServerInv == TypeOK /\ SlotsExact /\ ChannelsExact /\ MuxInv

------------------------------------------------------------------------------
(***************************************************************************)
(* Slots.                                                                  *)
(***************************************************************************)
LEMMA HoldingFinite == IsFiniteSet(Holding) /\ Cardinality(Holding) \in Nat
<1>1. Holding \subseteq Conns
  BY DEF Holding
<1> QED
  BY <1>1, ServerAssumption, FS_Subset, FS_CardinalityType

\* A handler that has not returned has a token to give back.
LEMMA TokenHeld ==
  ASSUME SlotsExact, NEW c \in Holding
  PROVE  sem >= 1
<1>1. Cardinality(Holding) # 0
  BY HoldingFinite, FS_EmptySet
<1> QED
  BY <1>1, HoldingFinite DEF SlotsExact

\* A step takes a token and starts a handler, gives one back and ends a handler, or does
\* neither.
LEMMA StepHolding ==
  ASSUME TypeOK, [Next]_vars
  PROVE  \/ Holding' = Holding /\ sem' = sem
         \/ \E c \in Conns \ Holding : Holding' = Holding \union {c} /\ sem' = sem + 1
         \/ \E c \in Holding : Holding' = Holding \ {c} /\ sem' = sem - 1
<1> USE DEF TypeOK, HandlerType, HandlerState, Holding
<1>1. ASSUME NEW c \in Conns, Accept(c)
      PROVE  c \in Conns \ Holding /\ Holding' = Holding \union {c} /\ sem' = sem + 1
  BY <1>1 DEF Accept
<1>2. ASSUME NEW c \in Conns, Release(c)
      PROVE  c \in Holding /\ Holding' = Holding \ {c} /\ sem' = sem - 1
  BY <1>2 DEF Release
<1>3. ASSUME NEW c \in Conns,
             \/ Reject(c) \/ StartHandshake(c) \/ HandshakeFails(c) \/ Authenticated(c)
             \/ ChannelsEnd(c) \/ ReportClosed(c) \/ Panic(c)
      PROVE  Holding' = Holding /\ sem' = sem
  BY <1>3 DEF Reject, StartHandshake, HandshakeFails, Authenticated, ChannelsEnd, ReportClosed, Panic
<1>4. ASSUME handler' = handler, sem' = sem
      PROVE  Holding' = Holding /\ sem' = sem
  BY <1>4
<1>5. ASSUME NEW c \in Conns,
             \/ AuthFails(c) \/ RefuseChannel(c) \/ AcceptChannelFails(c) \/ StartSession(c)
             \/ Request(c) \/ StartProgram(c) \/ QueueRequest(c) \/ TransferData(c)
             \/ ClientCloses(c) \/ Watchdog(c) \/ EndSession(c)
      PROVE  handler' = handler /\ sem' = sem
  BY <1>5 DEF AuthFails, RefuseChannel, AcceptChannelFails, StartSession, Request, StartProgram,
              QueueRequest, TransferData, ClientCloses, Watchdog, EndSession, connVars, muxVars
<1>6. ASSUME NEW a \in Addrs, Bind(a) \/ AcceptFails(a) \/ ListenerGoroutine(a)
      PROVE  handler' = handler /\ sem' = sem
  BY <1>6 DEF Bind, AcceptFails, ListenerGoroutine, connVars
<1>7. ASSUME Signal \/ CancelOnError \/ CloseServer \/ TimePasses \/ UNCHANGED vars
      PROVE  handler' = handler /\ sem' = sem
  BY <1>7 DEF Signal, CancelOnError, CloseServer, TimePasses, vars, connVars
<1> QED
  BY <1>1, <1>2, <1>3, <1>4, <1>5, <1>6, <1>7 DEF Next, ClientStep, HandlerStep

LEMMA StepSlots ==
  ASSUME TypeOK, SlotsExact, [Next]_vars
  PROVE  SlotsExact'
<1>1. CASE Holding' = Holding /\ sem' = sem
  BY <1>1 DEF SlotsExact
<1>2. ASSUME NEW c \in Conns \ Holding, Holding' = Holding \union {c}, sem' = sem + 1
      PROVE  SlotsExact'
  BY <1>2, HoldingFinite, FS_AddElement DEF SlotsExact
<1>3. ASSUME NEW c \in Holding, Holding' = Holding \ {c}, sem' = sem - 1
      PROVE  SlotsExact'
  BY <1>3, HoldingFinite, FS_RemoveElement DEF SlotsExact
<1> QED
  BY <1>1, <1>2, <1>3, StepHolding

------------------------------------------------------------------------------
(***************************************************************************)
(* Channels and transports.                                                *)
(***************************************************************************)
\* The steps of the listeners, and stuttering, touch no connection.
ListenerStep ==
  \/ \E a \in Addrs : Bind(a) \/ AcceptFails(a) \/ ListenerGoroutine(a)
  \/ Signal \/ CancelOnError \/ CloseServer
  \/ UNCHANGED vars

LEMMA ListenerStepFrame == ListenerStep => UNCHANGED <<timeVars, connVars>>
  BY DEF ListenerStep, Bind, AcceptFails, ListenerGoroutine, Signal, CancelOnError, CloseServer, vars

LEMMA StepChannels ==
  ASSUME TypeOK, ChannelsExact, [Next]_vars
  PROVE  ChannelsExact'
<1> USE DEF TypeOK, ChannelType, ChannelsExact
<1>1. ASSUME NEW c \in Conns, StartSession(c) \/ EndSession(c)
      PROVE  ChannelsExact'
  BY <1>1 DEF StartSession, EndSession
<1>2. ASSUME chanSem' = chanSem, sessions' = sessions
      PROVE  ChannelsExact'
  BY <1>2
<1>3. ASSUME NEW c \in Conns,
             \/ Accept(c) \/ Reject(c) \/ StartHandshake(c) \/ AuthFails(c) \/ HandshakeFails(c)
             \/ Authenticated(c) \/ RefuseChannel(c) \/ AcceptChannelFails(c) \/ Request(c)
             \/ StartProgram(c) \/ QueueRequest(c) \/ TransferData(c) \/ ClientCloses(c)
             \/ Watchdog(c) \/ ChannelsEnd(c) \/ ReportClosed(c) \/ Panic(c) \/ Release(c)
      PROVE  chanSem' = chanSem /\ sessions' = sessions
  BY <1>3 DEF Accept, Reject, StartHandshake, AuthFails, HandshakeFails, Authenticated,
              RefuseChannel, AcceptChannelFails, Request, StartProgram, QueueRequest,
              TransferData, ClientCloses, Watchdog, ChannelsEnd, ReportClosed, Panic, Release,
              connVars
<1>4. ASSUME ListenerStep \/ TimePasses
      PROVE  chanSem' = chanSem /\ sessions' = sessions
  BY <1>4, ListenerStepFrame DEF TimePasses, connVars
<1> QED
  BY <1>1, <1>2, <1>3, <1>4 DEF Next, ClientStep, HandlerStep, ListenerStep

LEMMA StepMux ==
  ASSUME TypeOK, MuxInv, [Next]_vars
  PROVE  MuxInv'
<1> USE DEF TypeOK, HandlerType, HandlerState, ChannelType, MuxInv
<1>1. ASSUME NEW c \in Conns, Accept(c) \/ Reject(c) \/ StartHandshake(c) \/ AuthFails(c)
      PROVE  MuxInv'
  <2>1. CASE Accept(c)
    BY <2>1 DEF Accept, muxVars
  <2>2. CASE Reject(c)
    BY <2>2 DEF Reject, muxVars
  <2>3. CASE StartHandshake(c)
    BY <2>3 DEF StartHandshake, muxVars
  <2>4. CASE AuthFails(c)
    BY <2>4 DEF AuthFails, muxVars
  <2> QED
    BY <1>1, <2>1, <2>2, <2>3, <2>4
<1>2. ASSUME NEW c \in Conns, HandshakeFails(c) \/ Panic(c) \/ Authenticated(c)
      PROVE  MuxInv'
  BY <1>2 DEF HandshakeFails, Panic, Authenticated, muxVars
<1>3. ASSUME NEW c \in Conns, StartSession(c) \/ EndSession(c)
      PROVE  MuxInv'
  <2>1. CASE StartSession(c)
    BY <2>1 DEF StartSession, muxVars
  <2>2. CASE EndSession(c)
    <3>1. sessions[c] > 0 /\ sessions' = [sessions EXCEPT ![c] = sessions[c] - 1]
      BY <2>2 DEF EndSession
    <3>2. \A d \in Conns : sessions'[d] > 0 => sessions[d] > 0
      BY <3>1
    <3>3. \A d \in Conns : sessions[d] = 0 => sessions'[d] = 0
      BY <3>1
    <3>4. UNCHANGED <<handler, socket, unserved, stalled>>
      BY <2>2 DEF EndSession, muxVars
    <3> QED
      BY <3>2, <3>3, <3>4
  <2> QED
    BY <1>3, <2>1, <2>2
<1>4. ASSUME NEW c \in Conns, StartProgram(c)
      PROVE  MuxInv'
  BY <1>4 DEF StartProgram
<1>5. ASSUME NEW c \in Conns, QueueRequest(c)
      PROVE  MuxInv'
  BY <1>5 DEF QueueRequest
<1>6. ASSUME NEW c \in Conns, ClientCloses(c) \/ Watchdog(c)
      PROVE  MuxInv'
  BY <1>6 DEF ClientCloses, Watchdog, muxVars
<1>7. ASSUME NEW c \in Conns, ChannelsEnd(c) \/ ReportClosed(c)
      PROVE  MuxInv'
  BY <1>7 DEF ChannelsEnd, ReportClosed, muxVars
<1>8. ASSUME NEW c \in Conns, Release(c)
      PROVE  MuxInv'
  BY <1>8 DEF Release, ForgetConnection
<1>9. ASSUME UNCHANGED connVars
      PROVE  MuxInv'
  BY <1>9 DEF connVars, muxVars
<1>10. ASSUME NEW c \in Conns,
              RefuseChannel(c) \/ AcceptChannelFails(c) \/ Request(c) \/ TransferData(c)
       PROVE  UNCHANGED connVars
  BY <1>10 DEF RefuseChannel, AcceptChannelFails, Request, TransferData
<1>11. ASSUME ListenerStep \/ TimePasses
       PROVE  UNCHANGED connVars
  BY <1>11, ListenerStepFrame DEF TimePasses
<1> QED
  BY <1>1, <1>2, <1>3, <1>4, <1>5, <1>6, <1>7, <1>8, <1>9, <1>10, <1>11
     DEF Next, ClientStep, HandlerStep, ListenerStep

------------------------------------------------------------------------------
(***************************************************************************)
(* Types and bounds.                                                       *)
(***************************************************************************)
LEMMA InitInv == Init => ServerInv /\ ReportInv /\ WatchInv
<1> SUFFICES ASSUME Init PROVE ServerInv /\ ReportInv /\ WatchInv
  OBVIOUS
<1> USE ServerAssumption DEF Init
<1>1. TypeOK
  <2>1. ListenType
    BY DEF ListenType
  <2>2. TimeType
    BY DEF TimeType
  <2>3. ChannelType
    BY DEF ChannelType
  <2>4. <<>> \in Seq({"opened", "closed"})
    OBVIOUS
  <2>5. HandlerType
    BY <2>4 DEF HandlerType, HandlerState
  <2> QED
    BY <2>1, <2>2, <2>3, <2>5 DEF TypeOK
<1>2. Holding = {}
  BY DEF Holding
<1>3. SlotsExact
  BY <1>2, FS_EmptySet DEF SlotsExact
<1>4. ChannelsExact /\ MuxInv /\ ReportInv /\ WatchInv
  BY DEF ChannelsExact, MuxInv, ReportInv, WatchInv
<1> QED
  BY <1>1, <1>3, <1>4 DEF ServerInv

LEMMA StepListenType ==
  ASSUME ListenType, [Next]_vars
  PROVE  ListenType'
<1> USE DEF ListenType
<1>1. ASSUME NEW a \in Addrs, Bind(a) \/ AcceptFails(a) \/ ListenerGoroutine(a)
      PROVE  ListenType'
  BY <1>1 DEF Bind, AcceptFails, ListenerGoroutine
<1>2. ASSUME Signal \/ CancelOnError \/ CloseServer
      PROVE  ListenType'
  BY <1>2 DEF Signal, CancelOnError, CloseServer
<1>3. ASSUME UNCHANGED listenVars
      PROVE  ListenType'
  BY <1>3 DEF listenVars
<1>4. ASSUME NEW c \in Conns, ClientStep(c) \/ HandlerStep(c) \/ Panic(c) \/ Watchdog(c) \/ EndSession(c)
      PROVE  UNCHANGED listenVars
  BY <1>4 DEF ClientStep, HandlerStep, Accept, Reject, StartHandshake, AuthFails, HandshakeFails,
              Authenticated, RefuseChannel, AcceptChannelFails, StartSession, Request,
              StartProgram, QueueRequest, TransferData, ClientCloses, Watchdog, EndSession,
              ChannelsEnd, ReportClosed, Panic, Release
<1>5. ASSUME TimePasses \/ UNCHANGED vars
      PROVE  UNCHANGED listenVars
  BY <1>5 DEF TimePasses, vars
<1> QED
  BY <1>1, <1>2, <1>3, <1>4, <1>5 DEF Next

LEMMA StepTimeType ==
  ASSUME TimeType, [Next]_vars
  PROVE  TimeType'
<1> USE ServerAssumption DEF TimeType
<1>1. ASSUME NEW c \in Conns, StartHandshake(c) \/ Authenticated(c)
      PROVE  TimeType'
  BY <1>1 DEF StartHandshake, Authenticated
<1>2. ASSUME NEW c \in Conns,
             \/ RefuseChannel(c) \/ AcceptChannelFails(c) \/ StartSession(c)
             \/ Request(c) \/ StartProgram(c)
      PROVE  TimeType'
  BY <1>2 DEF RefuseChannel, AcceptChannelFails, StartSession, Request, StartProgram, Refresh
<1>3. ASSUME NEW c \in Conns, TransferData(c) \/ Watchdog(c) \/ Release(c)
      PROVE  TimeType'
  BY <1>3 DEF TransferData, Watchdog, Release, ForgetConnection
<1>4. ASSUME TimePasses
      PROVE  TimeType'
  BY <1>4 DEF TimePasses, Older, Sooner
<1>5. ASSUME UNCHANGED timeVars
      PROVE  TimeType'
  BY <1>5 DEF timeVars
<1>6. ASSUME NEW c \in Conns,
             \/ Accept(c) \/ Reject(c) \/ AuthFails(c) \/ HandshakeFails(c) \/ QueueRequest(c)
             \/ ClientCloses(c) \/ EndSession(c) \/ ChannelsEnd(c) \/ ReportClosed(c) \/ Panic(c)
      PROVE  UNCHANGED timeVars
  BY <1>6 DEF Accept, Reject, AuthFails, HandshakeFails, QueueRequest, ClientCloses, EndSession,
              ChannelsEnd, ReportClosed, Panic
<1> QED
  BY <1>1, <1>2, <1>3, <1>4, <1>5, <1>6, ListenerStepFrame
     DEF Next, ClientStep, HandlerStep, ListenerStep

LEMMA StepHandlerType ==
  ASSUME ServerInv, [Next]_vars
  PROVE  HandlerType'
<1> HandlerType
  BY DEF ServerInv, TypeOK
<1> USE ServerAssumption DEF HandlerType, HandlerState
<1>1. ASSUME NEW c \in Conns, Accept(c) \/ Reject(c) \/ AuthFails(c) \/ ClientCloses(c) \/ Panic(c)
      PROVE  HandlerType'
  <2>1. CASE Accept(c)
    BY <2>1 DEF Accept
  <2>2. CASE Reject(c)
    BY <2>2 DEF Reject
  <2>3. CASE AuthFails(c)
    BY <2>3 DEF AuthFails
  <2>4. CASE ClientCloses(c) \/ Panic(c)
    BY <2>4 DEF ClientCloses, Panic
  <2> QED
    BY <1>1, <2>1, <2>2, <2>3, <2>4
<1>2. ASSUME NEW c \in Conns, StartHandshake(c) \/ HandshakeFails(c) \/ ReportClosed(c)
      PROVE  HandlerType'
  <2>1. \E kind \in {"opened", "closed"} : Publish(c, kind)
    BY <1>2 DEF StartHandshake, HandshakeFails, ReportClosed
  <2>2. events' \in [Conns -> Seq({"opened", "closed"})]
    BY <2>1 DEF Publish
  <2>3. handler' \in [Conns -> HandlerState]
    BY <1>2 DEF StartHandshake, HandshakeFails, ReportClosed
  <2>4. UNCHANGED <<sem, panicked, socket, tries, watching>>
    BY <1>2 DEF StartHandshake, HandshakeFails, ReportClosed
  <2> QED
    BY <2>2, <2>3, <2>4
<1>3. ASSUME NEW c \in Conns, Authenticated(c) \/ ChannelsEnd(c) \/ Watchdog(c)
      PROVE  HandlerType'
  BY <1>3 DEF Authenticated, ChannelsEnd, Watchdog
<1>4. ASSUME NEW c \in Conns, Release(c)
      PROVE  HandlerType'
  <2>1. c \in Holding
    BY <1>4 DEF Release, Holding
  <2>2. sem' \in 0..MaxConnections
    BY <1>4, <2>1, TokenHeld DEF Release, ServerInv
  <2> QED
    BY <1>4, <2>2 DEF Release, ForgetConnection
<1>5. ASSUME UNCHANGED <<sem, handler, panicked, socket, tries, watching, events>>
      PROVE  HandlerType'
  BY <1>5
<1>6. ASSUME NEW c \in Conns,
             \/ RefuseChannel(c) \/ AcceptChannelFails(c) \/ StartSession(c) \/ Request(c)
             \/ StartProgram(c) \/ QueueRequest(c) \/ TransferData(c) \/ EndSession(c)
      PROVE  UNCHANGED <<sem, handler, panicked, socket, tries, watching, events>>
  BY <1>6 DEF RefuseChannel, AcceptChannelFails, StartSession, Request, StartProgram,
              QueueRequest, TransferData, EndSession, connVars
<1>7. ASSUME ListenerStep \/ TimePasses
      PROVE  UNCHANGED <<sem, handler, panicked, socket, tries, watching, events>>
  BY <1>7, ListenerStepFrame DEF TimePasses, connVars
<1> QED
  BY <1>1, <1>2, <1>3, <1>4, <1>5, <1>6, <1>7 DEF Next, ClientStep, HandlerStep, ListenerStep

LEMMA StepChannelType ==
  ASSUME ServerInv, [Next]_vars
  PROVE  ChannelType'
<1> ChannelType /\ ChannelsExact
  BY DEF ServerInv, TypeOK
<1> USE ServerAssumption DEF ChannelType
<1>1. ASSUME NEW c \in Conns, StartSession(c)
      PROVE  ChannelType'
  BY <1>1 DEF StartSession, muxVars
<1>2. ASSUME NEW c \in Conns, EndSession(c)
      PROVE  ChannelType'
  <2>1. chanSem[c] = sessions[c] /\ sessions[c] > 0
    BY <1>2 DEF EndSession, ChannelsExact
  <2>2. chanSem' \in [Conns -> 0..MaxChannels] /\ sessions' \in [Conns -> Nat]
    BY <1>2, <2>1 DEF EndSession
  <2> QED
    BY <1>2, <2>2 DEF EndSession, muxVars
<1>3. ASSUME NEW c \in Conns, StartProgram(c)
      PROVE  ChannelType'
  BY <1>3 DEF StartProgram
<1>4. ASSUME NEW c \in Conns, QueueRequest(c)
      PROVE  ChannelType'
  BY <1>4 DEF QueueRequest
<1>5. ASSUME NEW c \in Conns, Release(c)
      PROVE  ChannelType'
  <2>1. c \notin stalled
    BY <1>5 DEF Release, ServerInv, MuxInv
  <2> QED
    BY <1>5, <2>1 DEF Release, ForgetConnection
<1>6. ASSUME UNCHANGED <<chanSem, sessions, muxVars>>
      PROVE  ChannelType'
  BY <1>6 DEF muxVars
<1>7. ASSUME NEW c \in Conns,
             \/ Accept(c) \/ Reject(c) \/ StartHandshake(c) \/ AuthFails(c) \/ HandshakeFails(c)
             \/ Authenticated(c) \/ RefuseChannel(c) \/ AcceptChannelFails(c) \/ Request(c)
             \/ TransferData(c) \/ ClientCloses(c) \/ Watchdog(c) \/ ChannelsEnd(c)
             \/ ReportClosed(c) \/ Panic(c)
      PROVE  UNCHANGED <<chanSem, sessions, muxVars>>
  BY <1>7 DEF Accept, Reject, StartHandshake, AuthFails, HandshakeFails, Authenticated,
              RefuseChannel, AcceptChannelFails, Request, TransferData, ClientCloses, Watchdog,
              ChannelsEnd, ReportClosed, Panic, connVars
<1>8. ASSUME ListenerStep \/ TimePasses
      PROVE  UNCHANGED <<chanSem, sessions, muxVars>>
  BY <1>8, ListenerStepFrame DEF TimePasses, connVars
<1> QED
  BY <1>1, <1>2, <1>3, <1>4, <1>5, <1>6, <1>7, <1>8
     DEF Next, ClientStep, HandlerStep, ListenerStep

LEMMA StepInv == ServerInv /\ [Next]_vars => ServerInv'
<1> SUFFICES ASSUME ServerInv, [Next]_vars PROVE ServerInv'
  OBVIOUS
<1>1. TypeOK'
  BY StepListenType, StepTimeType, StepHandlerType, StepChannelType DEF ServerInv, TypeOK
<1>2. SlotsExact' /\ ChannelsExact' /\ MuxInv'
  BY StepSlots, StepChannels, StepMux DEF ServerInv
<1> QED
  BY <1>1, <1>2 DEF ServerInv

LEMMA ServerInvariant == Spec => []ServerInv
<1>1. Init => ServerInv
  BY InitInv
<1> QED
  BY <1>1, StepInv, PTL DEF Spec

------------------------------------------------------------------------------
(***************************************************************************)
(* What is reported, and when an idle connection ends.                     *)
(***************************************************************************)
LEMMA AppendSecond ==
  ASSUME NEW x, NEW y
  PROVE  Append(<<x>>, y) = <<x, y>>
<1> DEFINE appended == Append(<<x>>, y)
           pair == <<x, y>>
<1>1. appended \in Seq({x, y}) /\ pair \in Seq({x, y})
  OBVIOUS
<1>2. Len(appended) = 2 /\ Len(pair) = 2
  OBVIOUS
<1>3. appended[1] = pair[1] /\ appended[2] = pair[2]
  OBVIOUS
<1>4. \A i \in 1..Len(appended) : appended[i] = pair[i]
  BY <1>2, <1>3
<1> HIDE DEF appended, pair
<1>5. appended = pair
  BY <1>1, <1>2, <1>4, SeqEqual
<1> QED
  BY <1>5 DEF appended, pair

LEMMA StepReport ==
  ASSUME HandlerType, ReportInv, [Next]_vars
  PROVE  ReportInv'
<1> USE DEF HandlerType, HandlerState, ReportInv
<1>1. ASSUME NEW c \in Conns, StartHandshake(c)
      PROVE  ReportInv'
  <2>1. events[c] = <<>>
    BY <1>1 DEF StartHandshake
  <2>2. Append(<<>>, "opened") = <<"opened">>
    OBVIOUS
  <2>3. events' = [events EXCEPT ![c] = <<"opened">>]
    BY ONLY <1>1, <2>1, <2>2 DEF StartHandshake, Publish
  <2> QED
    BY <1>1, <2>3 DEF StartHandshake
<1>2. ASSUME NEW c \in Conns, HandshakeFails(c) \/ ReportClosed(c)
      PROVE  ReportInv'
  <2>1. handler[c] \in {"handshake", "ended"} /\ handler' = [handler EXCEPT ![c] = "returning"]
    BY <1>2 DEF HandshakeFails, ReportClosed
  <2>2. c \notin panicked /\ panicked' = panicked
    BY <1>2, <2>1 DEF HandshakeFails, ReportClosed
  <2>3. Publish(c, "closed")
    BY <1>2 DEF HandshakeFails, ReportClosed
  <2>4. events[c] = <<"opened">>
    BY <2>1
  <2>5. Append(<<"opened">>, "closed") = <<"opened", "closed">>
    BY AppendSecond
  <2>6. events' = [events EXCEPT ![c] = <<"opened", "closed">>]
    BY ONLY <2>3, <2>4, <2>5 DEF Publish
  <2> QED
    BY <2>1, <2>2, <2>6
<1>3. ASSUME NEW c \in Conns, Accept(c) \/ Reject(c) \/ Authenticated(c) \/ ChannelsEnd(c)
      PROVE  ReportInv'
  BY <1>3 DEF Accept, Reject, Authenticated, ChannelsEnd
<1>4. ASSUME NEW c \in Conns, Panic(c)
      PROVE  ReportInv'
  BY <1>4 DEF Panic
<1>5. ASSUME NEW c \in Conns, Release(c)
      PROVE  ReportInv'
  BY <1>5 DEF Release
<1>6. ASSUME UNCHANGED <<handler, panicked, events>>
      PROVE  ReportInv'
  BY <1>6
<1>7. ASSUME NEW c \in Conns,
             \/ AuthFails(c) \/ RefuseChannel(c) \/ AcceptChannelFails(c) \/ StartSession(c)
             \/ Request(c) \/ StartProgram(c) \/ QueueRequest(c) \/ TransferData(c)
             \/ ClientCloses(c) \/ Watchdog(c) \/ EndSession(c)
      PROVE  UNCHANGED <<handler, panicked, events>>
  BY <1>7 DEF AuthFails, RefuseChannel, AcceptChannelFails, StartSession, Request, StartProgram,
              QueueRequest, TransferData, ClientCloses, Watchdog, EndSession, connVars
<1>8. ASSUME ListenerStep \/ TimePasses
      PROVE  UNCHANGED <<handler, panicked, events>>
  BY <1>8, ListenerStepFrame DEF TimePasses, connVars
<1> QED
  BY <1>1, <1>2, <1>3, <1>4, <1>5, <1>6, <1>7, <1>8
     DEF Next, ClientStep, HandlerStep, ListenerStep

LEMMA StepWatch ==
  ASSUME TimeType, HandlerType, WatchInv, [Next]_vars
  PROVE  WatchInv'
<1> USE ServerAssumption DEF TimeType, HandlerType, WatchInv
<1>1. ASSUME NEW c \in Conns, Authenticated(c)
      PROVE  WatchInv'
  BY <1>1 DEF Authenticated
<1>2. ASSUME NEW c \in Conns,
             \/ RefuseChannel(c) \/ AcceptChannelFails(c) \/ StartSession(c)
             \/ Request(c) \/ StartProgram(c)
      PROVE  WatchInv'
  <2>1. Refresh(c) /\ UNCHANGED <<handler, socket, watching>>
    BY <1>2 DEF RefuseChannel, AcceptChannelFails, StartSession, Request, StartProgram, connVars
  <2> QED
    BY <2>1 DEF Refresh
<1>3. ASSUME NEW c \in Conns, Watchdog(c)
      PROVE  WatchInv'
  BY <1>3 DEF Watchdog
<1>4. ASSUME NEW c \in Conns, ChannelsEnd(c)
      PROVE  WatchInv'
  BY <1>4 DEF ChannelsEnd, timeVars
<1>5. ASSUME NEW c \in Conns,
             \/ Accept(c) \/ Reject(c) \/ StartHandshake(c) \/ HandshakeFails(c)
             \/ ReportClosed(c) \/ Panic(c) \/ Release(c)
      PROVE  WatchInv'
  <2>1. UNCHANGED <<idleFor, ticksIn, watching>>
    BY <1>5 DEF Accept, Reject, StartHandshake, HandshakeFails, ReportClosed, Panic, Release, timeVars
  <2>2. \A d \in Conns : handler'[d] = "serving" => handler[d] = "serving" /\ socket'[d] = socket[d]
    BY <1>5 DEF Accept, Reject, StartHandshake, HandshakeFails, ReportClosed, Panic, Release
  <2> QED
    BY <2>1, <2>2
<1>6. ASSUME NEW c \in Conns, ClientCloses(c)
      PROVE  WatchInv'
  BY <1>6 DEF ClientCloses, timeVars
<1>7. ASSUME TimePasses
      PROVE  WatchInv'
  <2>1. UNCHANGED <<handler, socket, watching>>
    BY <1>7 DEF TimePasses, connVars
  <2>2. ASSUME NEW c \in Conns, handler[c] = "serving", socket[c]
        PROVE  idleFor'[c] + ticksIn'[c] < 2 * IdleTimeout
    <3>1. c \in watching /\ idleFor[c] + ticksIn[c] < 2 * IdleTimeout
      BY <2>2
    <3>2. ticksIn[c] > 0
      BY <1>7, <3>1 DEF TimePasses, TimerDue
    <3>3. idleFor'[c] = idleFor[c] + 1 /\ ticksIn'[c] = ticksIn[c] - 1
      BY <1>7, <2>2, <3>1, <3>2 DEF TimePasses, Older, Sooner
    <3> QED
      BY <3>1, <3>2, <3>3
  <2> QED
    BY <2>1, <2>2
<1>8. ASSUME UNCHANGED <<handler, socket, watching, idleFor, ticksIn>>
      PROVE  WatchInv'
  BY <1>8
<1>9. ASSUME NEW c \in Conns, AuthFails(c) \/ QueueRequest(c) \/ TransferData(c) \/ EndSession(c)
      PROVE  UNCHANGED <<handler, socket, watching, idleFor, ticksIn>>
  BY <1>9 DEF AuthFails, QueueRequest, TransferData, EndSession, connVars, timeVars
<1>10. ASSUME ListenerStep
       PROVE  UNCHANGED <<handler, socket, watching, idleFor, ticksIn>>
  BY <1>10, ListenerStepFrame DEF connVars, timeVars
<1> QED
  BY <1>1, <1>2, <1>3, <1>4, <1>5, <1>6, <1>7, <1>8, <1>9, <1>10
     DEF Next, ClientStep, HandlerStep, ListenerStep

------------------------------------------------------------------------------
\* Every reachable state is well typed; neither semaphore passes its capacity or falls below
\* zero.
THEOREM TypeCorrect == Spec => []TypeOK
<1>1. ServerInv => TypeOK
  BY DEF ServerInv
<1> QED
  BY <1>1, ServerInvariant, PTL

\* However connections end, no slot of s.sem leaks and none is given out twice.
THEOREM SlotsNeverLeak == Spec => []SlotsExact
<1>1. ServerInv => SlotsExact
  BY DEF ServerInv
<1> QED
  BY <1>1, ServerInvariant, PTL

\* chanSem counts the session goroutines of its connection, those that outlive it included.
THEOREM ChannelsNeverLeak == Spec => []ChannelsExact
<1>1. ServerInv => ChannelsExact
  BY DEF ServerInv
<1> QED
  BY <1>1, ServerInvariant, PTL

\* No token of either semaphore is lost or given out twice.
THEOREM TokensNeverLeak == Spec => []TokensExact
<1>1. ServerInv => TokensExact
  BY DEF ServerInv, TokensExact
<1> QED
  BY <1>1, ServerInvariant, PTL

\* connection.opened is followed by connection.closed once, unless the handler panicked.
THEOREM ReportedOnce == Spec => []ClosedReported
<1>1. Init => ReportInv
  BY InitInv
<1>2. ServerInv /\ ReportInv /\ [Next]_vars => ReportInv'
  BY StepReport DEF ServerInv, TypeOK
<1>3. ReportInv => ClosedReported
  BY DEF ReportInv, ClosedReported
<1> QED
  BY <1>1, <1>2, <1>3, ServerInvariant, PTL DEF Spec

\* The watchdog ends a silent connection before it has been silent for twice IdleTimeout.
THEOREM WatchdogInTime == Spec => []IdleBounded
<1>1. Init => WatchInv
  BY InitInv
<1>2. ServerInv /\ WatchInv /\ [Next]_vars => WatchInv'
  BY StepWatch DEF ServerInv, TypeOK
<1>3. ServerInv /\ WatchInv => IdleBounded
  <2> SUFFICES ASSUME ServerInv, WatchInv, NEW c \in Conns, handler[c] = "serving", socket[c]
               PROVE  idleFor[c] < 2 * IdleTimeout
    BY DEF IdleBounded
  <2>1. idleFor[c] \in Nat /\ ticksIn[c] \in Nat /\ IdleTimeout \in Nat
    BY ServerAssumption DEF ServerInv, TypeOK, TimeType
  <2> QED
    BY <2>1 DEF WatchInv
<1> QED
  BY <1>1, <1>2, <1>3, ServerInvariant, PTL DEF Spec
=============================================================================
