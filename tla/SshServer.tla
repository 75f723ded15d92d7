----------------------------- MODULE SshServer ------------------------------
(***************************************************************************)
(* The connection level of the SSH server, internal/ssh/server.go: the     *)
(* listeners, the slots of s.sem, one handler goroutine for each           *)
(* connection with its handshake deadline, its idle watchdog and its       *)
(* session goroutines, and how all of it ends.                             *)
(*                                                                         *)
(* Time is discrete and only differences of it are kept: how long the      *)
(* handshake may still take, how long ago the connection was refreshed,    *)
(* how long until the watchdog's ticker fires.  A timer that is due fires  *)
(* before time goes on.  What a session does is in SessionChannel.         *)
(***************************************************************************)
EXTENDS Naturals, Sequences, FiniteSets

CONSTANTS
  Addrs,             \* cfg.Server.Listen
  Conns,             \* TCP connections clients may open
  MaxConnections,    \* cap(s.sem)
  MaxChannels,       \* maxChannelsPerConn, 8
  RequestBuffer,     \* requests the transport queues for one channel, 16
  MaxTries,          \* MaxAuthTries, 6
  HandshakeTimeout,  \* 30 s
  IdleTimeout        \* cfg.Server.IdleTimeout

ASSUME ServerAssumption ==
  /\ IsFiniteSet(Conns)
  /\ MaxConnections \in Nat \ {0}
  /\ MaxChannels \in Nat \ {0}
  /\ RequestBuffer \in Nat
  /\ MaxTries \in Nat \ {0}
  /\ HandshakeTimeout \in Nat \ {0}
  /\ IdleTimeout \in Nat \ {0}

VARIABLES
  listener,  \* listener[a]: where listenOne(a) stands
  swept,     \* has Server.Close walked s.listeners?
  cancelled, \* is the context done?
  sem,       \* tokens in s.sem
  handler,   \* handler[c]: where the goroutine of connection c stands
  panicked,  \* history: connections whose handler was recovered from a panic
  socket,    \* socket[c]: is the TCP connection open?
  tries,     \* tries[c]: failed authentications
  deadline,  \* deadline[c]: time left to the handshake
  idleFor,   \* idleFor[c]: time since lastAct
  streamed,  \* history: connections that sent data of a transfer since the last tick
  ticksIn,   \* ticksIn[c]: time until the watchdog's ticker fires
  watching,  \* the connections whose watchdog goroutine is in its loop
  chanSem,   \* chanSem[c]: tokens in chanSem
  sessions,  \* sessions[c]: session goroutines that have not returned
  unserved,  \* connections with a channel whose requests nobody takes any more
  queued,    \* queued[c]: requests waiting at such a channel
  stalled,   \* connections whose transport waits for room in that queue
  events     \* events[c]: what was published for c

listenVars == <<listener, swept, cancelled>>
timeVars == <<deadline, idleFor, ticksIn, streamed>>
muxVars == <<unserved, queued, stalled>>
connVars == <<sem, handler, panicked, socket, tries, watching, chanSem, sessions, events, muxVars>>
vars == <<listenVars, timeVars, connVars>>

HandlerState ==
  {"absent", "rejected", "spawned", "handshake", "serving", "ended", "returning", "gone"}

\* The handlers that hold a token of s.sem.
Holding == {c \in Conns : handler[c] \in {"spawned", "handshake", "serving", "ended", "returning"}}

Publish(c, kind) == events' = [events EXCEPT ![c] = Append(@, kind)]

Init ==
  /\ listener = [a \in Addrs |-> "starting"]
  /\ swept = FALSE
  /\ cancelled = FALSE
  /\ sem = 0
  /\ handler = [c \in Conns |-> "absent"]
  /\ panicked = {}
  /\ socket = [c \in Conns |-> FALSE]
  /\ tries = [c \in Conns |-> 0]
  /\ deadline = [c \in Conns |-> 0]
  /\ idleFor = [c \in Conns |-> 0]
  /\ streamed = {}
  /\ ticksIn = [c \in Conns |-> 0]
  /\ watching = {}
  /\ chanSem = [c \in Conns |-> 0]
  /\ sessions = [c \in Conns |-> 0]
  /\ unserved = {}
  /\ queued = [c \in Conns |-> 0]
  /\ stalled = {}
  /\ events = [c \in Conns |-> <<>>]

(***************************************************************************)
(* Listeners.  listenOne binds, adds the listener to s.listeners, starts a *)
(* goroutine that closes it when the context is done, and accepts.         *)
(***************************************************************************)
Bind(a) ==
  /\ listener[a] = "starting"
  /\ \E result \in {"open", "failed"} : listener' = [listener EXCEPT ![a] = result]
  /\ UNCHANGED <<swept, cancelled, timeVars, connVars>>

\* Accept fails, for want of file descriptors say: listenOne returns and leaves the socket
\* listening.
AcceptFails(a) ==
  /\ listener[a] = "open"
  /\ ~cancelled
  /\ listener' = [listener EXCEPT ![a] = "deserted"]
  /\ UNCHANGED <<swept, cancelled, timeVars, connVars>>

Signal ==
  /\ ~cancelled
  /\ cancelled' = TRUE
  /\ UNCHANGED <<listener, swept, timeVars, connVars>>

\* Server.Run waits for every listener; its error, if any, makes main cancel the context.
RunReturned == \A a \in Addrs : listener[a] \in {"failed", "deserted", "closed"}

CancelOnError ==
  /\ RunReturned
  /\ \E a \in Addrs : listener[a] \in {"failed", "deserted"}
  /\ ~cancelled
  /\ cancelled' = TRUE
  /\ UNCHANGED <<listener, swept, timeVars, connVars>>

Bound(a) == listener[a] \in {"open", "deserted"}

\* srv.Close, which main calls once the context is done.
CloseServer ==
  /\ cancelled
  /\ ~swept
  /\ swept' = TRUE
  /\ listener' = [a \in Addrs |-> IF Bound(a) THEN "closed" ELSE listener[a]]
  /\ UNCHANGED <<cancelled, timeVars, connVars>>

\* Bug: only Server.Close closes listeners.
NoListenerGoroutine(a) == FALSE /\ UNCHANGED vars

\* go func() { <-ctx.Done(); ln.Close() }()
ListenerGoroutine(a) ==
  /\ cancelled
  /\ Bound(a)
  /\ listener' = [listener EXCEPT ![a] = "closed"]
  /\ UNCHANGED <<swept, cancelled, timeVars, connVars>>

(***************************************************************************)
(* The accept loop, and the goroutine it starts.                           *)
(***************************************************************************)
Accepting == \E a \in Addrs : listener[a] = "open"

\* case s.sem <- struct{}{}
Accept(c) ==
  /\ Accepting
  /\ handler[c] = "absent"
  /\ sem < MaxConnections
  /\ sem' = sem + 1
  /\ handler' = [handler EXCEPT ![c] = "spawned"]
  /\ socket' = [socket EXCEPT ![c] = TRUE]
  /\ UNCHANGED <<panicked, tries, watching, chanSem, sessions, events, muxVars, listenVars, timeVars>>

\* default: nc.Close()
Reject(c) ==
  /\ Accepting
  /\ handler[c] = "absent"
  /\ sem >= MaxConnections
  /\ handler' = [handler EXCEPT ![c] = "rejected"]
  /\ UNCHANGED <<sem, panicked, socket, tries, watching, chanSem, sessions, events,
                 muxVars, listenVars, timeVars>>

\* handleConn publishes connection.opened and sets the handshake deadline.
StartHandshake(c) ==
  /\ handler[c] = "spawned"
  /\ Publish(c, "opened")
  /\ deadline' = [deadline EXCEPT ![c] = HandshakeTimeout]
  /\ handler' = [handler EXCEPT ![c] = "handshake"]
  /\ UNCHANGED <<sem, panicked, socket, tries, watching, chanSem, sessions, muxVars, listenVars,
                 idleFor, ticksIn, streamed>>

\* A failed authentication; ssh.NewServerConn gives up after MaxTries of them.
AuthFails(c) ==
  /\ handler[c] = "handshake"
  /\ socket[c]
  /\ deadline[c] > 0
  /\ tries[c] < MaxTries
  /\ tries' = [tries EXCEPT ![c] = @ + 1]
  /\ UNCHANGED <<sem, handler, panicked, socket, watching, chanSem, sessions, events,
                 muxVars, listenVars, timeVars>>

\* Bug: a failed handshake is not reported.
HandshakeFailsSilently(c) ==
  /\ handler[c] = "handshake"
  /\ ~socket[c] \/ tries[c] = MaxTries \/ deadline[c] = 0
  /\ handler' = [handler EXCEPT ![c] = "returning"]
  /\ UNCHANGED <<sem, panicked, socket, tries, watching, chanSem, sessions, events, muxVars, listenVars,
                 timeVars>>

\* NewServerConn fails: the client is gone, it tried too often, or the deadline has passed.
HandshakeFails(c) ==
  /\ handler[c] = "handshake"
  /\ ~socket[c] \/ tries[c] = MaxTries \/ deadline[c] = 0
  /\ Publish(c, "closed")
  /\ handler' = [handler EXCEPT ![c] = "returning"]
  /\ UNCHANGED <<sem, panicked, socket, tries, watching, chanSem, sessions, muxVars, listenVars, timeVars>>

\* The client is authenticated: the deadline is cleared and the watchdog started.
Authenticated(c) ==
  /\ handler[c] = "handshake"
  /\ socket[c]
  /\ tries[c] < MaxTries
  /\ deadline[c] > 0
  /\ handler' = [handler EXCEPT ![c] = "serving"]
  /\ idleFor' = [idleFor EXCEPT ![c] = 0]
  /\ ticksIn' = [ticksIn EXCEPT ![c] = IdleTimeout]
  /\ watching' = watching \union {c}
  /\ UNCHANGED <<sem, panicked, socket, tries, chanSem, sessions, events, muxVars, listenVars, deadline, streamed>>

(***************************************************************************)
(* The loop over chans.  Each arrival calls refresh first.                 *)
(***************************************************************************)
Refresh(c) ==
  /\ idleFor' = [idleFor EXCEPT ![c] = 0]
  /\ UNCHANGED <<deadline, ticksIn, streamed>>

\* A channel is opened: not a session, one too many, or its Accept fails.  In each case
\* the token is not kept.
RefuseChannel(c) ==
  /\ handler[c] = "serving"
  /\ c \notin stalled
  /\ socket[c]
  /\ Refresh(c)
  /\ UNCHANGED <<connVars, listenVars>>

\* Bug: a failed Accept keeps its token.
AcceptChannelFailsHolding(c) ==
  /\ handler[c] = "serving"
  /\ chanSem[c] < MaxChannels
  /\ chanSem' = [chanSem EXCEPT ![c] = @ + 1]
  /\ Refresh(c)
  /\ UNCHANGED <<sem, handler, panicked, socket, tries, watching, sessions, events, muxVars, listenVars>>

\* newCh.Accept fails because the transport is going down: <-chanSem.
AcceptChannelFails(c) ==
  /\ handler[c] = "serving"
  /\ c \notin stalled
  /\ chanSem[c] < MaxChannels
  /\ Refresh(c)
  /\ UNCHANGED <<connVars, listenVars>>

StartSession(c) ==
  /\ handler[c] = "serving"
  /\ c \notin stalled
  /\ socket[c]
  /\ chanSem[c] < MaxChannels
  /\ chanSem' = [chanSem EXCEPT ![c] = @ + 1]
  /\ sessions' = [sessions EXCEPT ![c] = @ + 1]
  /\ Refresh(c)
  /\ UNCHANGED <<sem, handler, panicked, socket, tries, watching, events, muxVars, listenVars>>

\* A request that handleSession takes, or input to an interactive shell.
Request(c) ==
  /\ sessions[c] > 0
  /\ socket[c]
  /\ c \notin stalled
  /\ Refresh(c)
  /\ UNCHANGED <<connVars, listenVars>>

\* The request is exec, shell or subsystem: handleSession runs it to its end and never
\* comes back to the queue of requests of its channel.
StartProgram(c) ==
  /\ sessions[c] > 0
  /\ socket[c]
  /\ c \notin stalled
  /\ Refresh(c)
  /\ unserved' = unserved \union {c}
  /\ UNCHANGED <<sem, handler, panicked, socket, tries, watching, chanSem, sessions, queued,
                 stalled, events, listenVars>>

\* A request, say window-change, on such a channel: the transport queues it, and when the
\* queue is full waits for room, with every other packet of the connection behind it.
\* (A channel counts as unserved for the rest of the connection, closed or not.)
QueueRequest(c) ==
  /\ c \in unserved \ stalled
  /\ socket[c]
  /\ IF queued[c] < RequestBuffer
     THEN queued' = [queued EXCEPT ![c] = @ + 1] /\ UNCHANGED stalled
     ELSE stalled' = stalled \union {c} /\ UNCHANGED queued
  /\ UNCHANGED <<sem, handler, panicked, socket, tries, watching, chanSem, sessions, unserved,
                 events, listenVars, timeVars>>

\* Data of an SFTP transfer: sftp.RequestServer reads the channel, and nothing calls refresh.
TransferData(c) ==
  /\ c \in unserved \ stalled
  /\ sessions[c] > 0
  /\ socket[c]
  /\ streamed' = streamed \union {c}
  /\ UNCHANGED <<deadline, idleFor, ticksIn, connVars, listenVars>>

\* handleSession returns, or is recovered from a panic: its last events are published and
\* the token is released.  It may outlive the connection and its handler.
EndSession(c) ==
  /\ sessions[c] > 0
  /\ sessions' = [sessions EXCEPT ![c] = @ - 1]
  /\ chanSem' = [chanSem EXCEPT ![c] = @ - 1]
  /\ UNCHANGED <<sem, handler, panicked, socket, tries, watching, events, muxVars, listenVars, timeVars>>

(***************************************************************************)
(* The end of a connection.                                                *)
(***************************************************************************)
ClientCloses(c) ==
  /\ socket[c]
  /\ socket' = [socket EXCEPT ![c] = FALSE]
  /\ UNCHANGED <<sem, handler, panicked, tries, watching, chanSem, sessions, events,
                 muxVars, listenVars, timeVars>>

\* Bug: the elapsed time is measured to the previous tick.
WatchdogLate(c) ==
  /\ c \in watching
  /\ ticksIn[c] = 0
  /\ ticksIn' = [ticksIn EXCEPT ![c] = IdleTimeout]
  /\ IF idleFor[c] > IdleTimeout
     THEN socket' = [socket EXCEPT ![c] = FALSE] /\ watching' = watching \ {c}
     ELSE UNCHANGED <<socket, watching>>
  /\ streamed' = streamed \ {c}
  /\ UNCHANGED <<sem, handler, panicked, tries, chanSem, sessions, events, muxVars, listenVars,
                 deadline, idleFor>>

\* Bug: the watchdog returns after the first tick that finds the connection active.
WatchdogOnce(c) ==
  /\ c \in watching
  /\ ticksIn[c] = 0
  /\ watching' = watching \ {c}
  /\ socket' = [socket EXCEPT ![c] = @ /\ idleFor[c] < IdleTimeout]
  /\ UNCHANGED <<sem, handler, panicked, tries, chanSem, sessions, events, muxVars, listenVars, timeVars>>

\* case <-t.C
Watchdog(c) ==
  /\ c \in watching
  /\ ticksIn[c] = 0
  /\ ticksIn' = [ticksIn EXCEPT ![c] = IdleTimeout]
  /\ IF idleFor[c] >= IdleTimeout
     THEN socket' = [socket EXCEPT ![c] = FALSE] /\ watching' = watching \ {c}
     ELSE UNCHANGED <<socket, watching>>
  /\ streamed' = streamed \ {c}
  /\ UNCHANGED <<sem, handler, panicked, tries, chanSem, sessions, events, muxVars, listenVars,
                 deadline, idleFor>>

\* The loop over chans ends when the transport notices the end; close(stopWatch).
ChannelsEnd(c) ==
  /\ handler[c] = "serving"
  /\ ~socket[c]
  /\ c \notin stalled
  /\ handler' = [handler EXCEPT ![c] = "ended"]
  /\ watching' = watching \ {c}
  /\ UNCHANGED <<sem, panicked, socket, tries, chanSem, sessions, events, muxVars, listenVars, timeVars>>

\* conn.Wait; closeConn
ReportClosed(c) ==
  /\ handler[c] = "ended"
  /\ Publish(c, "closed")
  /\ handler' = [handler EXCEPT ![c] = "returning"]
  /\ UNCHANGED <<sem, panicked, socket, tries, watching, chanSem, sessions, muxVars, listenVars, timeVars>>

\* A panic in the handler, for example in an authentication callback, is recovered.
Panic(c) ==
  /\ handler[c] = "handshake"
  /\ panicked' = panicked \union {c}
  /\ handler' = [handler EXCEPT ![c] = "returning"]
  /\ UNCHANGED <<sem, socket, tries, watching, chanSem, sessions, events, muxVars, listenVars, timeVars>>

\* What belongs to the connection goes with it.
ForgetConnection(c) ==
  /\ tries' = [tries EXCEPT ![c] = 0]
  /\ unserved' = unserved \ {c}
  /\ queued' = [queued EXCEPT ![c] = 0]
  /\ streamed' = streamed \ {c}

\* Bug: the token is released by the code after handleConn, which a panic skips.
ReleaseUnlessPanicked(c) ==
  /\ handler[c] = "returning"
  /\ handler' = [handler EXCEPT ![c] = "gone"]
  /\ socket' = [socket EXCEPT ![c] = FALSE]
  /\ sem' = IF c \in panicked THEN sem ELSE sem - 1
  /\ ForgetConnection(c)
  /\ UNCHANGED <<panicked, watching, chanSem, sessions, events, stalled, listenVars,
                 deadline, idleFor, ticksIn>>

\* The deferred nc.Close and <-s.sem.
Release(c) ==
  /\ handler[c] = "returning"
  /\ handler' = [handler EXCEPT ![c] = "gone"]
  /\ socket' = [socket EXCEPT ![c] = FALSE]
  /\ sem' = sem - 1
  /\ ForgetConnection(c)
  /\ UNCHANGED <<panicked, watching, chanSem, sessions, events, stalled, listenVars,
                 deadline, idleFor, ticksIn>>

(***************************************************************************)
(* Time.  Nothing compares an age with more than 2 * IdleTimeout.          *)
(***************************************************************************)
TimerDue ==
  \/ \E c \in watching : ticksIn[c] = 0
  \/ \E c \in Conns : handler[c] = "handshake" /\ deadline[c] = 0

Older(age) == IF age < 2 * IdleTimeout THEN age + 1 ELSE age
Sooner(left) == IF left > 0 THEN left - 1 ELSE left

TimePasses ==
  /\ ~TimerDue
  /\ deadline' = [c \in Conns |-> IF handler[c] = "handshake" THEN Sooner(deadline[c]) ELSE 0]
  /\ idleFor' = [c \in Conns |-> IF handler[c] = "serving" THEN Older(idleFor[c]) ELSE 0]
  /\ ticksIn' = [c \in Conns |-> IF c \in watching THEN Sooner(ticksIn[c]) ELSE 0]
  /\ UNCHANGED <<streamed, connVars, listenVars>>

HandlerStep(c) ==
  \/ StartHandshake(c) \/ HandshakeFails(c)
  \/ ChannelsEnd(c) \/ ReportClosed(c) \/ Release(c)

ClientStep(c) ==
  \/ Accept(c) \/ Reject(c) \/ AuthFails(c) \/ Authenticated(c)
  \/ RefuseChannel(c) \/ AcceptChannelFails(c) \/ StartSession(c)
  \/ Request(c) \/ StartProgram(c) \/ QueueRequest(c) \/ TransferData(c) \/ ClientCloses(c)

Next ==
  \/ \E a \in Addrs : Bind(a) \/ AcceptFails(a) \/ ListenerGoroutine(a)
  \/ Signal \/ CancelOnError \/ CloseServer
  \/ \E c \in Conns :
       ClientStep(c) \/ HandlerStep(c) \/ Panic(c) \/ Watchdog(c) \/ EndSession(c)
  \/ TimePasses

Spec == Init /\ [][Next]_vars

(***************************************************************************)
(* Fairness: goroutines are scheduled, timers fire, time goes on, and what *)
(* a session executes ends once the transport has seen its connection      *)
(* closed.  Clients promise nothing, and nothing makes a signal arrive.    *)
(***************************************************************************)
Fairness ==
  /\ WF_vars(TimePasses)
  /\ WF_vars(CancelOnError)
  /\ WF_vars(CloseServer)
  /\ \A a \in Addrs : WF_vars(Bind(a)) /\ WF_vars(ListenerGoroutine(a))
  /\ \A c \in Conns :
       /\ WF_vars(HandlerStep(c))
       /\ WF_vars(Watchdog(c))
       /\ WF_vars(EndSession(c) /\ ~socket[c] /\ c \notin stalled)

FairSpec == Spec /\ Fairness

(***************************************************************************)
(* Properties.                                                             *)
(***************************************************************************)
ListenType ==
  /\ listener \in [Addrs -> {"starting", "open", "failed", "deserted", "closed"}]
  /\ swept \in BOOLEAN /\ cancelled \in BOOLEAN

TimeType ==
  /\ deadline \in [Conns -> 0..HandshakeTimeout]
  /\ idleFor \in [Conns -> 0..(2 * IdleTimeout)]
  /\ ticksIn \in [Conns -> 0..IdleTimeout]
  /\ streamed \subseteq Conns

HandlerType ==
  /\ sem \in 0..MaxConnections
  /\ handler \in [Conns -> HandlerState]
  /\ panicked \subseteq Conns
  /\ socket \in [Conns -> BOOLEAN]
  /\ tries \in [Conns -> 0..MaxTries]
  /\ watching \subseteq Conns
  /\ events \in [Conns -> Seq({"opened", "closed"})]

ChannelType ==
  /\ chanSem \in [Conns -> 0..MaxChannels]
  /\ sessions \in [Conns -> Nat]
  /\ unserved \subseteq Conns /\ stalled \subseteq unserved
  /\ queued \in [Conns -> 0..RequestBuffer]

\* The types of the variables, and the bounds of both semaphores.
TypeOK == ListenType /\ TimeType /\ HandlerType /\ ChannelType

\* The semaphore holds one token for each handler that is running, through rejections,
\* failed handshakes and recovered panics: no slot leaks and none is given out twice.
SlotsExact == sem = Cardinality(Holding)

\* The channel semaphore of a connection counts its session goroutines, through refused
\* and failed channels and sessions that outlive their connection.
ChannelsExact == \A c \in Conns : chanSem[c] = sessions[c]

\* Neither semaphore loses a token or gives one twice, whatever happens to a connection and
\* to the sessions that outlive it.
TokensExact == SlotsExact /\ ChannelsExact

\* A connection that was reported opened is reported closed, once and after it, however it
\* ends; only a recovered panic leaves it open for ever in the record.
ClosedReported ==
  \A c \in Conns :
    /\ handler[c] = "gone" =>
         events[c] = IF c \in panicked THEN <<"opened">> ELSE <<"opened", "closed">>
    /\ handler[c] \in {"handshake", "serving", "ended"} => events[c] = <<"opened">>

\* The watchdog looks once in IdleTimeout, and so ends a silent connection before twice
\* that time is over.
IdleBounded ==
  \A c \in Conns : (handler[c] = "serving" /\ socket[c]) => idleFor[c] < 2 * IdleTimeout

\* After a cancellation no listener stays open, even one that was bound after Server.Close
\* had walked the list.
ListenersClose == cancelled ~> (\A a \in Addrs : listener[a] \in {"failed", "closed"})

StaysActive(c) ==
  []<><<RefuseChannel(c) \/ AcceptChannelFails(c) \/ StartSession(c)
        \/ Request(c) \/ StartProgram(c)>>_vars

\* A connection gives its slot back unless its client stays active for ever: neither an
\* unfinished handshake nor an idle channel occupies a slot for good.  The exception is a
\* connection whose transport is stalled by requests nobody takes.
SlotReleased ==
  \A c \in Conns :
    StaysActive(c) \/ ((c \in Holding) ~> (handler[c] = "gone" \/ c \in stalled))

\* server.go on the watchdog: without it a client that hangs could occupy its slot for long;
\* with it, a connection without channel activity is ended, and so gives back its slot.
NoSlotHeldForEver ==
  \A c \in Conns : StaysActive(c) \/ ((c \in Holding) ~> (handler[c] = "gone"))

\* server.go: the watchdog disconnects after IdleTimeout without channel activity.
CutOnlyWhenQuiet ==
  [][\A c \in Conns : (Watchdog(c) /\ socket'[c] # socket[c]) => c \notin streamed]_vars
=============================================================================
