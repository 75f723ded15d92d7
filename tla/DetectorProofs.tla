--------------------------- MODULE DetectorProofs ---------------------------
(***************************************************************************)
(* Proofs about the detector, for any connections, sessions, activities    *)
(* and limits.                                                             *)
(*                                                                         *)
(* Nothing in handle forbids a connection.opened to replace the entry of a *)
(* connection that has raised alerts, or a second connection.closed to     *)
(* remove the entry late events have brought back.  Neither happens only   *)
(* because of the order in which events enter the channel.                 *)
(* The same order explains what stays in the maps when a connection or a   *)
(* session is over.                                                        *)
(***************************************************************************)
EXTENDS Detector, SequenceTheorems, FiniteSetTheorems, TLAPS

------------------------------------------------------------------------------
(***************************************************************************)
(* The table of rules.                                                     *)
(***************************************************************************)
LEMMA RuleTable ==
  /\ ActivityTypes = {"command.executed", "network.download_attempt", "file.written",
                       "network.connect_attempt"}
  /\ \A i \in DOMAIN Rules :
       i \in Nat /\ Rules[i].name \in RuleNames /\ Rules[i].points \in Nat
  /\ "weak_login_success" \in RuleNames
<1>1. DOMAIN Rules = 1..8
  BY DEF Rules
<1>2. \A i \in 1..8 : Rules[i].points \in Nat
  BY DEF Rules
<1>3. {Rules[i].on : i \in 1..8} =
        {"auth.attempt", "command.executed", "network.download_attempt", "file.written",
         "network.connect_attempt"}
  BY DEF Rules
<1>4. Rules[2].name = "weak_login_success"
  BY DEF Rules
<1> QED
  BY <1>1, <1>2, <1>3, <1>4 DEF ActivityTypes, RuleNames

LEMMA EventTable ==
  /\ \A e \in HandlerEvents : e.type \notin ActivityTypes
  /\ \A e \in SessionEvents : e.type \notin ActivityTypes
  /\ \A e \in ActivityEvents : e.type \in ActivityTypes /\ e.conn = Nobody /\ ~e.success
  /\ Alert.type = "alert" /\ "alert" \notin ActivityTypes
BY RuleTable DEF HandlerEvents, SessionEvents, ActivityEvents, Alert, Event

\* What an event of a given type looks like.
LEMMA EventShape ==
  ASSUME NEW STATE e, e \in Events
  PROVE  /\ e.type \in {"connection.opened", "connection.closed", "auth.attempt"} =>
              e \in HandlerEvents /\ e.conn \in Conns /\ e.sess = Nobody /\ About(e) = e.conn
         /\ e.type \in {"session.opened", "session.closed"} =>
              e \in SessionEvents /\ e.sess \in Sessions /\ e.conn = Owner[e.sess]
              /\ e.conn \in Conns /\ About(e) = e.conn
         /\ e.type \in ActivityTypes =>
              e \in ActivityEvents /\ e.sess \in Sessions /\ About(e) = Owner[e.sess]
         /\ e.type = "alert" => e = Alert /\ About(e) = Nobody
         /\ e.marks \subseteq RuleNames
<1> USE EventTable, RuleTable, DetectorAssumption
<1>1. CASE e = Alert
  BY <1>1 DEF Alert, Event, About
<1>2. CASE e \in HandlerEvents
  BY <1>2 DEF HandlerEvents, About
<1>3. CASE e \in SessionEvents /\ e.conn = Owner[e.sess]
  BY <1>3 DEF SessionEvents, About
<1>4. CASE e \in ActivityEvents
  BY <1>4 DEF ActivityEvents, About
<1> QED
  BY <1>1, <1>2, <1>3, <1>4 DEF Events

\* The events that are published are events.
LEMMA Published ==
  /\ Alert \in Events
  /\ \A c \in Conns, ok \in BOOLEAN : Attempt(c, ok) \in Events
  /\ \A c \in Conns : Event("connection.opened", c, Nobody) \in Events
  /\ \A c \in Conns : Event("connection.closed", c, Nobody) \in Events
  /\ \A s \in Sessions : Event("session.opened", Owner[s], s) \in Events
  /\ \A s \in Sessions : Event("session.closed", Owner[s], s) \in Events
  /\ \A s \in Sessions, a \in Activities : Act(s, a) \in Events
BY DetectorAssumption DEF Events, HandlerEvents, SessionEvents, ActivityEvents, Alert, Attempt, Event, Act

LEMMA MatchesAreRules ==
  ASSUME NEW STATE e, e \in Events
  PROVE  TextMatches(e) \subseteq RuleNames
BY RuleTable DEF TextMatches

------------------------------------------------------------------------------
(***************************************************************************)
(* Types.                                                                  *)
(***************************************************************************)
LEMMA PublishType ==
  ASSUME FeedType, NEW STATE q, q \in Seq(Events), Len(q) <= Capacity,
         NEW STATE e, e \in Events, PublishOnto(q, e)
  PROVE  /\ queue' \in {q, Append(q, e)}
         /\ queue' \in Seq(Events) /\ Len(queue') <= Capacity
         /\ dropped' \in Nat /\ dropped <= dropped' /\ unseen' \subseteq Events
<1>1. CASE Len(q) < Capacity
  <2>1. queue' = Append(q, e) /\ UNCHANGED <<dropped, unseen>>
    BY <1>1 DEF PublishOnto
  <2>2. Len(Append(q, e)) = Len(q) + 1 /\ Append(q, e) \in Seq(Events) /\ Len(q) \in Nat
    OBVIOUS
  <2> QED
    BY <1>1, <2>1, <2>2, DetectorAssumption DEF FeedType
<1>2. CASE ~(Len(q) < Capacity)
  BY <1>2 DEF FeedType, PublishOnto
<1> QED
  BY <1>1, <1>2

LEMMA NotifyType ==
  ASSUME FeedType, Notify
  PROVE  notifying' \in 0..NotifyCapacity /\ droppedAlerts' \in Nat
BY DetectorAssumption DEF FeedType, Notify, webhook

\* The channel after its head has been taken.
LEMMA Rest ==
  ASSUME FeedType, queue # <<>>
  PROVE  /\ Tail(queue) \in Seq(Events) /\ Len(Tail(queue)) = Len(queue) - 1
         /\ Len(Tail(queue)) <= Capacity /\ Len(queue) >= 1
         /\ Head(queue) = queue[1] /\ queue[1] \in Events
         /\ \A i \in 1..Len(Tail(queue)) : Tail(queue)[i] = queue[i + 1]
BY DetectorAssumption DEF FeedType

LEMMA TypeInit == Init => TypeOK
<1> SUFFICES ASSUME Init PROVE TypeOK
  OBVIOUS
<1>1. ClientType
  BY DetectorAssumption DEF Init, ClientType
<1>2. FeedType
  BY DetectorAssumption DEF Init, FeedType
<1>3. MapsType
  BY Published DEF Init, MapsType, Absent, Entries, Idle, Checking
<1>4. HistoryType
  BY DEF Init, HistoryType
<1> QED
  BY <1>1, <1>2, <1>3, <1>4 DEF TypeOK

\* What the goroutines of the clients do.
ClientStep ==
  \/ \E c \in Conns :
       \/ OpenConnection(c)
       \/ \E ok \in BOOLEAN : Authenticate(c, ok)
       \/ SkipAuthentication(c)
       \/ CloseConnection(c)
  \/ \E s \in Sessions :
       \/ AcceptChannel(s)
       \/ OpenSession(s)
       \/ \E a \in Activities : Do(s, a)
       \/ CloseSession(s)
       \/ AbandonSession(s)

\* What the goroutines of the detector do.
DetectorStep ==
  \/ \E c \in Conns : LoginAges(c)
  \/ Handle \/ MonitorDropped \/ Push

LEMMA NextCases == Next => ClientStep \/ DetectorStep
BY DEF Next, ClientStep, DetectorStep

LEMMA ClientStepType ==
  ASSUME TypeOK, ClientStep
  PROVE  TypeOK'
<1> USE DEF TypeOK
<1>1. UNCHANGED detectorVars
  BY DEF ClientStep, OpenConnection, Authenticate, SkipAuthentication, CloseConnection,
         AcceptChannel, OpenSession, Do, CloseSession, AbandonSession
<1>2. MapsType' /\ HistoryType'
  BY <1>1 DEF detectorVars, maps, monitor, webhook, history, MapsType, HistoryType, Checking
<1>3. FeedType'
  <2>1. UNCHANGED feed \/ \E e \in Events : Publish(e)
    BY Published DEF ClientStep, OpenConnection, Authenticate, SkipAuthentication,
           CloseConnection, AcceptChannel, OpenSession, Do, CloseSession, AbandonSession
  <2>2. CASE UNCHANGED feed
    BY <1>1, <2>2 DEF FeedType, feed, detectorVars, monitor, webhook
  <2>3. ASSUME NEW e \in Events, Publish(e)
        PROVE  FeedType'
    BY <1>1, <2>3, PublishType DEF FeedType, Publish, detectorVars, monitor, webhook
  <2> QED
    BY <2>1, <2>2, <2>3
<1>4. ClientType'
  <2> USE DEF ClientType
  <2>1. ASSUME NEW c \in Conns, OpenConnection(c) \/ SkipAuthentication(c) \/ CloseConnection(c)
        PROVE  ClientType'
    BY <2>1 DEF OpenConnection, SkipAuthentication, CloseConnection
  <2>2. ASSUME NEW c \in Conns, NEW ok \in BOOLEAN, Authenticate(c, ok)
        PROVE  ClientType'
    <3>1. TextMatches(Attempt(c, ok)) \subseteq RuleNames
      BY Published, MatchesAreRules
    <3> QED
      BY <2>2, <3>1, DetectorAssumption DEF Authenticate
  <2>3. ASSUME NEW s \in Sessions,
               AcceptChannel(s) \/ OpenSession(s) \/ CloseSession(s) \/ AbandonSession(s)
        PROVE  ClientType'
    BY <2>3 DEF AcceptChannel, OpenSession, CloseSession, AbandonSession
  <2>4. ASSUME NEW s \in Sessions, NEW a \in Activities, Do(s, a)
        PROVE  ClientType'
    <3>1. TextMatches(Act(s, a)) \subseteq RuleNames /\ Owner[s] \in Conns
      BY Published, MatchesAreRules, DetectorAssumption
    <3> QED
      BY <2>4, <3>1, DetectorAssumption DEF Do
  <2> QED
    BY <2>1, <2>2, <2>3, <2>4 DEF ClientStep
<1> QED
  BY <1>2, <1>3, <1>4

LEMMA DetectorStepClients ==
  ASSUME DetectorStep
  PROVE  UNCHANGED clientSide
BY DEF DetectorStep, Handle, LoginAges, MonitorDropped, Push, TakeAlert, TakeOpened, TakeClosed,
       TakeAttempt, TakeSessionOpened, TakeSessionClosed, TakeActivity, Fire, EndCheck

\* Every step of handle outside check takes the head of the channel.
Take == TakeAlert \/ TakeOpened \/ TakeAttempt \/ TakeSessionOpened \/ TakeSessionClosed
        \/ TakeActivity

LEMMA TakeFeed ==
  ASSUME Take
  PROVE  /\ queue # <<>> /\ work = Idle /\ queue' = Tail(queue)
         /\ UNCHANGED <<dropped, unseen, monitor, webhook, history>>
BY DEF Take, TakeAlert, TakeOpened, TakeAttempt, TakeSessionOpened, TakeSessionClosed,
       TakeActivity, Receiving

LEMMA ClosedFeed ==
  ASSUME TypeOK, TakeClosed
  PROVE  /\ queue # <<>> /\ work = Idle /\ Head(queue).type = "connection.closed"
         /\ queue' \in {Tail(queue), Append(Tail(queue), Alert)}
         /\ FeedType'
<1>1. queue # <<>> /\ work = Idle /\ Head(queue).type = "connection.closed"
  BY DEF TakeClosed, Receiving
<1> DEFINE c == Head(queue).conn
<1> DEFINE report == conns[c].known /\ conns[c].score > 0
<1>2. CASE report
  <2>1. PublishOnto(Tail(queue), Alert) /\ Notify /\ UNCHANGED monitor
    BY <1>2 DEF TakeClosed
  <2> HIDE DEF c, report
  <2>2. /\ Tail(queue) \in Seq(Events) /\ Len(Tail(queue)) <= Capacity /\ Alert \in Events
    BY <1>1, Rest, Published DEF TypeOK
  <2>3. /\ queue' \in {Tail(queue), Append(Tail(queue), Alert)}
        /\ queue' \in Seq(Events) /\ Len(queue') <= Capacity
        /\ dropped' \in Nat /\ dropped <= dropped' /\ unseen' \subseteq Events
    BY <2>1, <2>2, PublishType DEF TypeOK
  <2> QED
    BY <1>1, <2>1, <2>3, NotifyType DEF TypeOK, FeedType, monitor
<1>3. CASE ~report
  <2>1. queue' = Tail(queue) /\ UNCHANGED <<dropped, unseen, webhook, monitor>>
    BY <1>3 DEF TakeClosed
  <2> HIDE DEF c, report
  <2> QED
    BY <1>1, <2>1, Rest DEF TypeOK, FeedType, webhook, monitor
<1> QED
  BY <1>2, <1>3

\* What firing a rule does; c is the connection in check.
LEMMA FireFacts ==
  ASSUME TypeOK, Fire, NEW STATE c, c = work.conn
  PROVE  \E i \in DOMAIN Rules :
           LET r == Rules[i].name
           IN /\ c \in Conns /\ conns[c].known /\ Checking
              /\ r \in RuleNames /\ r \notin conns[c].fired
              /\ i + 1 \in Nat /\ i >= work.next /\ Matches(i, work.event, conns[c])
              /\ conns' = [conns EXCEPT ![c] = Raise(conns[c], i)]
              /\ alerted' = [alerted EXCEPT ![c][r][Time(c)] = @ + 1]
              /\ work' = [work EXCEPT !.next = i + 1]
              /\ Publish(Alert) /\ Notify
              /\ UNCHANGED <<sessConn, monitor, summary, settled>>
<1>1. PICK k \in Candidates : FireRule(k)
  BY DEF Fire
<1>2. Checking /\ UNCHANGED <<sessConn, monitor, summary, settled>>
  BY DEF Fire
<1>3. k \in DOMAIN Rules /\ k \in Nat /\ k + 1 \in Nat /\ k >= work.next
      /\ Rules[k].name \notin conns[c].fired
      /\ Matches(k, work.event, conns[c]) /\ Rules[k].name \in RuleNames
  BY RuleTable DEF Candidates
<1>4. c \in Conns /\ conns[c].known
  BY <1>2 DEF TypeOK, MapsType
<1>5. /\ conns' = [conns EXCEPT ![c] = Raise(conns[c], k)]
      /\ alerted' = [alerted EXCEPT ![c][Rules[k].name][Time(c)] = @ + 1]
      /\ work' = [work EXCEPT !.next = k + 1]
      /\ Publish(Alert) /\ Notify
  BY <1>1 DEF FireRule
<1> QED
  BY <1>2, <1>3, <1>4, <1>5
LEMMA RaisedEntry ==
  ASSUME NEW STATE st, st \in Entries, NEW CONSTANT i \in DOMAIN Rules
  PROVE  /\ Raise(st, i) \in Entries
         /\ Raise(st, i).known = st.known
         /\ Raise(st, i).fired = st.fired \union {Rules[i].name}
<1>1. Rules[i].name \in RuleNames /\ Rules[i].points \in Nat
  BY RuleTable
<1> DEFINE r == Rules[i].name
<1> DEFINE p == Rules[i].points
<1>2. Raise(st, i) = [st EXCEPT !.fired = @ \union {r}, !.score = @ + p]
  BY DEF Raise
<1> HIDE DEF r, p
<1>3. st.fired \union {r} \subseteq RuleNames /\ st.score + p \in Nat
  BY <1>1 DEF Entries, r, p
<1>4. Raise(st, i) = [known |-> st.known, score |-> st.score + p, fails |-> st.fails,
                      loggedIn |-> st.loggedIn, recent |-> st.recent,
                      fired |-> st.fired \union {r}]
  BY <1>2 DEF Entries
<1> QED
  BY <1>3, <1>4 DEF Entries, r

LEMMA FireType ==
  ASSUME TypeOK, Fire
  PROVE  TypeOK'
<1> DEFINE c == work.conn
<1>1. PICK i \in DOMAIN Rules :
        LET r == Rules[i].name
        IN /\ c \in Conns /\ conns[c].known /\ Checking
           /\ r \in RuleNames /\ r \notin conns[c].fired
           /\ i + 1 \in Nat /\ i >= work.next /\ Matches(i, work.event, conns[c])
           /\ conns' = [conns EXCEPT ![c] = Raise(conns[c], i)]
           /\ alerted' = [alerted EXCEPT ![c][r][Time(c)] = @ + 1]
           /\ work' = [work EXCEPT !.next = i + 1]
           /\ Publish(Alert) /\ Notify
           /\ UNCHANGED <<sessConn, monitor, summary, settled>>
  BY FireFacts
<1>2. Rules[i].points \in Nat
  BY RuleTable
<1>3. ClientType'
  BY DetectorStepClients DEF DetectorStep, Handle, clientSide, clients, TypeOK, ClientType
<1>4. FeedType'
  BY <1>1, Published, PublishType, NotifyType DEF TypeOK, FeedType, Publish, monitor
<1>5. MapsType'
  <2> HIDE DEF c
  <2>1. conns' \in [Conns -> Entries] /\ conns'[c].known
    <3>1. c \in Conns /\ conns \in [Conns -> Entries] /\ conns[c] \in Entries
      BY <1>1 DEF TypeOK, MapsType
    <3>2. Raise(conns[c], i) \in Entries /\ Raise(conns[c], i).known
      BY <1>1, <3>1, RaisedEntry
    <3> QED
      BY <1>1, <3>1, <3>2
  <2>2. /\ work' \in [event : Events, conn : Conns \union {Nobody}, next : Nat]
        /\ work'.conn = work.conn
    BY <1>1 DEF TypeOK, MapsType
  <2> QED
    BY <1>1, <2>1, <2>2 DEF TypeOK, MapsType, c
<1>6. HistoryType'
  <2> HIDE DEF c
  <2>1. Time(c) \in {"live", "late"}
    BY DEF Time
  <2> QED
    BY <1>1, <2>1 DEF TypeOK, HistoryType
<1> QED
  BY <1>3, <1>4, <1>5, <1>6 DEF TypeOK

LEMMA ClosedType ==
  ASSUME TypeOK, TakeClosed
  PROVE  TypeOK'
<1> DEFINE c == Head(queue).conn
<1>1. ClientType'
  BY DetectorStepClients DEF DetectorStep, Handle, clientSide, clients, TypeOK, ClientType
<1>2. FeedType'
  BY ClosedFeed
<1>3. conns' = [conns EXCEPT ![c] = Absent] /\ settled' = settled \union {c}
      /\ UNCHANGED <<sessConn, work, alerted>>
      /\ summary' \in {summary, [summary EXCEPT ![c] = Append(@, conns[c].score)]}
  BY DEF TakeClosed
<1>4. Absent \in Entries
  BY DEF Absent, Entries
<1> HIDE DEF c
<1>5. MapsType'
  BY <1>3, <1>4, ClosedFeed DEF TypeOK, MapsType, Checking
<1>6. HistoryType'
  <2>1. \A d \in Conns : conns[d].score \in Nat
    BY DEF TypeOK, MapsType, Entries
  <2>2. Head(queue) \in Events /\ Head(queue).type = "connection.closed"
    BY ClosedFeed, Rest DEF TypeOK
  <2>3. c \in Conns
    BY <2>2, EventShape DEF c
  <2>4. settled' \subseteq Conns /\ alerted' = alerted
    BY <1>3, <2>3 DEF TypeOK, HistoryType
  <2>5. summary' \in [Conns -> Seq(Nat)]
    <3>1. summary \in [Conns -> Seq(Nat)]
      BY DEF TypeOK, HistoryType
    <3>2. Append(summary[c], conns[c].score) \in Seq(Nat)
      BY <2>1, <2>3, <3>1
    <3> QED
      BY <1>3, <2>3, <3>1, <3>2
  <2> QED
    BY <2>4, <2>5 DEF TypeOK, HistoryType
<1> QED
  BY <1>1, <1>2, <1>5, <1>6 DEF TypeOK

LEMMA EntryType ==
  ASSUME TypeOK, NEW STATE c, c \in Conns
  PROVE  /\ Entry(c) \in Entries /\ NewEntry \in Entries
         /\ Entry(c).known /\ NewEntry.known /\ NewEntry.fired = {}
         /\ Entry(c).fired \in {conns[c].fired, {}}
         /\ conns[c].known => Entry(c) = conns[c]
BY DEF TypeOK, MapsType, Entry, NewEntry, Absent, Entries

\* What an attempt makes of the entry of its connection.
LEMMA AttemptEntry ==
  ASSUME NEW STATE st, st \in Entries, st.known
  PROVE  /\ LoggedIn(st) \in Entries /\ LoggedIn(st).known /\ LoggedIn(st).fired = st.fired
         /\ Failed(st) \in Entries /\ Failed(st).known /\ Failed(st).fired = st.fired
<1>1. LoggedIn(st) = [st EXCEPT !.loggedIn = TRUE, !.recent = TRUE]
  BY DEF LoggedIn
<1>2. Failed(st) = [st EXCEPT !.fails = @ + 1]
  BY DEF Failed
<1>3. st.fails + 1 \in Nat
  BY DEF Entries
<1>4. LoggedIn(st) =
        [known |-> st.known, score |-> st.score, fails |-> st.fails, loggedIn |-> TRUE,
         recent |-> TRUE, fired |-> st.fired]
  BY <1>1 DEF Entries
<1>5. Failed(st) =
        [known |-> st.known, score |-> st.score, fails |-> st.fails + 1,
         loggedIn |-> st.loggedIn, recent |-> st.recent, fired |-> st.fired]
  BY <1>2 DEF Entries
<1> QED
  BY <1>3, <1>4, <1>5 DEF Entries

\* The maps after taking an event other than connection.closed.
LEMMA TakeMaps ==
  ASSUME TypeOK, Take
  PROVE  /\ MapsType'
         /\ \/ UNCHANGED <<conns, work>>
            \/ /\ Head(queue).type = "connection.opened"
               /\ conns' = [conns EXCEPT ![Head(queue).conn] = NewEntry]
               /\ UNCHANGED work
            \/ /\ Head(queue).type \in {"auth.attempt"} \union ActivityTypes
               /\ work' # Idle /\ work'.conn \in Conns
               /\ Head(queue).type = "auth.attempt" => work'.conn = About(Head(queue))
               /\ Head(queue).type \in ActivityTypes => work'.conn = sessConn[Head(queue).sess]
               /\ \E st \in Entries : /\ conns' = [conns EXCEPT ![work'.conn] = st]
                                      /\ st.fired \in {conns[work'.conn].fired, {}}
                                      /\ conns[work'.conn].known => st.fired = conns[work'.conn].fired
         /\ \/ UNCHANGED sessConn
            \/ /\ Head(queue).type \in {"session.opened", "session.closed"}
               /\ Head(queue).sess \in Sessions
               /\ sessConn' \in {[sessConn EXCEPT ![Head(queue).sess] = Head(queue).conn],
                                 [sessConn EXCEPT ![Head(queue).sess] = Nobody]}
<1> DEFINE e == Head(queue)
<1>1. queue # <<>> /\ work = Idle /\ e \in Events
  BY TakeFeed, Rest DEF TypeOK
<1>2. Idle \in [event : Events, conn : Conns \union {Nobody}, next : Nat]
  BY Published DEF Idle
<1>3. /\ conns \in [Conns -> Entries] /\ sessConn \in [Sessions -> Conns \union {Nobody}]
  BY DEF TypeOK, MapsType
<1>4. CASE TakeAlert
  BY <1>1, <1>2, <1>3, <1>4 DEF TakeAlert, maps, MapsType, Checking
<1>5. CASE TakeOpened
  <2>1. e.type = "connection.opened" /\ e.conn \in Conns
    BY <1>1, <1>5, EventShape DEF TakeOpened, Receiving
  <2>2. NewEntry \in Entries
    BY <2>1, EntryType
  <2>3. conns' = [conns EXCEPT ![e.conn] = NewEntry] /\ UNCHANGED <<sessConn, work>>
    BY <1>5 DEF TakeOpened
  <2> HIDE DEF e
  <2>4. conns' \in [Conns -> Entries]
    BY <1>3, <2>1, <2>2, <2>3
  <2> QED
    BY <1>1, <1>2, <1>3, <2>1, <2>3, <2>4 DEF MapsType, Checking, e
<1>6. CASE TakeAttempt
  <2> DEFINE st == Entry(e.conn)
  <2> DEFINE next == IF e.success THEN LoggedIn(st) ELSE Failed(st)
  <2>1. e.type = "auth.attempt" /\ e.conn \in Conns /\ About(e) = e.conn
    BY <1>1, <1>6, EventShape DEF TakeAttempt, Receiving
  <2>2. /\ conns' = [conns EXCEPT ![e.conn] = next]
        /\ work' = [event |-> e, conn |-> e.conn, next |-> 1]
        /\ UNCHANGED sessConn
    BY <1>6 DEF TakeAttempt
  <2>3. st \in Entries /\ st.known /\ st.fired \in {conns[e.conn].fired, {}}
        /\ (conns[e.conn].known => st.fired = conns[e.conn].fired)
    BY <2>1, EntryType
  <2> HIDE DEF e, st
  <2>4. next \in Entries /\ next.known /\ next.fired = st.fired
    BY <2>3, AttemptEntry
  <2> HIDE DEF next
  <2>5. conns' \in [Conns -> Entries] /\ conns'[e.conn].known
    BY <1>3, <2>1, <2>2, <2>4
  <2>6. work' # Idle /\ work'.conn = e.conn
        /\ work' \in [event : Events, conn : Conns \union {Nobody}, next : Nat]
    BY <1>1, <2>1, <2>2 DEF Idle, e
  <2>7. MapsType'
    BY <1>3, <2>1, <2>2, <2>5, <2>6 DEF MapsType
  <2>8. e.type \notin ActivityTypes
    BY <2>1, RuleTable
  <2> QED
    BY <2>1, <2>2, <2>3, <2>4, <2>6, <2>7, <2>8 DEF e
<1>7. CASE TakeSessionOpened \/ TakeSessionClosed
  <2>1. e.type \in {"session.opened", "session.closed"} /\ e.sess \in Sessions /\ e.conn \in Conns
    BY <1>1, <1>7, EventShape DEF TakeSessionOpened, TakeSessionClosed, Receiving
  <2>2. /\ sessConn' \in {[sessConn EXCEPT ![e.sess] = e.conn],
                          [sessConn EXCEPT ![e.sess] = Nobody]}
        /\ UNCHANGED <<conns, work>>
    BY <1>7 DEF TakeSessionOpened, TakeSessionClosed
  <2> HIDE DEF e
  <2>3. sessConn' \in [Sessions -> Conns \union {Nobody}]
    BY <1>3, <2>1, <2>2
  <2> QED
    BY <1>1, <1>2, <1>3, <2>1, <2>2, <2>3 DEF MapsType, Checking, e
<1>8. CASE TakeActivity
  <2> DEFINE c == sessConn[e.sess]
  <2>1. e.type \in ActivityTypes /\ e.sess \in Sessions /\ UNCHANGED sessConn
    BY <1>1, <1>8, EventShape DEF TakeActivity, Receiving
  <2>2. CASE c = Nobody
    <3>1. UNCHANGED <<conns, work>>
      BY <1>8, <2>2 DEF TakeActivity
    <3> QED
      BY <1>1, <1>2, <1>3, <2>1, <3>1 DEF MapsType, Checking
  <2>3. CASE c # Nobody
    <3>1. /\ conns' = [conns EXCEPT ![c] = Entry(c)]
          /\ work' = [event |-> e, conn |-> c, next |-> 1]
      BY <1>8, <2>3 DEF TakeActivity
    <3>2. c \in Conns
      BY <1>3, <2>1, <2>3
    <3>3. e.type # "auth.attempt"
      BY <2>1, RuleTable
    <3> DEFINE st == Entry(c)
    <3>4. st \in Entries /\ st.known /\ st.fired \in {conns[c].fired, {}}
          /\ (conns[c].known => st.fired = conns[c].fired)
      BY <3>2, EntryType
    <3> HIDE DEF e, c, st
    <3>5. conns' \in [Conns -> Entries] /\ conns'[c].known
      BY <1>3, <3>1, <3>2, <3>4 DEF st
    <3>6. work' # Idle /\ work'.conn = c
          /\ work' \in [event : Events, conn : Conns \union {Nobody}, next : Nat]
      BY <1>1, <3>1, <3>2 DEF Idle, e
    <3>7. MapsType'
      BY <1>3, <2>1, <3>2, <3>5, <3>6 DEF MapsType
    <3> QED
      BY <2>1, <3>1, <3>2, <3>3, <3>4, <3>6, <3>7 DEF e, c, st
  <2> QED
    BY <2>2, <2>3
<1> QED
  BY <1>4, <1>5, <1>6, <1>7, <1>8 DEF Take

\* The remaining steps of the detector.
LEMMA OtherFacts ==
  ASSUME TypeOK, \/ EndCheck \/ MonitorDropped \/ Push
                 \/ \E c \in Conns : LoginAges(c)
  PROVE  /\ TypeOK'
         /\ queue' \in {queue, Append(queue, Alert)}
         /\ work' \in {work, Idle} /\ UNCHANGED <<sessConn, history>>
         /\ \A c \in Conns : conns'[c].fired = conns[c].fired /\ conns'[c].known = conns[c].known
<1>1. ClientType'
  BY DetectorStepClients DEF DetectorStep, Handle, clientSide, clients, TypeOK, ClientType
<1>2. UNCHANGED <<sessConn, history>>
  BY DEF EndCheck, MonitorDropped, Push, LoginAges, maps
<1>3. HistoryType'
  BY <1>2 DEF history, TypeOK, HistoryType
<1>4. CASE EndCheck
  <2>1. UNCHANGED <<feed, maps, monitor, webhook>> /\ work' = Idle
    BY <1>4 DEF EndCheck
  <2>2. FeedType'
    BY <2>1 DEF feed, monitor, webhook, TypeOK, FeedType
  <2>3. MapsType'
    BY <2>1, Published DEF maps, TypeOK, MapsType, Idle, Checking
  <2> QED
    BY <1>1, <1>2, <1>3, <2>1, <2>2, <2>3 DEF TypeOK, feed, maps
<1>5. CASE MonitorDropped
  <2>1. /\ reports < MaxReports /\ reports' = reports + 1 /\ last' = dropped
        /\ Publish(Alert) /\ UNCHANGED <<maps, work, webhook>>
    BY <1>5 DEF MonitorDropped
  <2>2. /\ queue' \in {queue, Append(queue, Alert)}
        /\ queue' \in Seq(Events) /\ Len(queue') <= Capacity
        /\ dropped' \in Nat /\ dropped <= dropped' /\ unseen' \subseteq Events
    BY <2>1, Published, PublishType DEF TypeOK, FeedType, Publish
  <2>3. FeedType'
    BY <2>1, <2>2, DetectorAssumption DEF TypeOK, FeedType, webhook
  <2>4. MapsType'
    BY <2>1 DEF maps, TypeOK, MapsType, Checking
  <2> QED
    BY <1>1, <1>2, <1>3, <2>1, <2>2, <2>3, <2>4 DEF TypeOK, maps
<1>6. CASE Push
  <2>1. /\ notifying > 0 /\ notifying' = notifying - 1
        /\ UNCHANGED <<feed, maps, work, monitor, droppedAlerts>>
    BY <1>6 DEF Push
  <2>2. FeedType'
    BY <2>1, DetectorAssumption DEF feed, monitor, TypeOK, FeedType
  <2>3. MapsType'
    BY <2>1 DEF maps, TypeOK, MapsType, Checking
  <2> QED
    BY <1>1, <1>2, <1>3, <2>1, <2>2, <2>3 DEF TypeOK, feed, maps
<1>7. ASSUME NEW c \in Conns, LoginAges(c)
      PROVE  /\ MapsType' /\ FeedType' /\ UNCHANGED <<queue, work>>
             /\ \A d \in Conns :
                  conns'[d].fired = conns[d].fired /\ conns'[d].known = conns[d].known
  <2>1. /\ conns' = [conns EXCEPT ![c].recent = FALSE]
        /\ UNCHANGED <<feed, sessConn, work, monitor, webhook>>
    BY <1>7 DEF LoginAges
  <2>2. FeedType'
    BY <2>1 DEF feed, monitor, webhook, TypeOK, FeedType
  <2>3. conns' \in [Conns -> Entries]
    BY <2>1 DEF TypeOK, MapsType, Entries
  <2>4. \A d \in Conns : conns'[d].fired = conns[d].fired /\ conns'[d].known = conns[d].known
    BY <2>1 DEF TypeOK, MapsType, Entries
  <2>5. MapsType'
    BY <2>1, <2>3, <2>4 DEF TypeOK, MapsType, Checking
  <2> QED
    BY <2>1, <2>2, <2>4, <2>5 DEF feed
<1> QED
  BY <1>1, <1>2, <1>3, <1>4, <1>5, <1>6, <1>7 DEF TypeOK

LEMMA TypeStep ==
  ASSUME TypeOK, [Next]_vars
  PROVE  TypeOK'
<1>1. CASE ClientStep
  BY <1>1, ClientStepType
<1>2. CASE Take
  <2>1. ClientType'
    BY <1>2, DetectorStepClients
       DEF Take, DetectorStep, Handle, clientSide, clients, TypeOK, ClientType
  <2>2. FeedType'
    BY <1>2, TakeFeed, Rest DEF TypeOK, FeedType, monitor, webhook
  <2>3. HistoryType'
    BY <1>2, TakeFeed DEF TypeOK, HistoryType, history
  <2> QED
    BY <1>2, <2>1, <2>2, <2>3, TakeMaps DEF TypeOK
<1>3. CASE TakeClosed
  BY <1>3, ClosedType
<1>4. CASE Fire
  BY <1>4, FireType
<1>5. CASE EndCheck \/ MonitorDropped \/ Push \/ \E c \in Conns : LoginAges(c)
  BY <1>5, OtherFacts
<1>6. CASE UNCHANGED vars
  BY <1>6 DEF TypeOK, ClientType, FeedType, MapsType, HistoryType, Checking, vars, clients, feed,
              maps, webhook, monitor, history
<1> QED
  BY <1>1, <1>2, <1>3, <1>4, <1>5, <1>6, NextCases DEF DetectorStep, Handle, Take

\* The types and the bounds of the two queues hold in every reachable state.
THEOREM TypeCorrect == Spec => []TypeOK
<1>1. TypeOK /\ [Next]_vars => TypeOK'
  BY TypeStep
<1> QED
  BY <1>1, TypeInit, PTL DEF Spec

------------------------------------------------------------------------------
(***************************************************************************)
(* The order of the channel.                                               *)
(***************************************************************************)
\* Nothing about c has been handled that could have raised an alert.
Fresh(c) == c \notin settled /\ conns[c].fired = {} /\ work.conn # c

Opening(e) == e.type = "connection.opened"
Closing(e) == e.type = "connection.closed"
Places == 1..Len(queue)

\* In the channel, connection.opened comes before everything about its
\* connection, and connection.closed comes once.
OrderInv ==
  /\ \A i \in Places : About(queue[i]) \in Conns => phase[About(queue[i])] # "new"
  /\ \A i, j \in Places :
       i < j /\ Opening(queue[j]) => About(queue[i]) # queue[j].conn
  /\ \A i \in Places : Opening(queue[i]) => Fresh(queue[i].conn)
  /\ \A i \in Places :
       Closing(queue[i]) => phase[queue[i].conn] = "closed" /\ queue[i].conn \notin settled
  /\ \A i, j \in Places :
       Closing(queue[i]) /\ Closing(queue[j]) /\ queue[i].conn = queue[j].conn => i = j

\* What the detector knows of a connection at each place of its handler.
ConnInv ==
  \A c \in Conns :
    /\ phase[c] = "new" => Fresh(c)
    /\ c \in settled => phase[c] = "closed"

\* A session is looked up as what it is, and belongs to a connection that was let in.
SessionInv ==
  \A s \in Sessions :
    /\ sessConn[s] \in {Nobody, Owner[s]}
    /\ session[s] # "none" => phase[Owner[s]] \in {"open", "closed"}

\* The alerts on record are those the entry remembers, and after the closing those of
\* the entry that came back.
FiredInv ==
  \A c \in Conns :
    /\ ~conns[c].known => conns[c].fired = {}
    /\ \A r \in RuleNames :
         LET now == IF r \in conns[c].fired THEN 1 ELSE 0
         IN IF c \in settled
            THEN alerted[c][r]["live"] <= 1 /\ alerted[c][r]["late"] = now
            ELSE alerted[c][r]["live"] = now /\ alerted[c][r]["late"] = 0

DetectorInv == TypeOK /\ OrderInv /\ ConnInv /\ SessionInv /\ FiredInv

LEMMA InvInit == Init => DetectorInv
<1> SUFFICES ASSUME Init PROVE DetectorInv
  OBVIOUS
<1>1. TypeOK
  BY TypeInit
<1>2. OrderInv
  BY DEF Init, OrderInv, Places
<1>3. ConnInv
  BY DetectorAssumption DEF Init, ConnInv, Fresh, Idle, Absent
<1>4. SessionInv
  BY DEF Init, SessionInv
<1>5. FiredInv
  BY DEF Init, FiredInv, Absent
<1> QED
  BY <1>1, <1>2, <1>3, <1>4, <1>5 DEF DetectorInv

\* A step takes k events (none or one) from the channel and may add e at its end.
Shifted(k, e) ==
  /\ queue' \in Seq(Events)
  /\ \A i \in 1..Len(queue') :
       \/ i + k \in Places /\ queue'[i] = queue[i + k]
       \/ i + k = Len(queue) + 1 /\ queue'[i] = e

LEMMA ShiftedByPublish ==
  ASSUME FeedType, NEW STATE e, e \in Events, queue' \in {queue, Append(queue, e)}
  PROVE  Shifted(0, e)
BY DEF FeedType, Shifted, Places

LEMMA ShiftedByTake ==
  ASSUME FeedType, queue # <<>>, NEW STATE e, e \in Events,
         queue' \in {Tail(queue), Append(Tail(queue), e)}
  PROVE  Shifted(1, e)
<1>1. /\ Tail(queue) \in Seq(Events) /\ Len(Tail(queue)) = Len(queue) - 1
      /\ Len(queue) \in Nat
      /\ \A i \in 1..Len(Tail(queue)) : Tail(queue)[i] = queue[i + 1]
  BY Rest DEF FeedType
<1>2. CASE queue' = Tail(queue)
  BY <1>1, <1>2 DEF Shifted, Places
<1>3. CASE queue' = Append(Tail(queue), e)
  <2> DEFINE q == Tail(queue)
  <2> HIDE DEF q
  <2>1. /\ queue' \in Seq(Events) /\ Len(queue') = Len(q) + 1
        /\ \A i \in 1..Len(q) : queue'[i] = q[i]
        /\ queue'[Len(q) + 1] = e
    BY <1>1, <1>3 DEF q
  <2>2. /\ Len(q) = Len(queue) - 1 /\ Len(queue) \in Nat
        /\ \A i \in 1..Len(q) : q[i] = queue[i + 1]
    BY <1>1 DEF q
  <2> QED
    BY <2>1, <2>2 DEF Shifted, Places
<1> QED
  BY <1>2, <1>3

\* What a step must respect for the order of the channel to be kept.
LEMMA OrderStep ==
  ASSUME DetectorInv, NEW CONSTANT k \in {0, 1}, NEW STATE e, e \in Events,
         Shifted(k, e), k = 1 => queue # <<>>,
         \A c \in Conns : phase[c] # "new" => phase'[c] # "new",
         \A c \in Conns : phase[c] = "closed" => phase'[c] = "closed",
         \A c \in Conns : Fresh(c) /\ (k = 1 => About(queue[1]) # c) => Fresh(c)',
         \A c \in settled' : c \in settled \/ (k = 1 /\ Closing(queue[1]) /\ queue[1].conn = c),
         About(e) \in Conns => phase'[About(e)] # "new",
         Opening(e) => phase[e.conn] = "new" /\ k = 0,
         Closing(e) => phase[e.conn] # "closed" /\ phase'[e.conn] = "closed" /\ k = 0
  PROVE  OrderInv'
<1> DEFINE P == 1..Len(queue')
<1> DEFINE FreshAfter(c) == c \notin settled' /\ conns'[c].fired = {} /\ work'.conn # c
<1>0. /\ queue' \in Seq(Events) /\ queue \in Seq(Events) /\ Len(queue) \in Nat
      /\ Len(queue') \in Nat
      /\ \A i \in P : queue'[i] \in Events
      /\ \A i \in Places : queue[i] \in Events
      /\ k = 1 => 1 \in Places
  BY DEF Shifted, DetectorInv, TypeOK, FeedType, Places
<1>1. \A i \in P : \/ i + k \in Places /\ queue'[i] = queue[i + k]
                   \/ i + k = Len(queue) + 1 /\ queue'[i] = e
  BY DEF Shifted
<1>2. \A f \in Events :
        /\ Opening(f) => f.conn \in Conns /\ About(f) = f.conn
        /\ Closing(f) => f.conn \in Conns /\ About(f) = f.conn /\ ~Opening(f)
  BY EventShape DEF Opening, Closing
<1>9. \A d \in Conns : Fresh(d) /\ (k = 1 => About(queue[1]) # d) => FreshAfter(d)
  BY DEF Fresh
<1>3. \A i \in P : About(queue'[i]) \in Conns => phase'[About(queue'[i])] # "new"
  BY <1>1 DEF DetectorInv, OrderInv
<1>4. \A i, j \in P : i < j /\ Opening(queue'[j]) => About(queue'[i]) # queue'[j].conn
  <2> SUFFICES ASSUME NEW i \in P, NEW j \in P, i < j, Opening(queue'[j])
               PROVE  About(queue'[i]) # queue'[j].conn
    OBVIOUS
  <2>1. i + k \in Places /\ queue'[i] = queue[i + k]
    BY <1>0, <1>1 DEF Places
  <2>2. CASE j + k \in Places /\ queue'[j] = queue[j + k]
    BY <1>0, <2>1, <2>2 DEF DetectorInv, OrderInv
  <2>3. CASE queue'[j] = e
    <3>1. phase[e.conn] = "new" /\ e.conn \in Conns
      BY <1>2, <2>3
    <3>2. About(queue[i + k]) \in Conns => phase[About(queue[i + k])] # "new"
      BY <2>1 DEF DetectorInv, OrderInv
    <3> QED
      BY <2>1, <2>3, <3>1, <3>2
  <2> QED
    BY <1>1, <2>2, <2>3
<1>5. \A i \in P : Opening(queue'[i]) => FreshAfter(queue'[i].conn)
  <2> SUFFICES ASSUME NEW i \in P, Opening(queue'[i])
               PROVE  FreshAfter(queue'[i].conn)
    OBVIOUS
  <2> DEFINE c == queue'[i].conn
  <2>1. c \in Conns
    BY <1>0, <1>2
  <2>2. CASE i + k \in Places /\ queue'[i] = queue[i + k]
    <3>1. k = 1 => About(queue[1]) # c
      BY <1>0, <2>2 DEF DetectorInv, OrderInv
    <3>2. queue[i + k].conn = c /\ Fresh(queue[i + k].conn)
      BY <2>2 DEF DetectorInv, OrderInv
    <3> QED
      BY <1>9, <2>1, <3>1, <3>2
  <2>3. CASE queue'[i] = e
    <3>1. Opening(e) /\ e.conn = c /\ phase[c] = "new" /\ k = 0
      BY <2>3
    <3>2. Fresh(c)
      BY <2>1, <3>1 DEF DetectorInv, ConnInv
    <3> QED
      BY <1>9, <2>1, <3>1, <3>2
  <2> QED
    BY <1>1, <2>2, <2>3
<1>6. \A i \in P : Closing(queue'[i]) =>
        phase'[queue'[i].conn] = "closed" /\ queue'[i].conn \notin settled'
  <2> SUFFICES ASSUME NEW i \in P, Closing(queue'[i])
               PROVE  phase'[queue'[i].conn] = "closed" /\ queue'[i].conn \notin settled'
    OBVIOUS
  <2>1. CASE i + k \in Places /\ queue'[i] = queue[i + k]
    <3>1. phase[queue[i + k].conn] = "closed" /\ queue[i + k].conn \notin settled
      BY <2>1 DEF DetectorInv, OrderInv
    <3>2. k = 1 /\ Closing(queue[1]) => queue[1].conn # queue[i + k].conn
      BY <1>0, <2>1 DEF DetectorInv, OrderInv
    <3> QED
      BY <1>0, <1>2, <2>1, <3>1, <3>2
  <2>2. CASE queue'[i] = e
    BY <1>2, <2>2 DEF DetectorInv, ConnInv
  <2> QED
    BY <1>1, <2>1, <2>2
<1>7. \A i, j \in P :
        Closing(queue'[i]) /\ Closing(queue'[j]) /\ queue'[i].conn = queue'[j].conn => i = j
  <2> SUFFICES ASSUME NEW i \in P, NEW j \in P, i < j, Closing(queue'[i]), Closing(queue'[j]),
                      queue'[i].conn = queue'[j].conn
               PROVE  FALSE
    BY <1>0
  <2>1. i + k \in Places /\ queue'[i] = queue[i + k]
    BY <1>0, <1>1 DEF Places
  <2>2. CASE j + k \in Places /\ queue'[j] = queue[j + k]
    BY <1>0, <2>1, <2>2 DEF DetectorInv, OrderInv
  <2>3. CASE queue'[j] = e
    BY <2>1, <2>3 DEF DetectorInv, OrderInv
  <2> QED
    BY <1>1, <2>2, <2>3
<1> QED
  BY <1>3, <1>4, <1>5, <1>6, <1>7 DEF OrderInv, Places, Fresh, Opening, Closing, About

------------------------------------------------------------------------------
(***************************************************************************)
(* The invariant is inductive.                                             *)
(***************************************************************************)
\* The phases only go forward, and a handler publishes its opening first and its closing
\* last.
LEMMA ClientFacts ==
  ASSUME DetectorInv, ClientStep
  PROVE  /\ UNCHANGED detectorVars
         /\ \A c \in Conns : phase[c] # "new" => phase'[c] # "new"
         /\ \A c \in Conns : phase[c] = "closed" => phase'[c] = "closed"
         /\ \A c \in Conns : phase[c] = "open" => phase'[c] \in {"open", "closed"}
         /\ \A s \in Sessions :
              session'[s] # "none" => session[s] # "none" \/ phase[Owner[s]] = "open"
         /\ \/ UNCHANGED queue
            \/ \E e \in Events :
                 /\ queue' \in {queue, Append(queue, e)}
                 /\ About(e) \in Conns => phase'[About(e)] # "new"
                 /\ Opening(e) => phase[e.conn] = "new"
                 /\ Closing(e) => phase[e.conn] # "closed" /\ phase'[e.conn] = "closed"
<1> USE DetectorAssumption DEF DetectorInv, TypeOK, ClientType
<1>0. \A e \in Events : Publish(e) => queue' \in {queue, Append(queue, e)}
  <2> SUFFICES ASSUME NEW e \in Events, Publish(e)
               PROVE  queue' \in {queue, Append(queue, e)}
    OBVIOUS
  <2> QED
    BY PublishType DEF Publish, FeedType
<1>1. ASSUME NEW c \in Conns, OpenConnection(c)
      PROVE  /\ phase' = [phase EXCEPT ![c] = "auth"] /\ phase[c] = "new"
             /\ UNCHANGED <<detectorVars, session>>
             /\ \E e \in Events : Publish(e) /\ Opening(e) /\ ~Closing(e) /\ About(e) = c /\ e.conn = c
  <2> DEFINE e == Event("connection.opened", c, Nobody)
  <2>1. e \in Events /\ Opening(e) /\ ~Closing(e) /\ About(e) = c /\ e.conn = c
    BY Published DEF Event, Opening, Closing, About
  <2> QED
    BY <1>1, <2>1 DEF OpenConnection
<1>2. ASSUME NEW c \in Conns, NEW ok \in BOOLEAN, Authenticate(c, ok)
      PROVE  /\ phase' \in {phase, [phase EXCEPT ![c] = "open"]} /\ phase[c] = "auth"
             /\ UNCHANGED <<detectorVars, session>>
             /\ \E e \in Events : Publish(e) /\ ~Opening(e) /\ ~Closing(e) /\ About(e) = c
  <2> DEFINE e == Attempt(c, ok)
  <2>1. e \in Events /\ ~Opening(e) /\ ~Closing(e) /\ About(e) = c
    BY Published DEF Attempt, Event, Opening, Closing, About
  <2> QED
    BY <1>2, <2>1 DEF Authenticate
<1>3. ASSUME NEW c \in Conns, SkipAuthentication(c)
      PROVE  /\ phase' = [phase EXCEPT ![c] = "open"] /\ phase[c] = "auth"
             /\ UNCHANGED <<detectorVars, session, queue>>
  BY <1>3 DEF SkipAuthentication, feed
<1>4. ASSUME NEW c \in Conns, CloseConnection(c)
      PROVE  /\ phase' = [phase EXCEPT ![c] = "closed"] /\ phase[c] \in {"auth", "open"}
             /\ UNCHANGED <<detectorVars, session>>
             /\ \E e \in Events : Publish(e) /\ ~Opening(e) /\ Closing(e) /\ About(e) = c /\ e.conn = c
  <2> DEFINE e == Event("connection.closed", c, Nobody)
  <2>1. e \in Events /\ ~Opening(e) /\ Closing(e) /\ About(e) = c /\ e.conn = c
    BY Published DEF Event, Opening, Closing, About
  <2> QED
    BY <1>4, <2>1 DEF CloseConnection
<1>5. ASSUME NEW s \in Sessions, AcceptChannel(s)
      PROVE  /\ session' = [session EXCEPT ![s] = "accepted"] /\ phase[Owner[s]] = "open"
             /\ UNCHANGED <<detectorVars, phase, queue>>
  BY <1>5 DEF AcceptChannel, feed
<1>6. ASSUME NEW s \in Sessions,
             \/ OpenSession(s) \/ CloseSession(s) \/ AbandonSession(s)
             \/ \E a \in Activities : Do(s, a)
      PROVE  /\ session[s] # "none" /\ UNCHANGED <<detectorVars, phase>>
             /\ \A t \in Sessions : session'[t] # "none" => session[t] # "none"
             /\ \/ UNCHANGED queue
                \/ \E e \in Events :
                     Publish(e) /\ ~Opening(e) /\ ~Closing(e) /\ About(e) = Owner[s]
  <2>1. CASE OpenSession(s)
    <3> DEFINE e == Event("session.opened", Owner[s], s)
    <3>1. e \in Events /\ ~Opening(e) /\ ~Closing(e) /\ About(e) = Owner[s]
      BY Published DEF Event, Opening, Closing, About
    <3> QED
      BY <2>1, <3>1 DEF OpenSession
  <2>2. CASE CloseSession(s)
    <3> DEFINE e == Event("session.closed", Owner[s], s)
    <3>1. e \in Events /\ ~Opening(e) /\ ~Closing(e) /\ About(e) = Owner[s]
      BY Published DEF Event, Opening, Closing, About
    <3> QED
      BY <2>2, <3>1 DEF CloseSession
  <2>3. CASE AbandonSession(s)
    BY <2>3 DEF AbandonSession, feed
  <2>4. ASSUME NEW a \in Activities, Do(s, a)
        PROVE  /\ session[s] # "none" /\ UNCHANGED <<detectorVars, phase, session>>
               /\ \E e \in Events :
                    Publish(e) /\ ~Opening(e) /\ ~Closing(e) /\ About(e) = Owner[s]
    <3> DEFINE e == Act(s, a)
    <3>1. e \in Events
      BY Published
    <3>2. e.type = a.type /\ e.sess = s /\ a.type \in ActivityTypes
      BY DEF Act, Event
    <3>3. ~Opening(e) /\ ~Closing(e) /\ About(e) = Owner[s]
      BY <3>2, RuleTable DEF Opening, Closing, About
    <3> QED
      BY <2>4, <3>1, <3>3 DEF Do
  <2> QED
    BY <1>6, <2>1, <2>2, <2>3, <2>4
<1>7. CASE \E c \in Conns : OpenConnection(c)
  BY <1>0, <1>1, <1>7
<1>8. CASE \E c \in Conns, ok \in BOOLEAN : Authenticate(c, ok)
  BY <1>0, <1>2, <1>8
<1>9. CASE \E c \in Conns : SkipAuthentication(c)
  BY <1>3, <1>9
<1>10. CASE \E c \in Conns : CloseConnection(c)
  <2>1. PICK c \in Conns : CloseConnection(c)
    BY <1>10
  <2>2. /\ phase' = [phase EXCEPT ![c] = "closed"] /\ phase[c] \in {"auth", "open"}
        /\ UNCHANGED <<detectorVars, session>>
    BY <1>4, <2>1
  <2>3. PICK e \in Events : Publish(e) /\ ~Opening(e) /\ Closing(e) /\ About(e) = c /\ e.conn = c
    BY <1>4, <2>1
  <2>4. queue' \in {queue, Append(queue, e)}
    BY <1>0, <2>3
  <2> QED
    BY <2>2, <2>3, <2>4
<1>11. CASE \E s \in Sessions : AcceptChannel(s)
  BY <1>5, <1>11
<1>12. CASE \E s \in Sessions : \/ OpenSession(s) \/ CloseSession(s) \/ AbandonSession(s)
                                \/ \E a \in Activities : Do(s, a)
  <2>1. PICK s \in Sessions : \/ OpenSession(s) \/ CloseSession(s) \/ AbandonSession(s)
                              \/ \E a \in Activities : Do(s, a)
    BY <1>12
  <2>2. phase[Owner[s]] # "new"
    BY <1>6, <2>1 DEF SessionInv
  <2> QED
    BY <1>0, <1>6, <2>1, <2>2
<1> QED
  BY <1>7, <1>8, <1>9, <1>10, <1>11, <1>12 DEF ClientStep

LEMMA ClientStepInv ==
  ASSUME DetectorInv, ClientStep
  PROVE  DetectorInv'
<1> USE ClientFacts
<1>1. UNCHANGED <<conns, sessConn, work, settled, alerted>>
  BY DEF detectorVars, maps, history
<1>2. TypeOK'
  BY ClientStepType DEF DetectorInv
<1>3. \A c \in Conns : Fresh(c) => Fresh(c)'
  BY <1>1 DEF Fresh
<1>4. ConnInv'
  BY <1>1, <1>3 DEF DetectorInv, ConnInv, Fresh
<1>5. SessionInv'
  BY <1>1, DetectorAssumption DEF DetectorInv, SessionInv, TypeOK, ClientType
<1>6. FiredInv'
  BY <1>1 DEF DetectorInv, FiredInv
<1>7. OrderInv'
  <2>1. CASE UNCHANGED queue
    <3>1. Shifted(0, Alert) /\ Alert \in Events /\ ~Opening(Alert) /\ ~Closing(Alert)
          /\ About(Alert) \notin Conns
      BY <2>1, Published, ShiftedByPublish, DetectorAssumption
         DEF DetectorInv, TypeOK, Alert, Event, Opening, Closing, About
    <3> QED
      BY <1>1, <1>3, <3>1, OrderStep
  <2>2. ASSUME NEW e \in Events,
               /\ queue' \in {queue, Append(queue, e)}
               /\ About(e) \in Conns => phase'[About(e)] # "new"
               /\ Opening(e) => phase[e.conn] = "new"
               /\ Closing(e) => phase[e.conn] # "closed" /\ phase'[e.conn] = "closed"
        PROVE  OrderInv'
    <3>1. Shifted(0, e)
      BY <2>2, ShiftedByPublish DEF DetectorInv, TypeOK
    <3> QED
      BY <1>1, <1>3, <2>2, <3>1, OrderStep
  <2> QED
    BY <2>1, <2>2
<1> QED
  BY <1>2, <1>4, <1>5, <1>6, <1>7 DEF DetectorInv

\* For the steps of the detector OrderStep needs what is fresh and what is settled only:
\* the phases stay, and what is published is an alert.
LEMMA DetectorOrder ==
  ASSUME DetectorInv, NEW CONSTANT k \in {0, 1}, Shifted(k, Alert), k = 1 => queue # <<>>,
         UNCHANGED <<phase, session>>,
         \A c \in Conns : Fresh(c) /\ (k = 1 => About(queue[1]) # c) => Fresh(c)',
         \A c \in settled' : c \in settled \/ (k = 1 /\ Closing(queue[1]) /\ queue[1].conn = c),
         settled' \subseteq Conns
  PROVE  OrderInv' /\ ConnInv'
<1>1. Alert \in Events /\ ~Opening(Alert) /\ ~Closing(Alert) /\ About(Alert) \notin Conns
  BY Published, DetectorAssumption DEF Alert, Event, Opening, Closing, About
<1>2. OrderInv'
  BY <1>1, OrderStep
<1>3. k = 1 => 1 \in Places
  BY DEF DetectorInv, TypeOK, FeedType, Places
<1>4. ASSUME NEW c \in Conns, phase[c] = "new"
      PROVE  Fresh(c)'
  BY <1>3, <1>4 DEF DetectorInv, ConnInv, OrderInv
<1>5. ASSUME NEW c \in Conns, c \in settled'
      PROVE  phase[c] = "closed"
  BY <1>3, <1>5 DEF DetectorInv, ConnInv, OrderInv
<1> QED
  BY <1>2, <1>4, <1>5 DEF ConnInv, Fresh

LEMMA TakeInv ==
  ASSUME DetectorInv, Take
  PROVE  DetectorInv'
<1> DEFINE e == Head(queue)
<1>1. /\ queue # <<>> /\ work = Idle /\ queue' = Tail(queue) /\ UNCHANGED history
      /\ UNCHANGED clientSide
  BY TakeFeed, DetectorStepClients DEF Take, DetectorStep, Handle
<1>2. TypeOK'
  BY TypeStep DEF Take, Next, Handle, DetectorInv
<1>3. e = queue[1] /\ e \in Events /\ 1 \in Places
  BY <1>1, Rest DEF DetectorInv, TypeOK, FeedType, Places
<1>4. UNCHANGED <<settled, alerted, phase, session>>
  BY <1>1 DEF history, clientSide, clients
<1>5. Shifted(1, Alert)
  BY <1>1, Published, ShiftedByTake DEF DetectorInv, TypeOK
\* What happens to the maps, in terms of the connection the event is about.
<1> DEFINE a == About(e)
<1>6. /\ work'.conn \in {Nobody, a}
      /\ \A c \in Conns : c # a => conns'[c] = conns[c]
      /\ a \in Conns => /\ conns'[a].fired = conns[a].fired
                        /\ conns[a].known => conns'[a].known
  <2>1. conns \in [Conns -> Entries] /\ \A c \in Conns : ~conns[c].known => conns[c].fired = {}
    BY DEF DetectorInv, TypeOK, MapsType, FiredInv
  <2>2. CASE UNCHANGED <<conns, work>>
    BY <1>1, <2>2 DEF Idle
  <2>3. CASE /\ e.type = "connection.opened"
             /\ conns' = [conns EXCEPT ![e.conn] = NewEntry]
             /\ UNCHANGED work
    <3>1. a = e.conn /\ a \in Conns
      BY <1>3, <2>3, EventShape
    <3>2. conns[a].fired = {}
      BY <1>3, <2>3, <3>1 DEF DetectorInv, OrderInv, Opening, Fresh
    <3>3. NewEntry.fired = {} /\ NewEntry.known
      BY <3>1, EntryType DEF DetectorInv
    <3> HIDE DEF e, a
    <3> QED
      BY <1>1, <2>1, <2>3, <3>1, <3>2, <3>3 DEF Idle
  <2>4. CASE /\ e.type \in {"auth.attempt"} \union ActivityTypes
             /\ work' # Idle /\ work'.conn \in Conns
             /\ e.type = "auth.attempt" => work'.conn = About(e)
             /\ e.type \in ActivityTypes => work'.conn = sessConn[e.sess]
             /\ \E st \in Entries : /\ conns' = [conns EXCEPT ![work'.conn] = st]
                                    /\ st.fired \in {conns[work'.conn].fired, {}}
                                    /\ conns[work'.conn].known => st.fired = conns[work'.conn].fired
    <3>1. work'.conn = a
      <4>1. CASE e.type \in ActivityTypes
        <5>1. e.sess \in Sessions /\ a = Owner[e.sess]
          BY <1>3, <4>1, EventShape
        <5> QED
          BY <2>4, <4>1, <5>1, DetectorAssumption DEF DetectorInv, SessionInv
      <4> QED
        BY <2>4, <4>1
    <3>2. PICK st \in Entries : /\ conns' = [conns EXCEPT ![a] = st]
                                /\ st.fired \in {conns[a].fired, {}}
                                /\ conns[a].known => st.fired = conns[a].fired
      BY <2>4, <3>1
    <3>3. a \in Conns /\ st.fired = conns[a].fired
      BY <2>1, <2>4, <3>1, <3>2
    <3>4. conns'[a].known
      BY <1>2, <2>4, <3>1 DEF TypeOK, MapsType, Checking
    <3> HIDE DEF e, a
    <3> QED
      BY <2>1, <3>1, <3>2, <3>3, <3>4
  <2> QED
    BY <2>2, <2>3, <2>4, TakeMaps DEF DetectorInv
<1> HIDE DEF e, a
<1>7. ASSUME NEW c \in Conns, Fresh(c), About(queue[1]) # c
      PROVE  Fresh(c)'
  BY <1>3, <1>4, <1>6, <1>7, DetectorAssumption DEF Fresh, a
<1>8. OrderInv' /\ ConnInv'
  BY <1>1, <1>2, <1>4, <1>5, <1>7, DetectorOrder DEF TypeOK, HistoryType
<1>9. SessionInv'
  <2>1. \/ UNCHANGED sessConn
        \/ /\ e.type \in {"session.opened", "session.closed"} /\ e.sess \in Sessions
           /\ sessConn' \in {[sessConn EXCEPT ![e.sess] = e.conn],
                             [sessConn EXCEPT ![e.sess] = Nobody]}
    BY TakeMaps DEF e, DetectorInv
  <2>2. e.type \in {"session.opened", "session.closed"} => e.conn = Owner[e.sess]
    BY <1>3, EventShape
  <2> QED
    BY <1>4, <2>1, <2>2 DEF DetectorInv, SessionInv, TypeOK, MapsType
<1>10. FiredInv'
  <2>1. \A c \in Conns : conns'[c].fired = conns[c].fired
    BY <1>6
  <2>2. \A c \in Conns : ~conns'[c].known => ~conns[c].known
    BY <1>6
  <2> QED
    BY <1>4, <2>1, <2>2 DEF DetectorInv, FiredInv
<1> QED
  BY <1>2, <1>8, <1>9, <1>10 DEF DetectorInv

LEMMA ClosedInv ==
  ASSUME DetectorInv, TakeClosed
  PROVE  DetectorInv'
<1> DEFINE c == Head(queue).conn
<1>1. /\ queue # <<>> /\ work = Idle /\ Head(queue).type = "connection.closed"
      /\ queue' \in {Tail(queue), Append(Tail(queue), Alert)}
      /\ UNCHANGED clientSide
  BY ClosedFeed, DetectorStepClients DEF DetectorStep, Handle, DetectorInv
<1>2. conns' = [conns EXCEPT ![c] = Absent] /\ settled' = settled \union {c}
      /\ UNCHANGED <<sessConn, work, alerted>>
  BY DEF TakeClosed
<1>3. TypeOK'
  BY ClosedType DEF DetectorInv
<1>4. Head(queue) = queue[1] /\ Head(queue) \in Events /\ 1 \in Places
  BY <1>1, Rest DEF DetectorInv, TypeOK, FeedType, Places
<1>5. c \in Conns /\ About(queue[1]) = c /\ Closing(queue[1]) /\ queue[1].conn = c
  BY <1>1, <1>4, EventShape DEF Closing
<1>6. c \notin settled
  BY <1>4, <1>5 DEF DetectorInv, OrderInv
<1> HIDE DEF c
<1>7. Shifted(1, Alert)
  BY <1>1, Published, ShiftedByTake DEF DetectorInv, TypeOK
<1>8. UNCHANGED <<phase, session>>
  BY <1>1 DEF clientSide, clients
<1>9. ASSUME NEW d \in Conns, Fresh(d), About(queue[1]) # d
      PROVE  Fresh(d)'
  BY <1>2, <1>5, <1>9 DEF Fresh
<1>10. OrderInv' /\ ConnInv'
  BY <1>1, <1>2, <1>3, <1>5, <1>7, <1>8, <1>9, DetectorOrder DEF TypeOK, HistoryType
<1>11. SessionInv'
  BY <1>2, <1>8 DEF DetectorInv, SessionInv
<1>12. FiredInv'
  <2>1. conns'[c].fired = {} /\ \A d \in Conns : d # c => conns'[d] = conns[d]
    BY <1>2, <1>5 DEF DetectorInv, TypeOK, MapsType, Absent
  <2> QED
    BY <1>2, <1>5, <1>6, <2>1 DEF DetectorInv, FiredInv
<1> QED
  BY <1>3, <1>10, <1>11, <1>12 DEF DetectorInv

LEMMA FireInv ==
  ASSUME DetectorInv, Fire
  PROVE  DetectorInv'
<1> DEFINE c == work.conn
<1>1. PICK i \in DOMAIN Rules :
        LET r == Rules[i].name
        IN /\ c \in Conns /\ conns[c].known /\ Checking
           /\ r \in RuleNames /\ r \notin conns[c].fired
           /\ i + 1 \in Nat /\ i >= work.next /\ Matches(i, work.event, conns[c])
           /\ conns' = [conns EXCEPT ![c] = Raise(conns[c], i)]
           /\ alerted' = [alerted EXCEPT ![c][r][Time(c)] = @ + 1]
           /\ work' = [work EXCEPT !.next = i + 1]
           /\ Publish(Alert) /\ Notify
           /\ UNCHANGED <<sessConn, monitor, summary, settled>>
  BY FireFacts DEF DetectorInv
<1> DEFINE r == Rules[i].name
<1>2. TypeOK'
  BY FireType DEF DetectorInv
<1>3. UNCHANGED clientSide
  BY DetectorStepClients DEF DetectorStep, Handle
<1>4. UNCHANGED <<phase, session>>
  BY <1>3 DEF clientSide, clients
<1>5. Shifted(0, Alert)
  BY <1>1, Published, PublishType, ShiftedByPublish
     DEF DetectorInv, TypeOK, FeedType, Publish
<1>6. /\ conns \in [Conns -> Entries] /\ c \in Conns
      /\ work'.conn = c
      /\ Raise(conns[c], i).fired = conns[c].fired \union {r} /\ Raise(conns[c], i).known
  <2>1. conns \in [Conns -> Entries] /\ c \in Conns /\ conns[c] \in Entries
    BY <1>1 DEF DetectorInv, TypeOK, MapsType
  <2>2. work'.conn = c
    BY <1>1 DEF DetectorInv, TypeOK, MapsType
  <2> QED
    BY <1>1, <2>1, <2>2, RaisedEntry
<1>7. alerted \in [Conns -> [RuleNames -> [{"live", "late"} -> Nat]]] /\ r \in RuleNames
  BY <1>1 DEF DetectorInv, TypeOK, HistoryType
<1>8. conns' = [conns EXCEPT ![c] = Raise(conns[c], i)] /\ r \notin conns[c].fired
      /\ alerted' = [alerted EXCEPT ![c][r][Time(c)] = @ + 1]
      /\ UNCHANGED <<sessConn, settled>>
  BY <1>1
<1>a. c = work.conn
  OBVIOUS
<1> HIDE DEF c, r
<1>9. /\ conns'[c].fired = conns[c].fired \union {r} /\ conns'[c].known
      /\ \A d \in Conns : d # c => conns'[d] = conns[d]
  BY <1>6, <1>8
<1>10. ASSUME NEW d \in Conns, Fresh(d)
       PROVE  Fresh(d)'
  BY <1>6, <1>8, <1>9, <1>10, <1>a DEF Fresh
<1>11. OrderInv' /\ ConnInv'
  BY <1>2, <1>4, <1>5, <1>8, <1>10, DetectorOrder DEF TypeOK, HistoryType
<1>12. SessionInv'
  BY <1>4, <1>8 DEF DetectorInv, SessionInv
<1>13. FiredInv'
  <2>1. /\ \A d \in Conns : d # c => alerted'[d] = alerted[d]
        /\ \A q \in RuleNames : q # r => alerted'[c][q] = alerted[c][q]
        /\ \A t \in {"live", "late"} :
             alerted'[c][r][t] = IF t = Time(c) THEN alerted[c][r][t] + 1 ELSE alerted[c][r][t]
    BY <1>6, <1>7, <1>8
  <2>2. Time(c) = IF c \in settled THEN "late" ELSE "live"
    BY DEF Time
  <2>3. FiredInv
    BY DEF DetectorInv
  <2>4. ASSUME NEW d \in Conns, d # c
        PROVE  /\ ~conns'[d].known => conns'[d].fired = {}
               /\ \A q \in RuleNames :
                    LET now == IF q \in conns'[d].fired THEN 1 ELSE 0
                    IN IF d \in settled'
                       THEN alerted'[d][q]["live"] <= 1 /\ alerted'[d][q]["late"] = now
                       ELSE alerted'[d][q]["live"] = now /\ alerted'[d][q]["late"] = 0
    BY <1>8, <1>9, <2>1, <2>3, <2>4 DEF FiredInv
  <2>5. ASSUME NEW q \in RuleNames
        PROVE  LET now == IF q \in conns'[c].fired THEN 1 ELSE 0
               IN IF c \in settled'
                  THEN alerted'[c][q]["live"] <= 1 /\ alerted'[c][q]["late"] = now
                  ELSE alerted'[c][q]["live"] = now /\ alerted'[c][q]["late"] = 0
    <3>1. CASE q = r
      BY <1>6, <1>7, <1>8, <1>9, <2>1, <2>2, <2>3, <3>1 DEF FiredInv
    <3>2. CASE q # r
      BY <1>6, <1>8, <1>9, <2>1, <2>3, <3>2 DEF FiredInv
    <3> QED
      BY <3>1, <3>2
  <2> QED
    BY <1>6, <1>9, <2>4, <2>5 DEF FiredInv
<1> QED
  BY <1>2, <1>11, <1>12, <1>13 DEF DetectorInv

LEMMA OtherInv ==
  ASSUME DetectorInv, \/ EndCheck \/ MonitorDropped \/ Push
                      \/ \E c \in Conns : LoginAges(c)
  PROVE  DetectorInv'
<1>1. /\ TypeOK'
      /\ queue' \in {queue, Append(queue, Alert)}
      /\ work' \in {work, Idle} /\ UNCHANGED <<sessConn, history>>
      /\ \A c \in Conns : conns'[c].fired = conns[c].fired /\ conns'[c].known = conns[c].known
  BY OtherFacts DEF DetectorInv
<1>2. UNCHANGED clientSide
  BY DetectorStepClients DEF DetectorStep, Handle
<1>3. UNCHANGED <<phase, session, settled, alerted, sessConn>>
  BY <1>1, <1>2 DEF clientSide, clients, history
<1>4. Shifted(0, Alert)
  BY <1>1, Published, ShiftedByPublish DEF DetectorInv, TypeOK
<1>5. ASSUME NEW c \in Conns, Fresh(c)
      PROVE  Fresh(c)'
  BY <1>1, <1>3, <1>5, DetectorAssumption DEF Fresh, Idle
<1>6. OrderInv' /\ ConnInv'
  BY <1>1, <1>3, <1>4, <1>5, DetectorOrder DEF TypeOK, HistoryType
<1>7. SessionInv'
  BY <1>3 DEF DetectorInv, SessionInv
<1>8. FiredInv'
  BY <1>1, <1>3 DEF DetectorInv, FiredInv
<1> QED
  BY <1>1, <1>6, <1>7, <1>8 DEF DetectorInv

LEMMA InvStep ==
  ASSUME DetectorInv, [Next]_vars
  PROVE  DetectorInv'
<1>1. CASE UNCHANGED vars
  <2>1. UNCHANGED <<phase, attempts, session, acts, queue, dropped, unseen, conns, sessConn, work,
                    last, reports, notifying, droppedAlerts, alerted, summary, settled, strays, due>>
    BY <1>1 DEF vars, clients, feed, maps, webhook, monitor, history
  <2>2. TypeOK'
    BY TypeStep DEF DetectorInv
  <2>3. OrderInv'
    BY <2>1 DEF DetectorInv, OrderInv, Places, Fresh, Opening, Closing, About
  <2>4. ConnInv' /\ SessionInv' /\ FiredInv'
    BY <2>1 DEF DetectorInv, ConnInv, SessionInv, FiredInv, Fresh
  <2> QED
    BY <2>2, <2>3, <2>4 DEF DetectorInv
<1> QED
  BY <1>1, NextCases, ClientStepInv, TakeInv, ClosedInv, FireInv, OtherInv
     DEF DetectorStep, Handle, Take

\* The inductive invariant: connection.opened is first and connection.closed comes once in
\* the channel, the detector looks a session up as its own connection, and the alerts
\* raised are those the entry of the connection remembers.
THEOREM Invariance == Spec => []DetectorInv
<1>1. DetectorInv /\ [Next]_vars => DetectorInv'
  BY InvStep
<1> QED
  BY <1>1, InvInit, PTL DEF Spec

\* A rule raises one alert for a connection until its closing is handled, and one after it.
THEOREM OneAlertPerRule == Spec => []RuleFiresOnce
<1>1. DetectorInv => RuleFiresOnce
  BY DEF DetectorInv, FiredInv, RuleFiresOnce
<1> QED
  BY <1>1, Invariance, PTL

------------------------------------------------------------------------------
(***************************************************************************)
(* What stays in the maps.                                                 *)
(***************************************************************************)
\* Does e bring the entry of its connection back?
Reviving(e) == e.type \in {"auth.attempt"} \union ActivityTypes
OpensSession(e, s) == e.type = "session.opened" /\ e.sess = s
ClosesSession(e, s) == e.type = "session.closed" /\ e.sess = s

\* A closing is on its way, has been handled, or never reached the channel.
ClosingInv ==
  \A c \in Conns : phase[c] = "closed" =>
    \/ c \in settled \/ Event("connection.closed", c, Nobody) \in unseen
    \/ \E i \in Places : Closing(queue[i]) /\ queue[i].conn = c

\* What brings an entry back after its closing is the work of a session that went on.
LateInv ==
  /\ \A c \in settled : conns[c].known => c \in strays
  /\ \A j \in Places :
       /\ Reviving(queue[j])
       /\ \/ About(queue[j]) \in settled
          \/ \E i \in Places : i < j /\ Closing(queue[i]) /\ queue[i].conn = About(queue[j])
       => About(queue[j]) \in strays

\* The same of the sessions, whose opening never comes behind their closing.
EndingInv ==
  \A s \in Sessions :
    /\ session[s] = "closed" =>
         \/ Event("session.closed", Owner[s], s) \in unseen
         \/ \E i \in Places : ClosesSession(queue[i], s)
         \/ sessConn[s] = Nobody /\ \A i \in Places : ~OpensSession(queue[i], s)
    /\ \A i \in Places : ClosesSession(queue[i], s) => session[s] = "closed"
    /\ \A i, j \in Places : ClosesSession(queue[i], s) /\ i < j => ~OpensSession(queue[j], s)

ResidueInv == ClosingInv /\ LateInv /\ EndingInv

\* What a step may do that takes k events (none or one) from the channel and publishes e.
Passes(k, e) ==
  /\ Shifted(k, e)
  /\ \A i \in Places : i > k => i - k \in 1..Len(queue') /\ queue'[i - k] = queue[i]
  /\ k = 1 => queue # <<>>
Arrives(e) == e \in unseen' \/ \E i \in 1..Len(queue') : queue'[i] = e

ClosingMove(k, e) ==
  /\ settled \subseteq settled'
  /\ k = 1 /\ Closing(queue[1]) => queue[1].conn \in settled'
  /\ \A c \in Conns : phase'[c] = "closed" =>
       phase[c] = "closed" \/ (e = Event("connection.closed", c, Nobody) /\ Arrives(e))

LateMove(k, e) ==
  /\ strays \subseteq strays'
  /\ \A c \in settled' : c \in settled \/ (k = 1 /\ Closing(queue[1]) /\ queue[1].conn = c)
  /\ \A c \in settled' : conns'[c].known =>
       c \in settled /\ (conns[c].known \/ (k = 1 /\ Reviving(queue[1]) /\ About(queue[1]) = c))
  /\ Reviving(e) /\ phase'[About(e)] = "closed" => About(e) \in strays'

EndingMove(k, e) ==
  \A s \in Sessions :
    /\ session[s] = "closed" => session'[s] = "closed"
    /\ session'[s] = "closed" =>
         session[s] = "closed" \/ (e = Event("session.closed", Owner[s], s) /\ Arrives(e))
    /\ OpensSession(e, s) => session[s] # "closed" /\ session'[s] # "closed"
    /\ ClosesSession(e, s) => session'[s] = "closed"
    /\ sessConn'[s] # Nobody => sessConn[s] # Nobody \/ (k = 1 /\ OpensSession(queue[1], s))
    /\ k = 1 /\ ClosesSession(queue[1], s) => sessConn'[s] = Nobody

LEMMA PlacesFacts ==
  ASSUME TypeOK, NEW CONSTANT k \in {0, 1}, NEW STATE e, e \in Events, Passes(k, e)
  PROVE  /\ Len(queue) \in Nat /\ Len(queue') \in Nat
         /\ \A i \in Places : i \in Nat /\ queue[i] \in Events
         /\ k = 1 => 1 \in Places
         /\ \A i \in 1..Len(queue') : i \in Nat /\ queue'[i] \in Events
BY DEF TypeOK, FeedType, Passes, Shifted, Places

LEMMA ClosingKept ==
  ASSUME TypeOK, ClosingInv, NEW CONSTANT k \in {0, 1}, NEW STATE e, e \in Events,
         Passes(k, e), ClosingMove(k, e), unseen \subseteq unseen'
  PROVE  ClosingInv'
<1> DEFINE P == 1..Len(queue')
<1> SUFFICES ASSUME NEW c \in Conns, phase'[c] = "closed"
             PROVE  \/ c \in settled' \/ Event("connection.closed", c, Nobody) \in unseen'
                    \/ \E i \in P : queue'[i].type = "connection.closed" /\ queue'[i].conn = c
  BY DEF ClosingInv, Places, Closing, Event
<1>1. CASE e = Event("connection.closed", c, Nobody) /\ Arrives(e)
  <2>1. e.type = "connection.closed" /\ e.conn = c
    BY <1>1 DEF Event
  <2> QED
    BY <1>1, <2>1 DEF Arrives
<1>2. CASE phase[c] = "closed"
  <2>1. CASE c \in settled \/ Event("connection.closed", c, Nobody) \in unseen
    BY <2>1 DEF ClosingMove
  <2>2. ASSUME NEW i \in Places, Closing(queue[i]), queue[i].conn = c
        PROVE  \/ c \in settled'
               \/ \E j \in P : queue'[j].type = "connection.closed" /\ queue'[j].conn = c
    <3>1. i \in Nat /\ (i > k \/ (k = 1 /\ i = 1))
      BY PlacesFacts DEF Places
    <3>2. CASE i > k
      BY <2>2, <3>2 DEF Passes, Closing
    <3>3. CASE k = 1 /\ i = 1
      BY <2>2, <3>3 DEF ClosingMove
    <3> QED
      BY <3>1, <3>2, <3>3
  <2> QED
    BY <1>2, <2>1, <2>2 DEF ClosingInv
<1> QED
  BY <1>1, <1>2 DEF ClosingMove

LEMMA LateKept ==
  ASSUME DetectorInv, OrderInv', ConnInv', settled' \subseteq Conns, LateInv,
         NEW CONSTANT k \in {0, 1}, NEW STATE e, e \in Events,
         Passes(k, e), LateMove(k, e)
  PROVE  LateInv'
<1> DEFINE P == 1..Len(queue')
<1>0. TypeOK
  BY DEF DetectorInv
<1>1. ASSUME NEW c \in settled', conns'[c].known
      PROVE  c \in strays'
  <2>1. c \in settled
    BY <1>1 DEF LateMove
  <2>2. CASE conns[c].known
    BY <2>1, <2>2 DEF LateInv, LateMove
  <2>3. CASE k = 1 /\ Reviving(queue[1]) /\ About(queue[1]) = c
    BY <1>0, <2>1, <2>3, PlacesFacts DEF LateInv, LateMove
  <2> QED
    BY <1>1, <2>2, <2>3 DEF LateMove
<1>2. ASSUME NEW j \in P, Reviving(queue'[j]),
             \/ About(queue'[j]) \in settled'
             \/ \E i \in P : i < j /\ Closing(queue'[i]) /\ queue'[i].conn = About(queue'[j])
      PROVE  About(queue'[j]) \in strays'
  <2> DEFINE c == About(queue'[j])
  <2>1. CASE j + k \in Places /\ queue'[j] = queue[j + k]
    <3>1. \/ c \in settled
          \/ \E i \in Places : i < j + k /\ Closing(queue[i]) /\ queue[i].conn = c
      <4>1. CASE c \in settled'
        <5>1. k = 1 => 1 \in Places /\ 1 < j + k
          BY <1>0, PlacesFacts
        <5> QED
          BY <4>1, <5>1 DEF LateMove
      <4>2. ASSUME NEW i \in P, i < j, Closing(queue'[i]), queue'[i].conn = c
            PROVE  \E h \in Places : h < j + k /\ Closing(queue[h]) /\ queue[h].conn = c
        <5>1. i \in Nat /\ j \in Nat /\ Len(queue) \in Nat
          BY <1>0, PlacesFacts
        <5>2. i + k \in Places /\ queue'[i] = queue[i + k]
          BY <2>1, <4>2, <5>1 DEF Passes, Shifted, Places
        <5>3. i + k < j + k
          BY <4>2, <5>1
        <5> QED
          BY <4>2, <5>2, <5>3
      <4> QED
        BY <1>2, <4>1, <4>2
    <3>2. Reviving(queue[j + k]) /\ About(queue[j + k]) = c
      BY <1>2, <2>1
    <3> QED
      BY <2>1, <3>1, <3>2 DEF LateInv, LateMove
  <2>2. CASE queue'[j] = e
    <3>1. ASSUME c \in settled'
          PROVE  phase'[c] = "closed"
      BY <3>1 DEF ConnInv
    <3>2. ASSUME NEW i \in P, Closing(queue'[i]), queue'[i].conn = c
          PROVE  phase'[c] = "closed"
      BY <3>2 DEF OrderInv, Places, Closing
    <3> QED
      BY <1>2, <2>2, <3>1, <3>2 DEF LateMove
  <2> QED
    BY <2>1, <2>2 DEF Passes, Shifted
<1> QED
  BY <1>1, <1>2 DEF LateInv, Places, Reviving, Closing, About

LEMMA EndingKept ==
  ASSUME TypeOK, EndingInv, NEW CONSTANT k \in {0, 1}, NEW STATE e, e \in Events,
         Passes(k, e), EndingMove(k, e), unseen \subseteq unseen'
  PROVE  EndingInv'
<1> DEFINE P == 1..Len(queue')
<1>0. /\ Len(queue) \in Nat /\ Len(queue') \in Nat
      /\ \A i \in P : \/ i + k \in Places /\ queue'[i] = queue[i + k]
                      \/ i + k = Len(queue) + 1 /\ queue'[i] = e
      /\ k = 1 => 1 \in Places
  BY PlacesFacts DEF Passes, Shifted
<1> SUFFICES ASSUME NEW s \in Sessions
             PROVE  /\ session'[s] = "closed" =>
                         \/ Event("session.closed", Owner[s], s) \in unseen'
                         \/ \E i \in P : ClosesSession(queue'[i], s)
                         \/ sessConn'[s] = Nobody /\ \A i \in P : ~OpensSession(queue'[i], s)
                    /\ \A i \in P : ClosesSession(queue'[i], s) => session'[s] = "closed"
                    /\ \A i, j \in P : ClosesSession(queue'[i], s) /\ i < j => ~OpensSession(queue'[j], s)
  BY DEF EndingInv, Places, OpensSession, ClosesSession, Event
<1>1. ASSUME session'[s] = "closed"
      PROVE  \/ Event("session.closed", Owner[s], s) \in unseen'
             \/ \E i \in P : ClosesSession(queue'[i], s)
             \/ sessConn'[s] = Nobody /\ \A i \in P : ~OpensSession(queue'[i], s)
  <2>1. CASE e = Event("session.closed", Owner[s], s) /\ Arrives(e)
    <3>1. ClosesSession(e, s)
      BY <2>1 DEF Event, ClosesSession
    <3> QED
      BY <2>1, <3>1 DEF Arrives
  <2>2. CASE session[s] = "closed"
    <3>1. CASE Event("session.closed", Owner[s], s) \in unseen
      BY <3>1
    <3>2. ASSUME NEW i \in Places, ClosesSession(queue[i], s)
          PROVE  \/ \E h \in P : ClosesSession(queue'[h], s)
                 \/ sessConn'[s] = Nobody /\ \A h \in P : ~OpensSession(queue'[h], s)
      <4>1. i \in Nat /\ (i > k \/ (k = 1 /\ i = 1))
        BY PlacesFacts DEF Places
      <4>2. CASE i > k
        BY <3>2, <4>2 DEF Passes
      <4>3. CASE k = 1 /\ i = 1
        <5>1. sessConn'[s] = Nobody
          BY <3>2, <4>3 DEF EndingMove
        <5>2. ASSUME NEW h \in P
              PROVE  ~OpensSession(queue'[h], s)
          <6>1. CASE queue'[h] = e
            BY <1>1, <6>1 DEF EndingMove
          <6>2. CASE h + k \in Places /\ queue'[h] = queue[h + k]
            <7>1. 1 < h + k
              BY <4>3
            <7> QED
              BY <3>2, <4>3, <6>2, <7>1 DEF EndingInv
          <6> QED
            BY <1>0, <6>1, <6>2
        <5> QED
          BY <5>1, <5>2
      <4> QED
        BY <4>1, <4>2, <4>3
    <3>3. CASE sessConn[s] = Nobody /\ \A i \in Places : ~OpensSession(queue[i], s)
      <4>1. sessConn'[s] = Nobody
        BY <1>0, <3>3 DEF EndingMove
      <4>2. \A h \in P : ~OpensSession(queue'[h], s)
        BY <1>0, <1>1, <3>3 DEF EndingMove
      <4> QED
        BY <4>1, <4>2
    <3> QED
      BY <2>2, <3>1, <3>2, <3>3 DEF EndingInv
  <2> QED
    BY <1>1, <2>1, <2>2 DEF EndingMove
<1>2. ASSUME NEW i \in P, ClosesSession(queue'[i], s)
      PROVE  session'[s] = "closed"
  BY <1>0, <1>2 DEF EndingInv, EndingMove
<1>3. ASSUME NEW i \in P, NEW j \in P, ClosesSession(queue'[i], s), i < j
      PROVE  ~OpensSession(queue'[j], s)
  <2>1. i \in Nat /\ j \in Nat
    OBVIOUS
  <2>2. i + k \in Places /\ queue'[i] = queue[i + k]
    BY <1>0, <1>3, <2>1 DEF Places
  <2>3. CASE queue'[j] = e
    BY <1>3, <2>2, <2>3 DEF EndingInv, EndingMove
  <2>4. CASE j + k \in Places /\ queue'[j] = queue[j + k]
    <3>1. i + k < j + k
      BY <1>3, <2>1
    <3> QED
      BY <1>3, <2>2, <2>4, <3>1 DEF EndingInv
  <2> QED
    BY <1>0, <2>3, <2>4
<1> QED
  BY <1>1, <1>2, <1>3

------------------------------------------------------------------------------
(***************************************************************************)
(* Every step makes such moves.                                            *)
(***************************************************************************)
Moves(k, e) ==
  /\ Passes(k, e) /\ ClosingMove(k, e) /\ LateMove(k, e) /\ EndingMove(k, e)
  /\ unseen \subseteq unseen'

LEMMA PublishPasses ==
  ASSUME TypeOK, NEW STATE e, e \in Events, Publish(e)
  PROVE  /\ Passes(0, e) /\ unseen \subseteq unseen'
         /\ e.type # "alert" => Arrives(e)
<1>1. queue \in Seq(Events) /\ Len(queue) \in Nat
  BY DEF TypeOK, FeedType
<1>2. \/ queue' = Append(queue, e) /\ UNCHANGED unseen
      \/ queue' = queue /\ unseen \subseteq unseen' /\ (e.type # "alert" => e \in unseen')
  BY DEF Publish, PublishOnto
<1>3. Shifted(0, e)
  BY <1>2, ShiftedByPublish DEF TypeOK
<1>4. CASE queue' = Append(queue, e) /\ UNCHANGED unseen
  <2>1. /\ Len(queue') = Len(queue) + 1 /\ queue'[Len(queue) + 1] = e
        /\ \A i \in 1..Len(queue) : queue'[i] = queue[i]
    BY <1>1, <1>4
  <2> QED
    BY <1>1, <1>3, <1>4, <2>1 DEF Passes, Arrives, Places
<1>5. CASE /\ queue' = queue /\ unseen \subseteq unseen'
           /\ e.type # "alert" => e \in unseen'
  BY <1>1, <1>3, <1>5 DEF Passes, Arrives, Places
<1> QED
  BY <1>2, <1>4, <1>5

LEMMA QuietPasses ==
  ASSUME TypeOK, UNCHANGED <<queue, unseen>>
  PROVE  Passes(0, Alert) /\ unseen \subseteq unseen'
<1>1. queue \in Seq(Events) /\ Len(queue) \in Nat /\ queue' = queue /\ unseen' = unseen
  BY DEF TypeOK, FeedType
<1>2. Shifted(0, Alert)
  BY <1>1, Published, ShiftedByPublish DEF TypeOK
<1> QED
  BY <1>1, <1>2 DEF Passes, Places

LEMMA TakePasses ==
  ASSUME TypeOK, queue # <<>>, queue' \in {Tail(queue), Append(Tail(queue), Alert)}
  PROVE  Passes(1, Alert)
<1>1. /\ Tail(queue) \in Seq(Events) /\ Len(Tail(queue)) = Len(queue) - 1 /\ Len(queue) \in Nat
      /\ \A i \in 1..Len(Tail(queue)) : Tail(queue)[i] = queue[i + 1]
  BY Rest DEF TypeOK, FeedType
<1>2. Shifted(1, Alert)
  BY Published, ShiftedByTake DEF TypeOK
<1> DEFINE q == Tail(queue)
<1> HIDE DEF q
<1>3. Len(q) = Len(queue) - 1 /\ \A i \in 1..Len(q) : q[i] = queue[i + 1]
  BY <1>1 DEF q
<1>4. Len(q) <= Len(queue') /\ Len(queue') \in Nat /\ \A i \in 1..Len(q) : queue'[i] = q[i]
  <2>1. q \in Seq(Events) /\ queue' \in {q, Append(q, Alert)}
    BY <1>1 DEF q
  <2> QED
    BY <2>1
<1>5. ASSUME NEW i \in Places, i > 1
      PROVE  i - 1 \in 1..Len(queue') /\ queue'[i - 1] = queue[i]
  <2>1. i - 1 \in 1..Len(q) /\ (i - 1) + 1 = i
    BY <1>1, <1>3, <1>5 DEF Places
  <2>2. queue'[i - 1] = q[i - 1] /\ q[i - 1] = queue[(i - 1) + 1]
    BY <1>3, <1>4, <2>1
  <2>3. i - 1 \in 1..Len(queue')
    BY <1>1, <1>3, <1>4, <2>1
  <2> QED
    BY <2>1, <2>2, <2>3
<1> QED
  BY <1>2, <1>5 DEF Passes

\* The alert on its way to the other subscribers concerns nobody here.
LEMMA AlertIsQuiet ==
  /\ ~Reviving(Alert)
  /\ \A s \in Sessions : ~OpensSession(Alert, s) /\ ~ClosesSession(Alert, s)
BY RuleTable, EventTable DEF Reviving, OpensSession, ClosesSession

\* A step of the clients, which leaves the maps alone.
LEMMA ClientMoves ==
  ASSUME DetectorInv, ClientStep
  PROVE  \E e \in Events : Moves(0, e)
<1> USE DetectorAssumption
<1>1. TypeOK
  BY DEF DetectorInv
<1>2. UNCHANGED <<conns, sessConn, settled>>
  BY ClientFacts DEF detectorVars, maps, history
<1>3. ASSUME NEW c \in Conns, OpenConnection(c)
      PROVE  \E e \in Events : Moves(0, e)
  <2> DEFINE e == Event("connection.opened", c, Nobody)
  <2>1. e \in Events /\ e.type = "connection.opened" /\ e.type \notin ActivityTypes
    BY Published, RuleTable DEF Event
  <2>2. Passes(0, e) /\ unseen \subseteq unseen'
    BY <1>1, <1>3, <2>1, PublishPasses DEF OpenConnection
  <2>3. phase' = [phase EXCEPT ![c] = "auth"] /\ UNCHANGED <<session, strays>>
    BY <1>3 DEF OpenConnection
  <2> HIDE DEF e
  <2>4. ClosingMove(0, e) /\ LateMove(0, e) /\ EndingMove(0, e)
    BY <1>1, <1>2, <2>1, <2>3
       DEF ClosingMove, LateMove, EndingMove, Reviving, OpensSession, ClosesSession, TypeOK, ClientType
  <2> QED
    BY <2>1, <2>2, <2>4 DEF Moves
<1>4. ASSUME NEW c \in Conns, NEW ok \in BOOLEAN, Authenticate(c, ok)
      PROVE  \E e \in Events : Moves(0, e)
  <2> DEFINE e == Attempt(c, ok)
  <2>1. e \in Events /\ e.type = "auth.attempt" /\ About(e) = c
    BY Published DEF Attempt, Event, About
  <2>2. Passes(0, e) /\ unseen \subseteq unseen'
    BY <1>1, <1>4, <2>1, PublishPasses DEF Authenticate
  <2>3. /\ phase' = [phase EXCEPT ![c] = IF ok THEN "open" ELSE phase[c]] /\ phase[c] = "auth"
        /\ UNCHANGED <<session, strays>>
    BY <1>4 DEF Authenticate
  <2> HIDE DEF e
  <2>4. ClosingMove(0, e) /\ LateMove(0, e) /\ EndingMove(0, e)
    BY <1>1, <1>2, <2>1, <2>3
       DEF ClosingMove, LateMove, EndingMove, Reviving, OpensSession, ClosesSession, TypeOK, ClientType
  <2> QED
    BY <2>1, <2>2, <2>4 DEF Moves
<1>5. ASSUME NEW c \in Conns, CloseConnection(c)
      PROVE  \E e \in Events : Moves(0, e)
  <2> DEFINE e == Event("connection.closed", c, Nobody)
  <2>1. e \in Events /\ e.type = "connection.closed" /\ e.type \notin ActivityTypes
    BY Published, RuleTable DEF Event
  <2>2. Passes(0, e) /\ unseen \subseteq unseen' /\ Arrives(e)
    BY <1>1, <1>5, <2>1, PublishPasses DEF CloseConnection
  <2>3. phase' = [phase EXCEPT ![c] = "closed"] /\ UNCHANGED <<session, strays>>
    BY <1>5 DEF CloseConnection
  <2>4. ClosingMove(0, e)
    <3>1. \A d \in Conns : phase'[d] = "closed" => phase[d] = "closed" \/ d = c
      BY <1>1, <2>3 DEF TypeOK, ClientType
    <3> QED
      BY <1>2, <2>2, <3>1 DEF ClosingMove
  <2> HIDE DEF e
  <2>5. LateMove(0, e) /\ EndingMove(0, e)
    BY <1>2, <2>1, <2>3
       DEF LateMove, EndingMove, Reviving, OpensSession, ClosesSession
  <2> QED
    BY <2>1, <2>2, <2>4, <2>5 DEF Moves
<1>6. ASSUME NEW s \in Sessions, NEW a \in Activities, Do(s, a)
      PROVE  \E e \in Events : Moves(0, e)
  <2> DEFINE e == Act(s, a)
  <2>1. e \in Events /\ e.type \in ActivityTypes /\ About(e) = Owner[s]
    BY Published DEF Act, Event, About
  <2>2. Passes(0, e) /\ unseen \subseteq unseen'
    <3>1. Publish(e)
      BY <1>6 DEF Do
    <3> QED
      BY <1>1, <2>1, <3>1, PublishPasses
  <2>3. /\ strays' = IF phase[Owner[s]] = "closed" THEN strays \union {Owner[s]} ELSE strays
        /\ UNCHANGED <<phase, session>>
    BY <1>6 DEF Do
  <2> HIDE DEF e
  <2>4. e.type \notin {"session.opened", "session.closed"}
    BY <2>1, RuleTable
  <2>5. ClosingMove(0, e) /\ LateMove(0, e) /\ EndingMove(0, e)
    BY <1>2, <2>1, <2>3, <2>4
       DEF ClosingMove, LateMove, EndingMove, Reviving, OpensSession, ClosesSession
  <2> QED
    BY <2>1, <2>2, <2>5 DEF Moves
<1>7. ASSUME NEW s \in Sessions, OpenSession(s)
      PROVE  \E e \in Events : Moves(0, e)
  <2> DEFINE e == Event("session.opened", Owner[s], s)
  <2>1. e \in Events /\ e.type = "session.opened" /\ e.sess = s /\ e.type \notin ActivityTypes
    BY Published, RuleTable DEF Event
  <2>2. Passes(0, e) /\ unseen \subseteq unseen'
    BY <1>1, <1>7, <2>1, PublishPasses DEF OpenSession
  <2>3. /\ session[s] = "accepted" /\ session' = [session EXCEPT ![s] = "open"]
        /\ UNCHANGED <<phase, strays>>
    BY <1>7 DEF OpenSession
  <2> HIDE DEF e
  <2>4. ClosingMove(0, e) /\ LateMove(0, e)
    BY <1>2, <2>1, <2>3 DEF ClosingMove, LateMove, Reviving
  <2>5. EndingMove(0, e)
    BY <1>1, <1>2, <2>1, <2>3 DEF EndingMove, OpensSession, ClosesSession, TypeOK, ClientType
  <2> QED
    BY <2>1, <2>2, <2>4, <2>5 DEF Moves
<1>8. ASSUME NEW s \in Sessions, CloseSession(s)
      PROVE  \E e \in Events : Moves(0, e)
  <2> DEFINE e == Event("session.closed", Owner[s], s)
  <2>1. e \in Events /\ e.type = "session.closed" /\ e.sess = s /\ e.type \notin ActivityTypes
    BY Published, RuleTable DEF Event
  <2>2. Passes(0, e) /\ unseen \subseteq unseen' /\ Arrives(e)
    BY <1>1, <1>8, <2>1, PublishPasses DEF CloseSession
  <2>3. /\ session' = [session EXCEPT ![s] = "closed"] /\ session'[s] = "closed"
        /\ UNCHANGED <<phase, strays>>
    BY <1>1, <1>8 DEF CloseSession, TypeOK, ClientType
  <2>4. ClosingMove(0, e) /\ LateMove(0, e)
    <3> HIDE DEF e
    <3> QED
      BY <1>2, <2>1, <2>3 DEF ClosingMove, LateMove, Reviving
  <2>5. EndingMove(0, e)
    <3>1. \A t \in Sessions : t # s => session'[t] = session[t]
      BY <1>1, <2>3 DEF TypeOK, ClientType
    <3>2. \A t \in Sessions : session'[t] = "closed" =>
            session[t] = "closed" \/ (e = Event("session.closed", Owner[t], t) /\ Arrives(e))
      BY <2>2, <3>1
    <3> HIDE DEF e
    <3> QED
      BY <1>2, <2>1, <2>3, <3>1, <3>2 DEF EndingMove, OpensSession, ClosesSession
  <2> QED
    BY <2>1, <2>2, <2>4, <2>5 DEF Moves
<1>9. ASSUME UNCHANGED feed, UNCHANGED strays,
             \A c \in Conns : phase'[c] = "closed" => phase[c] = "closed",
             \A s \in Sessions : session'[s] = "closed" <=> session[s] = "closed"
      PROVE  \E e \in Events : Moves(0, e)
  <2>1. Passes(0, Alert) /\ unseen \subseteq unseen' /\ Alert \in Events
    BY <1>1, <1>9, QuietPasses, Published DEF feed
  <2>2. ClosingMove(0, Alert) /\ LateMove(0, Alert) /\ EndingMove(0, Alert)
    BY <1>2, <1>9, AlertIsQuiet DEF ClosingMove, LateMove, EndingMove
  <2> QED
    BY <2>1, <2>2 DEF Moves
<1>10. CASE \E c \in Conns : SkipAuthentication(c)
  BY <1>1, <1>9, <1>10 DEF SkipAuthentication, TypeOK, ClientType
<1>11. CASE \E s \in Sessions : AcceptChannel(s) \/ AbandonSession(s)
  BY <1>1, <1>9, <1>11 DEF AcceptChannel, AbandonSession, TypeOK, ClientType
<1> QED
  BY <1>3, <1>4, <1>5, <1>6, <1>7, <1>8, <1>10, <1>11 DEF ClientStep

\* What taking the head of the channel does to the sessions.
LEMMA TakeSessions ==
  ASSUME Take
  PROVE  \/ UNCHANGED sessConn /\ Head(queue).type # "session.closed"
         \/ /\ Head(queue).type = "session.opened"
            /\ sessConn' = [sessConn EXCEPT ![Head(queue).sess] = Head(queue).conn]
         \/ /\ Head(queue).type = "session.closed"
            /\ sessConn' = [sessConn EXCEPT ![Head(queue).sess] = Nobody]
<1>1. CASE TakeAlert \/ TakeOpened \/ TakeAttempt
  BY <1>1 DEF TakeAlert, TakeOpened, TakeAttempt, Receiving, maps
<1>2. CASE TakeSessionOpened \/ TakeSessionClosed
  BY <1>2 DEF TakeSessionOpened, TakeSessionClosed, Receiving
<1>3. CASE TakeActivity
  <2>1. Head(queue).type \in ActivityTypes /\ UNCHANGED sessConn
    BY <1>3 DEF TakeActivity, Receiving
  <2> QED
    BY <2>1, RuleTable
<1> QED
  BY <1>1, <1>2, <1>3 DEF Take

LEMMA TakeMoves ==
  ASSUME DetectorInv, Take
  PROVE  Moves(1, Alert)
<1> USE DetectorAssumption
<1> DEFINE e == Head(queue)
<1>1. TypeOK
  BY DEF DetectorInv
<1>2. /\ queue # <<>> /\ queue' = Tail(queue)
      /\ UNCHANGED <<unseen, settled, phase, session, strays>>
  BY TakeFeed, DetectorStepClients DEF Take, DetectorStep, Handle, clientSide, clients, history
<1>3. e = queue[1] /\ e \in Events /\ 1 \in Places
  BY <1>1, <1>2, Rest DEF TypeOK, FeedType, Places
<1>4. Passes(1, Alert)
  BY <1>1, <1>2, TakePasses
<1>5. ~Closing(e)
  BY <1>3, EventShape, RuleTable
     DEF Take, TakeAlert, TakeOpened, TakeAttempt, TakeSessionOpened, TakeSessionClosed,
         TakeActivity, Receiving, Closing
<1>6. ClosingMove(1, Alert)
  BY <1>2, <1>3, <1>5 DEF ClosingMove
<1>7. ASSUME NEW c \in Conns, c \in settled, conns'[c].known
      PROVE  conns[c].known \/ (Reviving(e) /\ About(e) = c)
  <2>1. CASE UNCHANGED conns
    BY <1>7, <2>1
  <2>2. CASE /\ e.type = "connection.opened"
             /\ conns' = [conns EXCEPT ![e.conn] = NewEntry]
    <3>1. e.conn \notin settled
      BY <1>3, <2>2 DEF DetectorInv, OrderInv, Opening, Fresh
    <3> HIDE DEF e
    <3> QED
      BY <1>1, <1>7, <2>2, <3>1 DEF TypeOK, MapsType
  <2>3. CASE /\ e.type \in {"auth.attempt"} \union ActivityTypes
             /\ work'.conn \in Conns
             /\ e.type = "auth.attempt" => work'.conn = About(e)
             /\ e.type \in ActivityTypes => work'.conn = sessConn[e.sess]
             /\ \E st \in Entries : conns' = [conns EXCEPT ![work'.conn] = st]
    <3>1. work'.conn = About(e)
      <4>1. CASE e.type \in ActivityTypes
        <5>1. e.sess \in Sessions /\ About(e) = Owner[e.sess]
          BY <1>3, <4>1, EventShape
        <5> QED
          BY <2>3, <4>1, <5>1 DEF DetectorInv, SessionInv
      <4> QED
        BY <2>3, <4>1
    <3>2. Reviving(e)
      BY <2>3 DEF Reviving
    <3>3. \A d \in Conns : d # About(e) => conns'[d] = conns[d]
      <4> HIDE DEF e
      <4> QED
        BY <1>1, <2>3, <3>1 DEF TypeOK, MapsType
    <3> HIDE DEF e
    <3> QED
      BY <1>7, <3>2, <3>3
  <2> QED
    BY <1>1, <2>1, <2>2, <2>3, TakeMaps
<1>8. LateMove(1, Alert)
  <2>1. settled \subseteq Conns
    BY <1>1 DEF TypeOK, HistoryType
  <2> QED
    BY <1>2, <1>3, <1>7, <2>1, AlertIsQuiet DEF LateMove
<1>9. EndingMove(1, Alert)
  <2>1. sessConn \in [Sessions -> Conns \union {Nobody}]
    BY <1>1 DEF TypeOK, MapsType
  <2>2. CASE UNCHANGED sessConn /\ e.type # "session.closed"
    BY <1>2, <1>3, <2>2, AlertIsQuiet DEF EndingMove, ClosesSession
  <2>3. CASE /\ e.type = "session.opened"
             /\ sessConn' = [sessConn EXCEPT ![e.sess] = e.conn]
    <3> HIDE DEF e
    <3> QED
      BY <1>2, <1>3, <2>1, <2>3, AlertIsQuiet DEF EndingMove, OpensSession, ClosesSession
  <2>4. CASE /\ e.type = "session.closed"
             /\ sessConn' = [sessConn EXCEPT ![e.sess] = Nobody]
    <3> HIDE DEF e
    <3> QED
      BY <1>2, <1>3, <2>1, <2>4, AlertIsQuiet DEF EndingMove, OpensSession, ClosesSession
  <2> QED
    BY <2>2, <2>3, <2>4, TakeSessions
<1> QED
  BY <1>2, <1>4, <1>6, <1>8, <1>9 DEF Moves

LEMMA ClosedMoves ==
  ASSUME DetectorInv, TakeClosed
  PROVE  Moves(1, Alert)
<1> DEFINE c == Head(queue).conn
<1>1. TypeOK
  BY DEF DetectorInv
<1>2. /\ queue # <<>> /\ Head(queue).type = "connection.closed"
      /\ queue' \in {Tail(queue), Append(Tail(queue), Alert)}
      /\ UNCHANGED <<phase, session, strays>>
  BY <1>1, ClosedFeed, DetectorStepClients DEF DetectorStep, Handle, clientSide, clients
<1>3. Head(queue) = queue[1] /\ Head(queue) \in Events
  BY <1>1, <1>2, Rest DEF TypeOK
<1>4. c \in Conns /\ Closing(queue[1]) /\ queue[1].conn = c
  BY <1>2, <1>3, EventShape DEF Closing
<1>5. conns' = [conns EXCEPT ![c] = Absent] /\ settled' = settled \union {c}
      /\ UNCHANGED sessConn
  BY DEF TakeClosed
<1>6. UNCHANGED unseen
  <2>1. PublishOnto(Tail(queue), Alert) \/ UNCHANGED unseen
    BY DEF TakeClosed
  <2> QED
    BY <2>1, EventTable DEF PublishOnto
<1>7. Passes(1, Alert)
  BY <1>1, <1>2, TakePasses
<1> HIDE DEF c
<1>8. ClosingMove(1, Alert)
  BY <1>2, <1>4, <1>5 DEF ClosingMove
<1>9. LateMove(1, Alert)
  <2>1. /\ settled \subseteq Conns /\ ~conns'[c].known
        /\ \A d \in Conns : d # c => conns'[d] = conns[d]
    BY <1>1, <1>4, <1>5 DEF TypeOK, HistoryType, MapsType, Absent
  <2> QED
    BY <1>2, <1>4, <1>5, <2>1, AlertIsQuiet DEF LateMove
<1>10. EndingMove(1, Alert)
  BY <1>2, <1>4, <1>5, AlertIsQuiet DEF EndingMove, Closing, ClosesSession
<1> QED
  BY <1>6, <1>7, <1>8, <1>9, <1>10 DEF Moves

\* The steps that take nothing from the channel and leave the entries in place.
LEMMA QuietMoves ==
  ASSUME TypeOK, UNCHANGED <<clientSide, sessConn, settled>>,
         UNCHANGED <<queue, unseen>> \/ Publish(Alert),
         \A c \in Conns : conns'[c].known = conns[c].known
  PROVE  Moves(0, Alert)
<1>1. Passes(0, Alert) /\ unseen \subseteq unseen'
  BY PublishPasses, QuietPasses, Published
<1>2. UNCHANGED <<phase, session, strays>> /\ settled \subseteq Conns
  BY DEF clientSide, clients, TypeOK, HistoryType
<1>3. ClosingMove(0, Alert) /\ LateMove(0, Alert) /\ EndingMove(0, Alert)
  BY <1>2, AlertIsQuiet DEF ClosingMove, LateMove, EndingMove
<1> QED
  BY <1>1, <1>3 DEF Moves

LEMMA FireMoves ==
  ASSUME DetectorInv, Fire
  PROVE  Moves(0, Alert)
<1> DEFINE c == work.conn
<1>1. TypeOK /\ UNCHANGED clientSide
  BY DetectorStepClients DEF DetectorInv, DetectorStep, Handle
<1>2. PICK i \in DOMAIN Rules :
        /\ c \in Conns /\ conns[c].known
        /\ conns' = [conns EXCEPT ![c] = Raise(conns[c], i)]
        /\ Publish(Alert) /\ UNCHANGED <<sessConn, settled>>
  BY <1>1, FireFacts
<1> HIDE DEF c
<1>3. conns \in [Conns -> Entries] /\ conns[c] \in Entries
  BY <1>1, <1>2 DEF TypeOK, MapsType
<1>4. Raise(conns[c], i).known = conns[c].known
  BY <1>3, RaisedEntry
<1>5. \A d \in Conns : conns'[d].known = conns[d].known
  BY <1>2, <1>3, <1>4
<1> QED
  BY <1>1, <1>2, <1>5, QuietMoves

LEMMA OtherMoves ==
  ASSUME DetectorInv, \/ EndCheck \/ MonitorDropped \/ Push
                      \/ \E c \in Conns : LoginAges(c)
  PROVE  Moves(0, Alert)
<1>1. TypeOK /\ UNCHANGED clientSide
  BY DetectorStepClients DEF DetectorInv, DetectorStep, Handle
<1>2. /\ UNCHANGED <<sessConn, settled>>
      /\ \A c \in Conns : conns'[c].known = conns[c].known
  BY <1>1, OtherFacts DEF history
<1>3. UNCHANGED <<queue, unseen>> \/ Publish(Alert)
  BY DEF EndCheck, MonitorDropped, Push, LoginAges, feed
<1> QED
  BY <1>1, <1>2, <1>3, QuietMoves

LEMMA ResidueInit == Init => ResidueInv
<1> SUFFICES ASSUME Init PROVE ResidueInv
  OBVIOUS
<1>1. Places = {}
  BY DEF Init, Places
<1>2. ClosingInv /\ LateInv /\ EndingInv
  BY <1>1 DEF Init, ClosingInv, LateInv, EndingInv
<1> QED
  BY <1>2 DEF ResidueInv

LEMMA ResidueStep ==
  ASSUME DetectorInv, ResidueInv, [Next]_vars
  PROVE  ResidueInv'
<1>1. TypeOK /\ DetectorInv'
  BY InvStep DEF DetectorInv
<1>2. \E k \in {0, 1}, e \in Events : Moves(k, e)
  <2>1. CASE ClientStep
    BY <2>1, ClientMoves
  <2>2. CASE Take \/ TakeClosed
    BY <2>2, TakeMoves, ClosedMoves, Published
  <2>3. CASE Fire \/ EndCheck \/ MonitorDropped \/ Push \/ \E c \in Conns : LoginAges(c)
    BY <2>3, FireMoves, OtherMoves, Published
  <2>4. CASE UNCHANGED vars
    <3>1. /\ UNCHANGED <<clientSide, sessConn, settled, queue, unseen>>
          /\ \A c \in Conns : conns'[c].known = conns[c].known
      BY <2>4 DEF vars, clientSide, clients, feed, maps, history
    <3> QED
      BY <1>1, <3>1, QuietMoves, Published
  <2> QED
    BY <2>1, <2>2, <2>3, <2>4, NextCases DEF DetectorStep, Handle, Take
<1>3. PICK k \in {0, 1}, e \in Events : Moves(k, e)
  BY <1>2
<1>4. /\ Passes(k, e) /\ ClosingMove(k, e) /\ LateMove(k, e) /\ EndingMove(k, e)
      /\ unseen \subseteq unseen'
  BY <1>3 DEF Moves
<1>5. ClosingInv'
  BY <1>1, <1>4, ClosingKept DEF ResidueInv
<1>6. LateInv'
  <2>1. OrderInv' /\ ConnInv' /\ settled' \subseteq Conns
    BY <1>1 DEF DetectorInv, TypeOK, HistoryType
  <2> QED
    BY <1>4, <2>1, LateKept DEF ResidueInv
<1>7. EndingInv'
  BY <1>1, <1>4, EndingKept DEF ResidueInv
<1> QED
  BY <1>5, <1>6, <1>7 DEF ResidueInv

\* What is left in the maps of a connection or a session that is over, and whose events
\* have been handled, is left by a closing that was dropped or by a session that went on.
THEOREM ResidueIsExplained == Spec => []ResidueExplained
<1>1. DetectorInv /\ ResidueInv => ResidueExplained
  <2> SUFFICES ASSUME DetectorInv, ResidueInv
               PROVE  ResidueExplained
    OBVIOUS
  <2>1. Places = DOMAIN queue /\ \A i \in Places : queue[i] \in Events
    BY DEF DetectorInv, TypeOK, FeedType, Places
  <2>2. ASSUME NEW c \in Conns, phase[c] = "closed", ~QueuedAbout(c), conns[c].known
        PROVE  c \in strays \/ Event("connection.closed", c, Nobody) \in unseen
    <3>1. ~\E i \in Places : Closing(queue[i]) /\ queue[i].conn = c
      BY <2>1, <2>2, EventShape DEF QueuedAbout, Closing
    <3> QED
      BY <2>2, <3>1 DEF ResidueInv, ClosingInv, LateInv
  <2>3. ASSUME NEW s \in Sessions, session[s] = "closed", ~QueuedAbout(Owner[s]),
               sessConn[s] # Nobody
        PROVE  Event("session.closed", Owner[s], s) \in unseen
    <3>1. ~\E i \in Places : ClosesSession(queue[i], s)
      BY <2>1, <2>3 DEF QueuedAbout, ClosesSession, About
    <3> QED
      BY <2>3, <3>1 DEF ResidueInv, EndingInv
  <2> QED
    BY <2>2, <2>3 DEF ResidueExplained
<1>2. DetectorInv /\ ResidueInv /\ [Next]_vars => ResidueInv'
  BY ResidueStep
<1> QED
  BY <1>1, <1>2, ResidueInit, Invariance, PTL DEF Spec

------------------------------------------------------------------------------
(***************************************************************************)
(* The alerts are exact: in sum.                                           *)
(***************************************************************************)
\* LiveScore, for the alerts a of one connection.
SumOf(a) ==
  LET upTo[i \in 0..Len(Rules)] ==
        IF i = 0 THEN 0 ELSE upTo[i - 1] + Rules[i].points * a[Rules[i].name]["live"]
  IN upTo[Len(Rules)]

Counts == [RuleNames -> [{"live", "late"} -> Nat]]

\* The table has eight rules, so the sum has eight terms.
LEMMA EightTerms ==
  ASSUME NEW a \in Counts
  PROVE  /\ DOMAIN Rules = 1..8
         /\ \A i \in 1..8 : Rules[i].name \in RuleNames /\ a[Rules[i].name]["live"] \in Nat
         /\ SumOf(a) = 30 * a["brute_force_burst"]["live"] + 20 * a["weak_login_success"]["live"]
                       + 30 * a["post_login_recon"]["live"] + 35 * a["suspicious_download"]["live"]
                       + 50 * a["reverse_shell_attempt"]["live"] + 45 * a["persistence_attempt"]["live"]
                       + 10 * a["sensitive_file_read"]["live"] + 30 * a["lateral_movement"]["live"]
<1>1. DOMAIN Rules = 1..8 /\ Len(Rules) = 8
  BY DEF Rules
<1>2. \A i \in 1..8 : Rules[i].name \in RuleNames /\ a[Rules[i].name]["live"] \in Nat
  BY <1>1, RuleTable DEF Counts
<1>3. \A i \in 1..8 : Rules[i].points \in Nat
  BY <1>1, RuleTable
<1> DEFINE term(i) == Rules[i].points * a[Rules[i].name]["live"]
           F(f) == [i \in 0..8 |-> IF i = 0 THEN 0 ELSE f[i - 1] + term(i)]
           s2 == term(1) + term(2)
           s3 == s2 + term(3)
           s4 == s3 + term(4)
           s5 == s4 + term(5)
           s6 == s5 + term(6)
           s7 == s6 + term(7)
           s8 == s7 + term(8)
           h == [i \in 0..8 |-> IF i = 0 THEN 0 ELSE IF i = 1 THEN 0 + term(1)
                  ELSE IF i = 2 THEN s2 ELSE IF i = 3 THEN s3 ELSE IF i = 4 THEN s4
                  ELSE IF i = 5 THEN s5 ELSE IF i = 6 THEN s6 ELSE IF i = 7 THEN s7 ELSE s8]
<1>4. \A i \in 1..8 : term(i) \in Nat
  BY <1>2, <1>3
<1>5. h = F(h)
  <2>1. 0 + term(1) = term(1)
    BY <1>4
  <2> HIDE DEF term
  <2>2. ASSUME NEW i \in 0..8 PROVE h[i] = F(h)[i]
    <3>1. CASE i \in {0, 1, 2, 3}
      BY <2>1, <3>1
    <3>2. CASE i \in {4, 5, 6}
      BY <3>2
    <3>3. CASE i \in {7, 8}
      BY <3>3
    <3> QED BY <3>1, <3>2, <3>3
  <2>3. h = [i \in 0..8 |-> h[i]]
    OBVIOUS
  <2> DEFINE g == F(h)
  <2>4. g = [i \in 0..8 |-> g[i]]
    OBVIOUS
  <2>5. \A i \in 0..8 : h[i] = g[i]
    BY <2>2
  <2> HIDE DEF g, h
  <2>6. h = g
    BY <2>3, <2>4, <2>5
  <2> HIDE DEF F
  <2> QED BY <2>6 DEF g
<1> DEFINE u == CHOOSE f : f = F(f)
<1>6. u = F(u)
  <2> HIDE DEF F, h
  <2> QED BY <1>5
<1>7. SumOf(a) = u[8]
  BY <1>1 DEF SumOf
<1>8. u[8] = term(1) + term(2) + term(3) + term(4) + term(5) + term(6) + term(7) + term(8)
  <2>1. ASSUME NEW i \in 1..8 PROVE u[i] = u[i - 1] + term(i)
    <3> HIDE DEF u, term
    <3>1. u[i] = F(u)[i]
      BY <1>6
    <3> QED BY <3>1
  <2>2. u[0] = 0
    <3> HIDE DEF u, term
    <3>1. u[0] = F(u)[0]
      BY <1>6
    <3> QED BY <3>1
  <2> HIDE DEF u, term
  <2>3. /\ u[1] = u[0] + term(1) /\ u[2] = u[1] + term(2) /\ u[3] = u[2] + term(3)
        /\ u[4] = u[3] + term(4)
    <3>1. 1 - 1 = 0 /\ 2 - 1 = 1 /\ 3 - 1 = 2 /\ 4 - 1 = 3
      OBVIOUS
    <3> QED BY <2>1, <3>1
  <2>4. /\ u[5] = u[4] + term(5) /\ u[6] = u[5] + term(6) /\ u[7] = u[6] + term(7)
        /\ u[8] = u[7] + term(8)
    <3>1. 5 - 1 = 4 /\ 6 - 1 = 5 /\ 7 - 1 = 6 /\ 8 - 1 = 7
      OBVIOUS
    <3> QED BY <2>1, <3>1
  <2> QED BY <1>4, <2>2, <2>3, <2>4
<1>9. /\ term(1) = 30 * a["brute_force_burst"]["live"]
      /\ term(2) = 20 * a["weak_login_success"]["live"]
      /\ term(3) = 30 * a["post_login_recon"]["live"]
      /\ term(4) = 35 * a["suspicious_download"]["live"]
      /\ term(5) = 50 * a["reverse_shell_attempt"]["live"]
      /\ term(6) = 45 * a["persistence_attempt"]["live"]
      /\ term(7) = 10 * a["sensitive_file_read"]["live"]
      /\ term(8) = 30 * a["lateral_movement"]["live"]
  BY DEF Rules
<1> HIDE DEF term, u
<1> QED BY <1>1, <1>2, <1>7, <1>8, <1>9

LEMMA EightNames ==
  /\ \A i \in DOMAIN Rules : i \in 1..8
  /\ Rules[1].name = "brute_force_burst" /\ Rules[1].points = 30
  /\ Rules[2].name = "weak_login_success" /\ Rules[2].points = 20
  /\ Rules[3].name = "post_login_recon" /\ Rules[3].points = 30
  /\ Rules[4].name = "suspicious_download" /\ Rules[4].points = 35
  /\ Rules[5].name = "reverse_shell_attempt" /\ Rules[5].points = 50
  /\ Rules[6].name = "persistence_attempt" /\ Rules[6].points = 45
  /\ Rules[7].name = "sensitive_file_read" /\ Rules[7].points = 10
  /\ Rules[8].name = "lateral_movement" /\ Rules[8].points = 30
  /\ RuleNames = {"brute_force_burst", "weak_login_success", "post_login_recon",
                  "suspicious_download", "reverse_shell_attempt", "persistence_attempt",
                  "sensitive_file_read", "lateral_movement"}
<1>1. DOMAIN Rules = 1..8
  BY DEF Rules
<1>2. /\ Rules[1].name = "brute_force_burst" /\ Rules[1].points = 30
      /\ Rules[2].name = "weak_login_success" /\ Rules[2].points = 20
      /\ Rules[3].name = "post_login_recon" /\ Rules[3].points = 30
      /\ Rules[4].name = "suspicious_download" /\ Rules[4].points = 35
      /\ Rules[5].name = "reverse_shell_attempt" /\ Rules[5].points = 50
      /\ Rules[6].name = "persistence_attempt" /\ Rules[6].points = 45
      /\ Rules[7].name = "sensitive_file_read" /\ Rules[7].points = 10
      /\ Rules[8].name = "lateral_movement" /\ Rules[8].points = 30
  BY DEF Rules
<1>3. \A i \in 1..8 : i \in {1, 2, 3, 4, 5, 6, 7, 8}
  OBVIOUS
<1> QED BY <1>1, <1>2, <1>3 DEF RuleNames

\* The sum of the alerts of each rule, by its name.
Weighted(f) ==
  30 * f["brute_force_burst"] + 20 * f["weak_login_success"] + 30 * f["post_login_recon"]
  + 35 * f["suspicious_download"] + 50 * f["reverse_shell_attempt"]
  + 45 * f["persistence_attempt"] + 10 * f["sensitive_file_read"] + 30 * f["lateral_movement"]

LEMMA SumIsWeighted ==
  ASSUME NEW a \in Counts
  PROVE  /\ [r \in RuleNames |-> a[r]["live"]] \in [RuleNames -> Nat]
         /\ SumOf(a) = Weighted([r \in RuleNames |-> a[r]["live"]])
<1>1. [r \in RuleNames |-> a[r]["live"]] \in [RuleNames -> Nat]
  BY DEF Counts
<1>2. \A r \in RuleNames : [q \in RuleNames |-> a[q]["live"]][r] = a[r]["live"]
  OBVIOUS
<1> QED BY <1>1, <1>2, EightNames, EightTerms DEF Weighted

LEMMA WeightedRaised ==
  ASSUME NEW f \in [RuleNames -> Nat], NEW k \in DOMAIN Rules
  PROVE  Weighted([f EXCEPT ![Rules[k].name] = @ + 1]) = Weighted(f) + Rules[k].points
<1> DEFINE g == [f EXCEPT ![Rules[k].name] = @ + 1]
<1>1. \A r \in RuleNames : f[r] \in Nat /\ g[r] = IF r = Rules[k].name THEN f[r] + 1 ELSE f[r]
  OBVIOUS
<1> HIDE DEF g
<1>2. CASE k = 1
  <2>1. Rules[k].name = "brute_force_burst" /\ Rules[k].points = 30
    BY <1>2, EightNames
  <2>2. g["brute_force_burst"] = f["brute_force_burst"] + 1
    BY <1>1, <2>1, EightNames
  <2>3. /\ g["weak_login_success"] = f["weak_login_success"]
        /\ g["post_login_recon"] = f["post_login_recon"]
        /\ g["suspicious_download"] = f["suspicious_download"]
        /\ g["reverse_shell_attempt"] = f["reverse_shell_attempt"]
        /\ g["persistence_attempt"] = f["persistence_attempt"]
        /\ g["sensitive_file_read"] = f["sensitive_file_read"]
        /\ g["lateral_movement"] = f["lateral_movement"]
    BY <1>1, <2>1, EightNames
  <2>4. \A r \in RuleNames : f[r] \in Nat
    BY <1>1
  <2> QED BY <2>1, <2>2, <2>3, <2>4, EightNames DEF Weighted
<1>3. CASE k = 2
  <2>1. Rules[k].name = "weak_login_success" /\ Rules[k].points = 20
    BY <1>3, EightNames
  <2>2. g["weak_login_success"] = f["weak_login_success"] + 1
    BY <1>1, <2>1, EightNames
  <2>3. /\ g["brute_force_burst"] = f["brute_force_burst"]
        /\ g["post_login_recon"] = f["post_login_recon"]
        /\ g["suspicious_download"] = f["suspicious_download"]
        /\ g["reverse_shell_attempt"] = f["reverse_shell_attempt"]
        /\ g["persistence_attempt"] = f["persistence_attempt"]
        /\ g["sensitive_file_read"] = f["sensitive_file_read"]
        /\ g["lateral_movement"] = f["lateral_movement"]
    BY <1>1, <2>1, EightNames
  <2>4. \A r \in RuleNames : f[r] \in Nat
    BY <1>1
  <2> QED BY <2>1, <2>2, <2>3, <2>4, EightNames DEF Weighted
<1>4. CASE k = 3
  <2>1. Rules[k].name = "post_login_recon" /\ Rules[k].points = 30
    BY <1>4, EightNames
  <2>2. g["post_login_recon"] = f["post_login_recon"] + 1
    BY <1>1, <2>1, EightNames
  <2>3. /\ g["brute_force_burst"] = f["brute_force_burst"]
        /\ g["weak_login_success"] = f["weak_login_success"]
        /\ g["suspicious_download"] = f["suspicious_download"]
        /\ g["reverse_shell_attempt"] = f["reverse_shell_attempt"]
        /\ g["persistence_attempt"] = f["persistence_attempt"]
        /\ g["sensitive_file_read"] = f["sensitive_file_read"]
        /\ g["lateral_movement"] = f["lateral_movement"]
    BY <1>1, <2>1, EightNames
  <2>4. \A r \in RuleNames : f[r] \in Nat
    BY <1>1
  <2> QED BY <2>1, <2>2, <2>3, <2>4, EightNames DEF Weighted
<1>5. CASE k = 4
  <2>1. Rules[k].name = "suspicious_download" /\ Rules[k].points = 35
    BY <1>5, EightNames
  <2>2. g["suspicious_download"] = f["suspicious_download"] + 1
    BY <1>1, <2>1, EightNames
  <2>3. /\ g["brute_force_burst"] = f["brute_force_burst"]
        /\ g["weak_login_success"] = f["weak_login_success"]
        /\ g["post_login_recon"] = f["post_login_recon"]
        /\ g["reverse_shell_attempt"] = f["reverse_shell_attempt"]
        /\ g["persistence_attempt"] = f["persistence_attempt"]
        /\ g["sensitive_file_read"] = f["sensitive_file_read"]
        /\ g["lateral_movement"] = f["lateral_movement"]
    BY <1>1, <2>1, EightNames
  <2>4. \A r \in RuleNames : f[r] \in Nat
    BY <1>1
  <2> QED BY <2>1, <2>2, <2>3, <2>4, EightNames DEF Weighted
<1>6. CASE k = 5
  <2>1. Rules[k].name = "reverse_shell_attempt" /\ Rules[k].points = 50
    BY <1>6, EightNames
  <2>2. g["reverse_shell_attempt"] = f["reverse_shell_attempt"] + 1
    BY <1>1, <2>1, EightNames
  <2>3. /\ g["brute_force_burst"] = f["brute_force_burst"]
        /\ g["weak_login_success"] = f["weak_login_success"]
        /\ g["post_login_recon"] = f["post_login_recon"]
        /\ g["suspicious_download"] = f["suspicious_download"]
        /\ g["persistence_attempt"] = f["persistence_attempt"]
        /\ g["sensitive_file_read"] = f["sensitive_file_read"]
        /\ g["lateral_movement"] = f["lateral_movement"]
    BY <1>1, <2>1, EightNames
  <2>4. \A r \in RuleNames : f[r] \in Nat
    BY <1>1
  <2> QED BY <2>1, <2>2, <2>3, <2>4, EightNames DEF Weighted
<1>7. CASE k = 6
  <2>1. Rules[k].name = "persistence_attempt" /\ Rules[k].points = 45
    BY <1>7, EightNames
  <2>2. g["persistence_attempt"] = f["persistence_attempt"] + 1
    BY <1>1, <2>1, EightNames
  <2>3. /\ g["brute_force_burst"] = f["brute_force_burst"]
        /\ g["weak_login_success"] = f["weak_login_success"]
        /\ g["post_login_recon"] = f["post_login_recon"]
        /\ g["suspicious_download"] = f["suspicious_download"]
        /\ g["reverse_shell_attempt"] = f["reverse_shell_attempt"]
        /\ g["sensitive_file_read"] = f["sensitive_file_read"]
        /\ g["lateral_movement"] = f["lateral_movement"]
    BY <1>1, <2>1, EightNames
  <2>4. \A r \in RuleNames : f[r] \in Nat
    BY <1>1
  <2> QED BY <2>1, <2>2, <2>3, <2>4, EightNames DEF Weighted
<1>8. CASE k = 7
  <2>1. Rules[k].name = "sensitive_file_read" /\ Rules[k].points = 10
    BY <1>8, EightNames
  <2>2. g["sensitive_file_read"] = f["sensitive_file_read"] + 1
    BY <1>1, <2>1, EightNames
  <2>3. /\ g["brute_force_burst"] = f["brute_force_burst"]
        /\ g["weak_login_success"] = f["weak_login_success"]
        /\ g["post_login_recon"] = f["post_login_recon"]
        /\ g["suspicious_download"] = f["suspicious_download"]
        /\ g["reverse_shell_attempt"] = f["reverse_shell_attempt"]
        /\ g["persistence_attempt"] = f["persistence_attempt"]
        /\ g["lateral_movement"] = f["lateral_movement"]
    BY <1>1, <2>1, EightNames
  <2>4. \A r \in RuleNames : f[r] \in Nat
    BY <1>1
  <2> QED BY <2>1, <2>2, <2>3, <2>4, EightNames DEF Weighted
<1>9. CASE k = 8
  <2>1. Rules[k].name = "lateral_movement" /\ Rules[k].points = 30
    BY <1>9, EightNames
  <2>2. g["lateral_movement"] = f["lateral_movement"] + 1
    BY <1>1, <2>1, EightNames
  <2>3. /\ g["brute_force_burst"] = f["brute_force_burst"]
        /\ g["weak_login_success"] = f["weak_login_success"]
        /\ g["post_login_recon"] = f["post_login_recon"]
        /\ g["suspicious_download"] = f["suspicious_download"]
        /\ g["reverse_shell_attempt"] = f["reverse_shell_attempt"]
        /\ g["persistence_attempt"] = f["persistence_attempt"]
        /\ g["sensitive_file_read"] = f["sensitive_file_read"]
    BY <1>1, <2>1, EightNames
  <2>4. \A r \in RuleNames : f[r] \in Nat
    BY <1>1
  <2> QED BY <2>1, <2>2, <2>3, <2>4, EightNames DEF Weighted
<1>10. k \in 1..8
  BY EightNames
<1> QED BY <1>2, <1>3, <1>4, <1>5, <1>6, <1>7, <1>8, <1>9, <1>10 DEF g

\* One more alert raises the sum by the points of its rule.
LEMMA SumRaised ==
  ASSUME NEW a \in Counts, NEW b \in Counts, NEW k \in DOMAIN Rules,
         b[Rules[k].name]["live"] = a[Rules[k].name]["live"] + 1,
         \A q \in RuleNames : q # Rules[k].name => b[q]["live"] = a[q]["live"]
  PROVE  SumOf(b) = SumOf(a) + Rules[k].points
<1> DEFINE f == [r \in RuleNames |-> a[r]["live"]]
           g == [r \in RuleNames |-> b[r]["live"]]
<1>1. g = [f EXCEPT ![Rules[k].name] = @ + 1]
  <2>1. Rules[k].name \in RuleNames
    BY RuleTable
  <2> QED BY <2>1
<1>2. /\ f \in [RuleNames -> Nat]
      /\ SumOf(a) = Weighted(f) /\ SumOf(b) = Weighted(g)
  BY SumIsWeighted
<1> HIDE DEF f, g
<1> QED BY <1>1, <1>2, WeightedRaised

LEMMA SumSame ==
  ASSUME NEW a \in Counts
  PROVE  /\ \A b \in Counts : (\A q \in RuleNames : b[q]["live"] = a[q]["live"]) => SumOf(b) = SumOf(a)
         /\ (\A q \in RuleNames : a[q]["live"] = 0) => SumOf(a) = 0
         /\ SumOf(a) \in Nat
<1> DEFINE f == [r \in RuleNames |-> a[r]["live"]]
<1>1. f \in [RuleNames -> Nat] /\ SumOf(a) = Weighted(f)
  BY SumIsWeighted
<1>2. ASSUME NEW b \in Counts, \A q \in RuleNames : b[q]["live"] = a[q]["live"]
      PROVE  SumOf(b) = SumOf(a)
  <2> DEFINE g == [r \in RuleNames |-> b[r]["live"]]
  <2>1. SumOf(b) = Weighted(g)
    BY SumIsWeighted
  <2>2. g = f
    BY <1>2
  <2> HIDE DEF f, g
  <2> QED BY <1>1, <2>1, <2>2
<1>3. ASSUME \A q \in RuleNames : a[q]["live"] = 0 PROVE SumOf(a) = 0
  <2>1. \A q \in RuleNames : f[q] = 0
    BY <1>3
  <2> HIDE DEF f
  <2> QED BY <1>1, <2>1, EightNames DEF Weighted
<1>4. SumOf(a) \in Nat
  <2> HIDE DEF f
  <2>1. \A q \in RuleNames : f[q] \in Nat
    BY <1>1
  <2> QED BY <1>1, <2>1, EightNames DEF Weighted
<1> QED BY <1>2, <1>3, <1>4

\* Until the closing of a connection is handled its entry has the sum of its alerts as its
\* score; then there is one report of that sum, or none of nothing.
SumInv ==
  \A c \in Conns :
    /\ ~conns[c].known => conns[c] = Absent
    /\ c \notin settled => summary[c] = <<>> /\ conns[c].score = SumOf(alerted[c])
    /\ c \in settled =>
         summary[c] = IF SumOf(alerted[c]) > 0 THEN <<SumOf(alerted[c])>> ELSE <<>>

\* A failed attempt on c.
Failing(e, c) == e.type = "auth.attempt" /\ e.conn = c /\ ~e.success

LEMMA RaisedRest ==
  ASSUME NEW STATE st, st \in Entries, NEW CONSTANT i \in DOMAIN Rules
  PROVE  Raise(st, i).score = st.score + Rules[i].points /\ Raise(st, i).fails = st.fails
BY DEF Raise, Entries

LEMMA AttemptRest ==
  ASSUME NEW STATE st, st \in Entries
  PROVE  /\ LoggedIn(st).score = st.score /\ LoggedIn(st).fails = st.fails
         /\ Failed(st).score = st.score /\ Failed(st).fails = st.fails + 1
BY DEF LoggedIn, Failed, Entries

\* What taking an event leaves of the entries.
LEMMA TakeEntry ==
  ASSUME DetectorInv, SumInv, Take
  PROVE  \A c \in Conns :
           /\ ~conns'[c].known => conns'[c] = Absent
           /\ conns'[c].score = conns[c].score
           /\ conns'[c].fails <= conns[c].fails + (IF Failing(Head(queue), c) THEN 1 ELSE 0)
<1> DEFINE e == Head(queue)
<1>1. /\ queue # <<>> /\ e \in Events /\ e = queue[1] /\ 1 \in Places
  BY TakeFeed, Rest DEF DetectorInv, TypeOK, FeedType, Places
<1>2. /\ conns \in [Conns -> Entries]
      /\ \A c \in Conns : ~conns[c].known => conns[c] = Absent
      /\ \A c \in Conns : conns[c].fails \in Nat /\ conns[c].score \in Nat
  BY DEF DetectorInv, TypeOK, MapsType, SumInv, Entries
<1>3. /\ NewEntry.known /\ NewEntry.score = 0 /\ NewEntry.fails = 0
      /\ Absent.score = 0 /\ Absent.fails = 0
  BY DEF NewEntry, Absent
<1>4. \A c \in Conns : /\ Entry(c) \in Entries /\ Entry(c).known
                       /\ Entry(c).score = conns[c].score /\ Entry(c).fails = conns[c].fails
  <2> TAKE c \in Conns
  <2>1. Entry(c) \in Entries /\ Entry(c).known
    BY EntryType DEF DetectorInv
  <2>2. CASE conns[c].known
    BY <2>1, <2>2 DEF Entry
  <2>3. CASE ~conns[c].known
    BY <1>2, <1>3, <2>1, <2>3 DEF Entry
  <2> QED BY <2>2, <2>3
<1>5. CASE TakeOpened
  <2>1. e.type = "connection.opened" /\ e.conn \in Conns
    BY <1>1, <1>5, EventShape DEF TakeOpened, Receiving
  <2>2. Fresh(e.conn)
    BY <1>1, <2>1 DEF DetectorInv, OrderInv, Opening
  <2>3. conns[e.conn].score = 0
    <3>1. alerted[e.conn] \in Counts
      BY <2>1 DEF DetectorInv, TypeOK, HistoryType, Counts
    <3>2. \A q \in RuleNames : alerted[e.conn][q]["live"] = 0
      BY <2>1, <2>2 DEF DetectorInv, FiredInv, Fresh
    <3> QED BY <2>1, <2>2, <3>1, <3>2, SumSame DEF SumInv, Fresh
  <2>4. conns' = [conns EXCEPT ![e.conn] = NewEntry]
    BY <1>5 DEF TakeOpened
  <2> HIDE DEF e
  <2> QED BY <1>2, <1>3, <2>1, <2>3, <2>4 DEF e
<1>6. CASE TakeAttempt
  <2>1. e.type = "auth.attempt" /\ e.conn \in Conns
    BY <1>1, <1>6, EventShape DEF TakeAttempt, Receiving
  <2> DEFINE st == Entry(e.conn)
             next == IF e.success THEN LoggedIn(st) ELSE Failed(st)
  <2>2. conns' = [conns EXCEPT ![e.conn] = next]
    BY <1>6 DEF TakeAttempt
  <2>3. st \in Entries /\ st.known /\ st.score = conns[e.conn].score /\ st.fails = conns[e.conn].fails
    BY <1>4, <2>1
  <2> HIDE DEF st
  <2>4. /\ next.known /\ next.score = st.score
        /\ next.fails = IF e.success THEN st.fails ELSE st.fails + 1
    BY <2>3, AttemptEntry, AttemptRest
  <2> HIDE DEF next, e
  <2>5. ASSUME NEW c \in Conns, c # e.conn PROVE conns'[c] = conns[c]
    BY <1>2, <2>2, <2>5
  <2>6. conns'[e.conn] = next
    BY <1>2, <2>1, <2>2
  <2>7. Failing(e, e.conn) <=> ~e.success
    BY <2>1 DEF Failing
  <2> QED BY <1>2, <2>1, <2>3, <2>4, <2>5, <2>6, <2>7 DEF e
<1>7. CASE TakeActivity
  <2>1. e.type \in ActivityTypes /\ e.sess \in Sessions
    BY <1>1, <1>7, EventShape DEF TakeActivity, Receiving
  <2> DEFINE d == sessConn[e.sess]
  <2>2. d \in Conns \union {Nobody}
    BY <2>1 DEF DetectorInv, TypeOK, MapsType
  <2>3. CASE d = Nobody
    BY <1>2, <1>7, <2>3 DEF TakeActivity
  <2>4. CASE d # Nobody
    <3>1. conns' = [conns EXCEPT ![d] = Entry(d)]
      BY <1>7, <2>4 DEF TakeActivity
    <3> HIDE DEF d, e
    <3> QED BY <1>2, <1>4, <2>2, <2>4, <3>1 DEF e
  <2> QED BY <2>3, <2>4
<1>8. CASE TakeAlert \/ TakeSessionOpened \/ TakeSessionClosed
  <2>1. UNCHANGED conns
    BY <1>8 DEF TakeAlert, TakeSessionOpened, TakeSessionClosed, maps
  <2> QED BY <1>2, <2>1
<1> QED BY <1>5, <1>6, <1>7, <1>8 DEF Take

\* What the steps between two events leave of them.
LEMMA OtherEntry ==
  ASSUME TypeOK, SumInv, \/ EndCheck \/ MonitorDropped \/ Push
                         \/ \E c \in Conns : LoginAges(c)
  PROVE  \A c \in Conns : /\ ~conns'[c].known => conns'[c] = Absent
                          /\ conns'[c].score = conns[c].score /\ conns'[c].fails = conns[c].fails
<1>1. CASE UNCHANGED conns
  BY <1>1 DEF SumInv
<1>2. ASSUME NEW d \in Conns, LoginAges(d)
      PROVE  \A c \in Conns : /\ ~conns'[c].known => conns'[c] = Absent
                              /\ conns'[c].score = conns[c].score /\ conns'[c].fails = conns[c].fails
  <2>1. conns \in [Conns -> Entries] /\ conns' = [conns EXCEPT ![d].recent = FALSE]
    BY <1>2 DEF TypeOK, MapsType, LoginAges
  <2>2. conns[d].known
    <3>1. conns[d].recent
      BY <1>2 DEF LoginAges
    <3>2. ~Absent.recent
      BY DEF Absent
    <3> QED BY <3>1, <3>2 DEF SumInv
  <2>3. \A c \in Conns : c # d => conns'[c] = conns[c]
    BY <2>1
  <2>4. conns'[d].known = conns[d].known /\ conns'[d].score = conns[d].score
        /\ conns'[d].fails = conns[d].fails
    BY <2>1 DEF Entries
  <2> QED BY <2>2, <2>3, <2>4 DEF SumInv
<1> QED BY <1>1, <1>2 DEF EndCheck, MonitorDropped, Push, maps

LEMMA SumInit == Init => SumInv
<1> SUFFICES ASSUME Init, NEW c \in Conns
             PROVE  conns[c] = Absent /\ c \notin settled /\ summary[c] = <<>>
                    /\ SumOf(alerted[c]) = 0
  <2>1. Absent.score = 0
    BY DEF Absent
  <2> QED BY <2>1 DEF SumInv
<1>1. alerted[c] = [r \in RuleNames |-> [t \in {"live", "late"} |-> 0]]
  BY DEF Init
<1>2. alerted[c] \in Counts /\ \A r \in RuleNames : alerted[c][r]["live"] = 0
  BY <1>1 DEF Counts
<1> QED BY <1>2, SumSame DEF Init

LEMMA SumStep ==
  ASSUME DetectorInv, SumInv, [Next]_vars
  PROVE  SumInv'
<1>1. CASE UNCHANGED <<conns, settled, summary, alerted>>
  BY <1>1 DEF SumInv
<1>2. ASSUME UNCHANGED <<settled, summary, alerted>>,
             \A c \in Conns : /\ ~conns'[c].known => conns'[c] = Absent
                             /\ conns'[c].score = conns[c].score
      PROVE  SumInv'
  BY <1>2 DEF SumInv
<1>3. CASE ClientStep
  BY <1>1, <1>3, ClientFacts DEF detectorVars, maps, history
<1>4. CASE Take
  BY <1>2, <1>4, TakeEntry, TakeFeed DEF history
<1>5. CASE EndCheck \/ MonitorDropped \/ Push \/ \E c \in Conns : LoginAges(c)
  BY <1>2, <1>5, OtherEntry, OtherFacts DEF history, DetectorInv
<1>6. CASE UNCHANGED vars
  BY <1>1, <1>6 DEF vars, maps, history
<1>7. CASE TakeClosed
  <2> DEFINE c == Head(queue).conn
  <2>1. /\ queue # <<>> /\ Head(queue) = queue[1] /\ queue[1] \in Events /\ 1 \in Places
        /\ Closing(queue[1])
    BY <1>7, ClosedFeed, Rest DEF DetectorInv, TypeOK, FeedType, Places, Closing
  <2>2. c \in Conns /\ c \notin settled
    BY <2>1, EventShape DEF DetectorInv, OrderInv, Closing
  <2>3. /\ conns' = [conns EXCEPT ![c] = Absent] /\ settled' = settled \union {c}
        /\ UNCHANGED alerted
        /\ IF conns[c].known /\ conns[c].score > 0
           THEN summary' = [summary EXCEPT ![c] = Append(@, conns[c].score)]
           ELSE UNCHANGED summary
    BY <1>7 DEF TakeClosed
  <2> HIDE DEF c
  <2>4. conns \in [Conns -> Entries] /\ summary \in [Conns -> Seq(Nat)]
    BY DEF DetectorInv, TypeOK, MapsType, HistoryType
  <2>5. \A d \in Conns : d # c => conns'[d] = conns[d] /\ summary'[d] = summary[d]
    BY <2>2, <2>3, <2>4
  <2>6. conns'[c] = Absent /\ summary[c] = <<>> /\ conns[c].score = SumOf(alerted[c])
    BY <2>2, <2>3, <2>4 DEF SumInv
  <2>7. summary'[c] = IF SumOf(alerted[c]) > 0 THEN <<SumOf(alerted[c])>> ELSE <<>>
    <3>1. CASE conns[c].known /\ conns[c].score > 0
      <4>1. summary'[c] = Append(<<>>, conns[c].score)
        BY <2>2, <2>3, <2>4, <2>6, <3>1
      <4> QED BY <2>6, <3>1, <4>1
    <3>2. CASE ~conns[c].known
      <4>1. conns[c] = Absent
        BY <2>2, <3>2 DEF SumInv
      <4>2. Absent.score = 0
        BY DEF Absent
      <4> QED BY <2>3, <2>6, <3>2, <4>1, <4>2
    <3>3. CASE ~(conns[c].score > 0)
      BY <2>3, <2>6, <3>3
    <3> QED BY <3>1, <3>2, <3>3
  <2>8. ASSUME NEW d \in Conns, d # c
        PROVE  /\ ~conns'[d].known => conns'[d] = Absent
               /\ d \notin settled' => summary'[d] = <<>> /\ conns'[d].score = SumOf(alerted'[d])
               /\ d \in settled' =>
                    summary'[d] = IF SumOf(alerted'[d]) > 0 THEN <<SumOf(alerted'[d])>> ELSE <<>>
    BY <2>3, <2>5, <2>8 DEF SumInv
  <2> QED BY <2>3, <2>6, <2>7, <2>8 DEF SumInv
<1>8. CASE Fire
  <2> DEFINE c == work.conn
  <2>1. PICK i \in DOMAIN Rules :
          LET r == Rules[i].name
          IN /\ c \in Conns /\ conns[c].known /\ Checking
             /\ r \in RuleNames /\ r \notin conns[c].fired
             /\ i + 1 \in Nat /\ i >= work.next /\ Matches(i, work.event, conns[c])
             /\ conns' = [conns EXCEPT ![c] = Raise(conns[c], i)]
             /\ alerted' = [alerted EXCEPT ![c][r][Time(c)] = @ + 1]
             /\ work' = [work EXCEPT !.next = i + 1]
             /\ Publish(Alert) /\ Notify
             /\ UNCHANGED <<sessConn, monitor, summary, settled>>
    BY <1>8, FireFacts DEF DetectorInv
  <2> DEFINE r == Rules[i].name
  <2>2. conns \in [Conns -> Entries] /\ c \in Conns /\ conns[c] \in Entries /\ r \in RuleNames
    BY <2>1 DEF DetectorInv, TypeOK, MapsType
  <2>3. /\ Raise(conns[c], i).known = conns[c].known
        /\ Raise(conns[c], i).score = conns[c].score + Rules[i].points
    BY <2>2, RaisedEntry, RaisedRest
  <2>4. alerted \in [Conns -> Counts] /\ \A d \in Conns : alerted[d] \in Counts
    BY DEF DetectorInv, TypeOK, HistoryType, Counts
  <2>5. alerted' \in [Conns -> Counts] /\ \A d \in Conns : alerted'[d] \in Counts
    BY <1>8, FireType DEF DetectorInv, TypeOK, HistoryType, Counts
  <2>6. /\ conns' = [conns EXCEPT ![c] = Raise(conns[c], i)] /\ conns[c].known
        /\ alerted' = [alerted EXCEPT ![c][r][Time(c)] = @ + 1]
        /\ UNCHANGED <<summary, settled>>
    BY <2>1
  <2>7. Time(c) = IF c \in settled THEN "late" ELSE "live"
    BY DEF Time
  <2>r. r = Rules[i].name
    OBVIOUS
  <2> HIDE DEF c, r
  <2>8. \A d \in Conns : d # c => conns'[d] = conns[d] /\ alerted'[d] = alerted[d]
    BY <2>2, <2>4, <2>6
  <2>9. conns'[c].known /\ conns'[c].score = conns[c].score + Rules[i].points
    BY <2>2, <2>3, <2>6
  <2>10. /\ \A q \in RuleNames : q # r => alerted'[c][q] = alerted[c][q]
         /\ \A t \in {"live", "late"} :
              alerted'[c][r][t] = IF t = Time(c) THEN alerted[c][r][t] + 1 ELSE alerted[c][r][t]
    BY <2>2, <2>4, <2>6 DEF Counts
  <2>11. CASE c \in settled
    <3>1. \A q \in RuleNames : alerted'[c][q]["live"] = alerted[c][q]["live"]
      BY <2>7, <2>10, <2>11
    <3>2. SumOf(alerted'[c]) = SumOf(alerted[c])
      BY <2>2, <2>4, <2>5, <3>1, SumSame
    <3> QED BY <2>6, <2>8, <2>9, <2>11, <3>2 DEF SumInv
  <2>12. CASE c \notin settled
    <3>1. /\ alerted'[c][r]["live"] = alerted[c][r]["live"] + 1
          /\ \A q \in RuleNames : q # r => alerted'[c][q]["live"] = alerted[c][q]["live"]
      BY <2>7, <2>10, <2>12
    <3>2. SumOf(alerted'[c]) = SumOf(alerted[c]) + Rules[i].points
      BY <2>2, <2>4, <2>5, <2>r, <3>1, SumRaised
    <3>3. conns[c].score = SumOf(alerted[c])
      BY <2>2, <2>12 DEF SumInv
    <3> QED BY <2>6, <2>8, <2>9, <2>12, <3>2, <3>3 DEF SumInv
  <2> QED BY <2>11, <2>12
<1> QED
  BY <1>3, <1>4, <1>5, <1>6, <1>7, <1>8, NextCases DEF DetectorStep, Handle, Take

LEMMA SumIsLiveScore ==
  ASSUME NEW c
  PROVE  LiveScore(c) = SumOf(alerted[c])
BY DEF LiveScore, SumOf

------------------------------------------------------------------------------
(***************************************************************************)
(* The alerts are exact: one by one.                                       *)
(***************************************************************************)
RaisedFor(c) == {r \in RuleNames : \E t \in {"live", "late"} : alerted[c][r][t] > 0}

BurstOf(n) == IF n >= BurstFails THEN {"brute_force_burst"} ELSE {}

\* The failed attempts on c in the channel.
Failures(c) == {i \in Places : Failing(queue[i], c)}

\* What the channel and check hold was published, no attempt is counted twice, and an alert
\* has an event behind it.
SoundInv ==
  \A c \in Conns :
    /\ \A i \in Places : About(queue[i]) = c => TextMatches(queue[i]) \subseteq due[c]
    /\ work.conn = c => TextMatches(work.event) \subseteq due[c]
    /\ conns[c].fails + Cardinality(Failures(c)) <= attempts[c]
    /\ RaisedFor(c) \subseteq due[c] \union BurstOf(attempts[c])

\* Unless an event of its connection was dropped, an activity finds its session in the map:
\* the opening comes before it and the closing does not.
RouteInv ==
  \A s \in Sessions : ~UnseenAbout(Owner[s]) =>
    /\ session[s] \in {"none", "accepted", "open"} =>
         \A j \in Places : ~ClosesSession(queue[j], s)
    /\ session[s] = "open" =>
         sessConn[s] = Owner[s] \/ \E j \in Places : OpensSession(queue[j], s)
    /\ \A i \in Places : queue[i].type \in ActivityTypes /\ queue[i].sess = s =>
         /\ sessConn[s] = Owner[s] \/ \E j \in Places : j < i /\ OpensSession(queue[j], s)
         /\ \A j \in Places : j < i => ~ClosesSession(queue[j], s)

\* A rule that must alert for c will come to it: its event is in the channel, or in check
\* and the loop has not passed the rule.
Pending(c, r) ==
  \/ \E i \in Places : About(queue[i]) = c /\ r \in TextMatches(queue[i])
  \/ \E i \in DOMAIN Rules :
       work.conn = c /\ i >= work.next /\ Rules[i].name = r /\ Textual(i, work.event)

DueInv ==
  \A c \in Conns : ~UnseenAbout(c) =>
    \A r \in due[c] : r = "post_login_recon" \/ r \in RaisedFor(c) \/ Pending(c, r)

ExactInv == SoundInv /\ RouteInv /\ DueInv

\* What the text of an event says of its rules.
LEMMA TextRules ==
  \A e \in Events, i \in DOMAIN Rules, st \in Entries :
    /\ Textual(i, e) /\ Rules[i].name # "post_login_recon" => Matches(i, e, st)
    /\ Matches(i, e, st) =>
         \/ Textual(i, e)
         \/ Rules[i].name = "brute_force_burst" /\ st.fails >= BurstFails
<1> SUFFICES ASSUME NEW e \in Events, NEW i \in DOMAIN Rules, NEW st \in Entries
             PROVE  /\ Textual(i, e) /\ Rules[i].name # "post_login_recon" => Matches(i, e, st)
                    /\ Matches(i, e, st) =>
                         \/ Textual(i, e)
                         \/ Rules[i].name = "brute_force_burst" /\ st.fails >= BurstFails
  OBVIOUS
<1>1. CASE Rules[i].name = "brute_force_burst"
  <2>1. i = 1
    BY <1>1, EightNames
  <2>2. Rules[1].on = "auth.attempt"
    BY DEF Rules
  <2>3. e.type = "auth.attempt" => e.marks = {}
    <3>1. e.type = "auth.attempt" => e \in HandlerEvents
      BY EventShape
    <3> QED BY <3>1 DEF HandlerEvents
  <2> QED BY <1>1, <2>1, <2>2, <2>3 DEF Textual, Matches
<1>2. CASE Rules[i].name # "brute_force_burst"
  BY <1>2 DEF Textual, Matches
<1> QED BY <1>1, <1>2

\* Only an attempt or an activity says anything to a rule.
LEMMA TextNone ==
  ASSUME NEW e, e.type \notin {"auth.attempt"} \union ActivityTypes
  PROVE  TextMatches(e) = {}
<1>1. \A i \in DOMAIN Rules : Rules[i].on \in {"auth.attempt"} \union ActivityTypes
  BY DEF ActivityTypes
<1> QED BY <1>1 DEF TextMatches, Textual

LEMMA TextSays ==
  ASSUME NEW e, NEW r
  PROVE  r \in TextMatches(e) <=> \E i \in DOMAIN Rules : Rules[i].name = r /\ Textual(i, e)
BY DEF TextMatches

LEMMA FiredIsRaised ==
  ASSUME DetectorInv, NEW STATE c, c \in Conns
  PROVE  conns[c].fired \subseteq RaisedFor(c)
<1> SUFFICES ASSUME NEW r \in conns[c].fired
             PROVE  r \in RaisedFor(c)
  OBVIOUS
<1>1. r \in RuleNames
  BY DEF DetectorInv, TypeOK, MapsType, Entries
<1>2. alerted[c][r]["live"] = 1 \/ alerted[c][r]["late"] = 1
  BY <1>1 DEF DetectorInv, FiredInv
<1> QED BY <1>1, <1>2 DEF RaisedFor

------------------------------------------------------------------------------
\* What a step may do for this to be kept.
SoundMove(k, e) ==
  \A c \in Conns :
    /\ due[c] \subseteq due'[c]
    /\ About(e) = c => TextMatches(e) \subseteq due'[c]
    /\ work'.conn = c =>
         \/ work.conn = c /\ work'.event = work.event
         \/ k = 1 /\ About(queue[1]) = c /\ work'.event = queue[1]
    /\ conns'[c].fails <= conns[c].fails + (IF k = 1 /\ Failing(queue[1], c) THEN 1 ELSE 0)
    /\ attempts[c] + (IF Failing(e, c) THEN 1 ELSE 0) <= attempts'[c]
    /\ RaisedFor(c)' \subseteq RaisedFor(c) \union due[c] \union BurstOf(attempts[c])

Running(s) == session[s] \in {"none", "accepted", "open"}

RouteMove(k, e) ==
  \A s \in Sessions :
    /\ Running(s)' => Running(s) /\ ~ClosesSession(e, s)
    /\ session'[s] = "open" =>
         session[s] = "open" \/ (OpensSession(e, s) /\ About(e) = Owner[s] /\ Arrives(e))
    /\ e.type \in ActivityTypes /\ e.sess = s => session[s] = "open" /\ k = 0
    /\ sessConn[s] = Owner[s] =>
         sessConn'[s] = Owner[s] \/ (k = 1 /\ ClosesSession(queue[1], s))
    /\ k = 1 /\ OpensSession(queue[1], s) => sessConn'[s] = Owner[s]

DueMove(k, e) ==
  \A c \in Conns :
    /\ due'[c] \subseteq due[c] \union (IF About(e) = c /\ Arrives(e) THEN TextMatches(e) ELSE {})
    /\ RaisedFor(c) \subseteq RaisedFor(c)'
    /\ k = 1 /\ About(queue[1]) = c /\ ~UnseenAbout(c) =>
         \/ TextMatches(queue[1]) = {}
         \/ work'.conn = c /\ work'.event = queue[1] /\ work'.next = 1
    /\ \A i \in DOMAIN Rules :
         /\ work.conn = c /\ i >= work.next /\ Textual(i, work.event)
         /\ Rules[i].name # "post_login_recon"
         => \/ Rules[i].name \in RaisedFor(c)'
            \/ work'.conn = c /\ work'.event = work.event /\ i >= work'.next

\* An attempt leaves the channel when it is counted.
LEMMA Counted ==
  ASSUME TypeOK, NEW CONSTANT k \in {0, 1}, NEW STATE e, e \in Events, Passes(k, e),
         NEW CONSTANT c \in Conns
  PROVE  /\ Cardinality(Failures(c)) \in Nat /\ Cardinality(Failures(c))' \in Nat
         /\ Cardinality(Failures(c))' + (IF k = 1 /\ Failing(queue[1], c) THEN 1 ELSE 0)
              <= Cardinality(Failures(c)) + (IF Failing(e, c) THEN 1 ELSE 0)
<1> DEFINE P == 1..Len(queue')
           Q == Failures(c)
           R == {i \in P : Failing(queue'[i], c)}
           m == Len(queue) + 1 - k
           S == IF k = 1 THEN Q \ {1} ELSE Q
           T == R \ {m}
           f == [i \in T |-> i + k]
<1>0. /\ Len(queue) \in Nat /\ Len(queue') \in Nat
      /\ \A i \in P : \/ i + k \in Places /\ queue'[i] = queue[i + k]
                      \/ i + k = Len(queue) + 1 /\ queue'[i] = e
      /\ k = 1 => 1 \in Places
  BY PlacesFacts DEF Passes, Shifted
<1>1. Failures(c)' = R
  BY DEF Failures, Failing, Places
<1>2. IsFiniteSet(Q) /\ IsFiniteSet(R)
  <2>1. IsFiniteSet(1..Len(queue)) /\ IsFiniteSet(1..Len(queue'))
    BY <1>0, FS_Interval
  <2>2. Q \in SUBSET (1..Len(queue)) /\ R \in SUBSET (1..Len(queue'))
    BY DEF Failures, Places
  <2> HIDE DEF Q, R
  <2> QED BY <2>1, <2>2, FS_Subset
<1>3. Cardinality(Q) \in Nat /\ Cardinality(R) \in Nat
  <2> HIDE DEF Q, R
  <2> QED BY <1>2, FS_CardinalityType
<1>4. /\ IsFiniteSet(S) /\ Cardinality(S) \in Nat
      /\ Cardinality(S) + (IF k = 1 /\ Failing(queue[1], c) THEN 1 ELSE 0) = Cardinality(Q)
  <2>1. k = 1 => (1 \in Q <=> Failing(queue[1], c))
    BY <1>0 DEF Failures
  <2> HIDE DEF Q
  <2>2. IsFiniteSet(Q \ {1})
        /\ Cardinality(Q \ {1}) = IF 1 \in Q THEN Cardinality(Q) - 1 ELSE Cardinality(Q)
    BY <1>2, FS_RemoveElement
  <2>3. Cardinality(Q \ {1}) \in Nat
    BY <2>2, FS_CardinalityType
  <2> QED BY <1>2, <1>3, <2>1, <2>2, <2>3
<1>5. /\ IsFiniteSet(T) /\ Cardinality(T) \in Nat
      /\ Cardinality(R) <= Cardinality(T) + (IF Failing(e, c) THEN 1 ELSE 0)
  <2>1. m \in R => Failing(e, c)
    BY <1>0 DEF Places
  <2> HIDE DEF R, m
  <2>2. IsFiniteSet(R \ {m})
        /\ Cardinality(R \ {m}) = IF m \in R THEN Cardinality(R) - 1 ELSE Cardinality(R)
    BY <1>2, FS_RemoveElement
  <2>3. Cardinality(R \ {m}) \in Nat
    BY <2>2, FS_CardinalityType
  <2> QED BY <1>3, <2>1, <2>2, <2>3
<1>6. f \in Injection(T, S)
  <2>1. ASSUME NEW i \in T
        PROVE  i + k \in S
    <3>1. i \in P /\ i # m /\ Failing(queue'[i], c) /\ i \in Nat /\ i >= 1
      BY <1>0
    <3>2. i + k \in Places /\ queue'[i] = queue[i + k]
      BY <1>0, <3>1
    <3>3. i + k \in Q
      BY <3>1, <3>2 DEF Failures
    <3> QED BY <3>1, <3>3
  <2>2. \A i, j \in T : f[i] = f[j] => i = j
    <3>1. \A i \in T : i \in Nat
      BY <1>0
    <3> HIDE DEF T
    <3> QED BY <3>1
  <2>3. f \in [T -> S]
    <3> HIDE DEF T, S
    <3> QED BY <2>1
  <2> HIDE DEF T, S, f
  <2> QED BY <2>2, <2>3 DEF Injection, IsInjective
<1>7. Cardinality(T) <= Cardinality(S)
  <2> HIDE DEF T, S, f
  <2> QED BY <1>4, <1>6, FS_Injection
<1> HIDE DEF Q, R, S, T
<1> QED BY <1>1, <1>3, <1>4, <1>5, <1>7 DEF Q

LEMMA SoundKept ==
  ASSUME TypeOK, TypeOK', SoundInv, NEW CONSTANT k \in {0, 1}, NEW STATE e, e \in Events,
         Passes(k, e), SoundMove(k, e)
  PROVE  SoundInv'
<1> SUFFICES ASSUME NEW c \in Conns
             PROVE  /\ \A i \in 1..Len(queue') : About(queue'[i]) = c => TextMatches(queue'[i]) \subseteq due'[c]
                    /\ work'.conn = c => TextMatches(work'.event) \subseteq due'[c]
                    /\ conns'[c].fails + Cardinality(Failures(c))' <= attempts'[c]
                    /\ RaisedFor(c)' \subseteq due'[c] \union BurstOf(attempts'[c])
  BY DEF SoundInv, Places, About, TextMatches, Textual, BurstOf
<1>0. /\ \A i \in 1..Len(queue') : \/ i + k \in Places /\ queue'[i] = queue[i + k]
                                   \/ i + k = Len(queue) + 1 /\ queue'[i] = e
      /\ k = 1 => 1 \in Places
      /\ \A i \in Places : About(queue[i]) = c => TextMatches(queue[i]) \subseteq due[c]
      /\ due[c] \subseteq due'[c]
  BY PlacesFacts DEF Passes, Shifted, SoundInv, SoundMove
<1>1. \A i \in 1..Len(queue') : About(queue'[i]) = c => TextMatches(queue'[i]) \subseteq due'[c]
  BY <1>0 DEF SoundMove
<1>2. work'.conn = c => TextMatches(work'.event) \subseteq due'[c]
  <2>1. CASE work.conn = c /\ work'.event = work.event
    BY <1>0, <2>1 DEF SoundInv
  <2>2. CASE k = 1 /\ About(queue[1]) = c /\ work'.event = queue[1]
    BY <1>0, <2>2
  <2> QED BY <2>1, <2>2 DEF SoundMove
<1>3. attempts[c] \in Nat /\ attempts'[c] \in Nat /\ attempts[c] <= attempts'[c]
      /\ conns[c].fails \in Nat /\ conns'[c].fails \in Nat
  <2>1. attempts[c] \in Nat /\ attempts'[c] \in Nat
    BY DetectorAssumption DEF TypeOK, ClientType
  <2>2. conns[c].fails \in Nat /\ conns'[c].fails \in Nat
    BY DEF TypeOK, MapsType, Entries
  <2>3. attempts[c] + (IF Failing(e, c) THEN 1 ELSE 0) <= attempts'[c]
    BY DEF SoundMove
  <2> QED BY <2>1, <2>2, <2>3
<1>4. conns'[c].fails + Cardinality(Failures(c))' <= attempts'[c]
  <2>1. conns[c].fails + Cardinality(Failures(c)) <= attempts[c]
    BY DEF SoundInv
  <2>2. /\ conns'[c].fails <= conns[c].fails + (IF k = 1 /\ Failing(queue[1], c) THEN 1 ELSE 0)
        /\ attempts[c] + (IF Failing(e, c) THEN 1 ELSE 0) <= attempts'[c]
    BY DEF SoundMove
  <2> DEFINE taken == IF k = 1 /\ Failing(queue[1], c) THEN 1 ELSE 0
             come == IF Failing(e, c) THEN 1 ELSE 0
             q == Cardinality(Failures(c))
             r == Cardinality(Failures(c))'
  <2>3. q \in Nat /\ r \in Nat /\ r + taken <= q + come
    BY Counted
  <2>4. taken \in {0, 1} /\ come \in {0, 1}
    OBVIOUS
  <2>5. /\ conns[c].fails + q <= attempts[c] /\ conns'[c].fails <= conns[c].fails + taken
        /\ attempts[c] + come <= attempts'[c]
    BY <2>1, <2>2
  <2> HIDE DEF taken, come, q, r
  <2>6. conns'[c].fails + r <= attempts'[c]
    BY <1>3, <2>3, <2>4, <2>5
  <2> QED BY <2>6 DEF r
<1>5. RaisedFor(c)' \subseteq due'[c] \union BurstOf(attempts'[c])
  <2>1. BurstOf(attempts[c]) \subseteq BurstOf(attempts'[c])
    BY <1>3, DetectorAssumption DEF BurstOf
  <2>2. RaisedFor(c) \subseteq due[c] \union BurstOf(attempts[c])
    BY DEF SoundInv
  <2>3. RaisedFor(c)' \subseteq RaisedFor(c) \union due[c] \union BurstOf(attempts[c])
    BY DEF SoundMove
  <2> QED BY <1>0, <2>1, <2>2, <2>3
<1> QED BY <1>1, <1>2, <1>4, <1>5

LEMMA RouteKept ==
  ASSUME TypeOK, RouteInv, NEW CONSTANT k \in {0, 1}, NEW STATE e, e \in Events,
         Passes(k, e), RouteMove(k, e), unseen \subseteq unseen'
  PROVE  RouteInv'
<1> DEFINE P == 1..Len(queue')
<1>0. /\ Len(queue) \in Nat /\ Len(queue') \in Nat
      /\ \A i \in P : \/ i + k \in Places /\ queue'[i] = queue[i + k]
                      \/ i + k = Len(queue) + 1 /\ queue'[i] = e
      /\ k = 1 => 1 \in Places
      /\ \A i \in Places : i > k => i - k \in P /\ queue'[i - k] = queue[i]
  BY PlacesFacts DEF Passes, Shifted
<1> SUFFICES ASSUME NEW s \in Sessions, ~UnseenAbout(Owner[s])'
             PROVE  /\ Running(s)' => \A j \in P : ~ClosesSession(queue'[j], s)
                    /\ session'[s] = "open" =>
                         sessConn'[s] = Owner[s] \/ \E j \in P : OpensSession(queue'[j], s)
                    /\ \A i \in P : queue'[i].type \in ActivityTypes /\ queue'[i].sess = s =>
                         /\ sessConn'[s] = Owner[s] \/ \E j \in P : j < i /\ OpensSession(queue'[j], s)
                         /\ \A j \in P : j < i => ~ClosesSession(queue'[j], s)
  BY DEF RouteInv, Places, Running, OpensSession, ClosesSession
<1>1. ~UnseenAbout(Owner[s])
  BY DEF UnseenAbout, About
<1>2. /\ Running(s) => \A j \in Places : ~ClosesSession(queue[j], s)
      /\ session[s] = "open" =>
           sessConn[s] = Owner[s] \/ \E j \in Places : OpensSession(queue[j], s)
      /\ \A i \in Places : queue[i].type \in ActivityTypes /\ queue[i].sess = s =>
           /\ sessConn[s] = Owner[s] \/ \E j \in Places : j < i /\ OpensSession(queue[j], s)
           /\ \A j \in Places : j < i => ~ClosesSession(queue[j], s)
  BY <1>1 DEF RouteInv, Running
<1>3. /\ Running(s)' => Running(s) /\ ~ClosesSession(e, s)
      /\ session'[s] = "open" =>
           session[s] = "open" \/ (OpensSession(e, s) /\ About(e) = Owner[s] /\ Arrives(e))
      /\ e.type \in ActivityTypes /\ e.sess = s => session[s] = "open" /\ k = 0
      /\ sessConn[s] = Owner[s] =>
           sessConn'[s] = Owner[s] \/ (k = 1 /\ ClosesSession(queue[1], s))
      /\ k = 1 /\ OpensSession(queue[1], s) => sessConn'[s] = Owner[s]
  BY DEF RouteMove
<1>4. Running(s)' => \A j \in P : ~ClosesSession(queue'[j], s)
  BY <1>0, <1>2, <1>3
<1>5. ASSUME session'[s] = "open"
      PROVE  sessConn'[s] = Owner[s] \/ \E j \in P : OpensSession(queue'[j], s)
  <2>1. CASE session[s] = "open"
    <3>1. Running(s)
      BY <2>1 DEF Running
    <3>2. CASE sessConn[s] = Owner[s]
      BY <1>0, <1>2, <1>3, <3>1, <3>2
    <3>3. ASSUME NEW j \in Places, OpensSession(queue[j], s)
          PROVE  sessConn'[s] = Owner[s] \/ \E i \in P : OpensSession(queue'[i], s)
      <4>1. j > k \/ (k = 1 /\ j = 1)
        BY DEF Places
      <4> QED BY <1>0, <1>3, <3>3, <4>1
    <3> QED BY <1>2, <2>1, <3>2, <3>3
  <2>2. CASE OpensSession(e, s) /\ About(e) = Owner[s] /\ Arrives(e)
    <3>1. e \notin unseen'
      BY <2>2 DEF UnseenAbout, About
    <3> QED BY <2>2, <3>1 DEF Arrives
  <2> QED BY <1>3, <1>5, <2>1, <2>2
<1>6. ASSUME NEW i \in P, queue'[i].type \in ActivityTypes, queue'[i].sess = s
      PROVE  /\ sessConn'[s] = Owner[s] \/ \E j \in P : j < i /\ OpensSession(queue'[j], s)
             /\ \A j \in P : j < i => ~ClosesSession(queue'[j], s)
  <2>0. i \in Nat /\ i >= 1
    OBVIOUS
  <2>1. CASE i + k \in Places /\ queue'[i] = queue[i + k]
    <3>1. /\ sessConn[s] = Owner[s] \/ \E j \in Places : j < i + k /\ OpensSession(queue[j], s)
          /\ \A j \in Places : j < i + k => ~ClosesSession(queue[j], s)
      BY <1>2, <1>6, <2>1
    <3>2. ASSUME NEW j \in P, j < i
          PROVE  ~ClosesSession(queue'[j], s)
      <4>1. j + k < i + k /\ i + k <= Len(queue) /\ j \in Nat
        BY <2>0, <2>1, <3>2 DEF Places
      <4>2. j + k \in Places /\ queue'[j] = queue[j + k]
        BY <1>0, <4>1
      <4> QED BY <3>1, <4>1, <4>2
    <3>3. CASE sessConn[s] = Owner[s]
      <4>1. k = 1 => 1 < i + k
        BY <2>0
      <4> QED BY <1>0, <1>3, <3>1, <3>2, <3>3, <4>1
    <3>4. ASSUME NEW j \in Places, j < i + k, OpensSession(queue[j], s)
          PROVE  sessConn'[s] = Owner[s] \/ \E h \in P : h < i /\ OpensSession(queue'[h], s)
      <4>1. CASE j > k
        <5>1. j - k \in P /\ queue'[j - k] = queue[j]
          BY <1>0, <4>1
        <5>2. j - k < i
          BY <1>0, <2>0, <3>4 DEF Places
        <5> QED BY <3>4, <5>1, <5>2
      <4>2. CASE k = 1 /\ j = 1
        BY <1>3, <3>4, <4>2
      <4>3. j > k \/ (k = 1 /\ j = 1)
        BY DEF Places
      <4> QED BY <4>1, <4>2, <4>3
    <3> QED BY <3>1, <3>2, <3>3, <3>4
  <2>2. CASE i + k = Len(queue) + 1 /\ queue'[i] = e
    <3>1. session[s] = "open" /\ k = 0 /\ Running(s)
      BY <1>3, <1>6, <2>2 DEF Running
    <3>2. i = Len(queue) + 1
      BY <2>0, <2>2, <3>1
    <3>3. \A j \in Places : j \in P /\ queue'[j] = queue[j] /\ j < i
      <4> TAKE j \in Places
      <4>1. j \in Nat /\ j > k /\ j - k = j /\ j < i
        BY <1>0, <3>1, <3>2 DEF Places
      <4> QED BY <1>0, <4>1
    <3>4. \A j \in P : j < i => j \in Places
      BY <1>0, <3>2 DEF Places
    <3> QED BY <1>2, <1>3, <3>1, <3>3, <3>4
  <2> QED BY <1>0, <2>1, <2>2
<1> QED BY <1>4, <1>5, <1>6

LEMMA DueKept ==
  ASSUME TypeOK, DueInv, NEW CONSTANT k \in {0, 1}, NEW STATE e, e \in Events,
         Passes(k, e), DueMove(k, e), unseen \subseteq unseen'
  PROVE  DueInv'
<1> DEFINE P == 1..Len(queue')
<1>0. /\ k = 1 => 1 \in Places
      /\ \A i \in Places : i > k => i - k \in P /\ queue'[i - k] = queue[i]
      /\ \A i \in Places : i > k \/ (k = 1 /\ i = 1)
  <2>1. \A i \in Places : i > k \/ (k = 1 /\ i = 1)
    BY DEF Places
  <2> QED BY <2>1, PlacesFacts DEF Passes
<1> SUFFICES ASSUME NEW c \in Conns, ~UnseenAbout(c)', NEW r \in due'[c], r # "post_login_recon"
             PROVE  \/ r \in RaisedFor(c)'
                    \/ \E i \in P : About(queue'[i]) = c /\ r \in TextMatches(queue'[i])
                    \/ \E i \in DOMAIN Rules : /\ work'.conn = c /\ i >= work'.next
                                               /\ Rules[i].name = r /\ Textual(i, work'.event)
  BY DEF DueInv, Pending, Places, About, TextMatches, Textual
<1>1. ~UnseenAbout(c)
  BY DEF UnseenAbout, About
<1>2. CASE About(e) = c /\ Arrives(e) /\ r \in TextMatches(e)
  <2>1. e \notin unseen'
    BY <1>2 DEF UnseenAbout, About
  <2> QED BY <1>2, <2>1 DEF Arrives
<1>3. CASE r \in RaisedFor(c)
  BY <1>3 DEF DueMove
<1>4. ASSUME NEW i \in Places, About(queue[i]) = c, r \in TextMatches(queue[i])
      PROVE  \/ \E j \in P : About(queue'[j]) = c /\ r \in TextMatches(queue'[j])
             \/ \E j \in DOMAIN Rules : /\ work'.conn = c /\ j >= work'.next
                                        /\ Rules[j].name = r /\ Textual(j, work'.event)
  <2>1. CASE i > k
    BY <1>0, <1>4, <2>1
  <2>2. CASE k = 1 /\ i = 1
    <3>1. work'.conn = c /\ work'.event = queue[1] /\ work'.next = 1
      BY <1>1, <1>4, <2>2 DEF DueMove
    <3>2. PICK j \in DOMAIN Rules : Rules[j].name = r /\ Textual(j, queue[1])
      BY <1>4, <2>2, TextSays
    <3>3. j >= 1
      BY EightNames
    <3> QED BY <3>1, <3>2, <3>3
  <2> QED BY <1>0, <2>1, <2>2
<1>5. ASSUME NEW i \in DOMAIN Rules, work.conn = c, i >= work.next, Rules[i].name = r,
             Textual(i, work.event)
      PROVE  \/ r \in RaisedFor(c)'
             \/ \E j \in DOMAIN Rules : /\ work'.conn = c /\ j >= work'.next
                                        /\ Rules[j].name = r /\ Textual(j, work'.event)
  BY <1>5 DEF DueMove
<1>6. r \in due[c] \/ (About(e) = c /\ Arrives(e) /\ r \in TextMatches(e))
  BY DEF DueMove
<1>7. r \in due[c] => r \in RaisedFor(c) \/ Pending(c, r)
  BY <1>1 DEF DueInv
<1> QED BY <1>2, <1>3, <1>4, <1>5, <1>6, <1>7 DEF Pending

------------------------------------------------------------------------------
\* A step of the clients leaves the detector alone and publishes e, or nothing.
PublishMove(e) ==
  /\ \A c \in Conns :
       /\ due'[c] = due[c] \union (IF About(e) = c THEN TextMatches(e) ELSE {})
       /\ attempts[c] + (IF Failing(e, c) THEN 1 ELSE 0) <= attempts'[c]
  /\ \A s \in Sessions :
       /\ Running(s)' => Running(s) /\ ~ClosesSession(e, s)
       /\ session'[s] = "open" => session[s] = "open" \/ (OpensSession(e, s) /\ About(e) = Owner[s])
       /\ e.type \in ActivityTypes /\ e.sess = s => session[s] = "open"
  /\ e.type # "alert" => Arrives(e)

ExactMoves(k, e) ==
  /\ Passes(k, e) /\ unseen \subseteq unseen'
  /\ SoundMove(k, e) /\ RouteMove(k, e) /\ DueMove(k, e)

LEMMA PublishExact ==
  ASSUME TypeOK, UNCHANGED detectorVars, NEW STATE e, e \in Events, PublishMove(e),
         Passes(0, e), unseen \subseteq unseen'
  PROVE  ExactMoves(0, e)
<1>1. UNCHANGED <<conns, sessConn, work, alerted>>
  BY DEF detectorVars, maps, history
<1>2. \A c \in Conns : conns[c].fails \in Nat /\ RaisedFor(c)' = RaisedFor(c)
  BY <1>1 DEF TypeOK, MapsType, Entries, RaisedFor
<1>3. SoundMove(0, e)
  <2> SUFFICES ASSUME NEW c \in Conns
               PROVE  /\ due[c] \subseteq due'[c]
                      /\ About(e) = c => TextMatches(e) \subseteq due'[c]
                      /\ conns'[c].fails <= conns[c].fails + 0
                      /\ attempts[c] + (IF Failing(e, c) THEN 1 ELSE 0) <= attempts'[c]
    BY <1>1, <1>2 DEF SoundMove
  <2> QED BY <1>1, <1>2 DEF PublishMove
<1>4. e.type = "alert" => About(e) \notin Conns
  BY EventShape, DetectorAssumption
<1>5. RouteMove(0, e)
  <2> SUFFICES ASSUME NEW s \in Sessions, session'[s] = "open", session[s] # "open"
               PROVE  OpensSession(e, s) /\ About(e) = Owner[s] /\ Arrives(e)
    BY <1>1 DEF RouteMove, PublishMove
  <2>1. OpensSession(e, s) /\ About(e) = Owner[s]
    BY DEF PublishMove
  <2>2. e.type # "alert"
    BY <2>1 DEF OpensSession
  <2> QED BY <2>1, <2>2 DEF PublishMove
<1>6. DueMove(0, e)
  BY <1>1, <1>2, <1>4 DEF DueMove, PublishMove
<1> QED BY <1>3, <1>5, <1>6 DEF ExactMoves

LEMMA ClientExact ==
  ASSUME DetectorInv, ClientStep
  PROVE  \E e \in Events : ExactMoves(0, e)
<1> USE DetectorAssumption
<1>1. TypeOK /\ UNCHANGED detectorVars
  BY ClientFacts DEF DetectorInv
<1>t. /\ attempts \in [Conns -> Nat]
      /\ session \in [Sessions -> {"none", "accepted", "open", "closed", "abandoned"}]
      /\ due \in [Conns -> SUBSET RuleNames]
  <2>1. attempts \in [Conns -> 0..MaxAttempts]
    BY <1>1 DEF TypeOK, ClientType
  <2>2. 0..MaxAttempts \subseteq Nat
    OBVIOUS
  <2>3. session \in [Sessions -> {"none", "accepted", "open", "closed", "abandoned"}]
    BY <1>1 DEF TypeOK, ClientType
  <2>4. due \in [Conns -> SUBSET RuleNames]
    BY <1>1 DEF TypeOK, ClientType
  <2>5. attempts \in [Conns -> Nat]
    BY <2>1, <2>2
  <2> QED BY <2>3, <2>4, <2>5
\* Publishing an event that no rule reads and that is not about a session.
<1>2. ASSUME NEW c \in Conns, OpenConnection(c) \/ CloseConnection(c)
      PROVE  \E e \in Events : ExactMoves(0, e)
  <2>1. PICK e \in {Event("connection.opened", c, Nobody), Event("connection.closed", c, Nobody)} :
          Publish(e) /\ UNCHANGED <<attempts, session, due>>
    BY <1>2 DEF OpenConnection, CloseConnection
  <2>2. e \in Events /\ e.type \in {"connection.opened", "connection.closed"}
    BY <2>1, Published DEF Event
  <2>3. /\ TextMatches(e) = {} /\ e.type \notin ActivityTypes
        /\ \A d \in Conns : ~Failing(e, d)
        /\ \A s \in Sessions : ~OpensSession(e, s) /\ ~ClosesSession(e, s)
    BY <2>2, TextNone, RuleTable DEF Failing, OpensSession, ClosesSession
  <2>4. Passes(0, e) /\ unseen \subseteq unseen' /\ Arrives(e)
    BY <1>1, <2>1, <2>2, PublishPasses
  <2>5. PublishMove(e)
    BY <1>t, <2>1, <2>3, <2>4 DEF PublishMove, Running
  <2> QED BY <1>1, <2>2, <2>4, <2>5, PublishExact
<1>3. ASSUME NEW c \in Conns, NEW ok \in BOOLEAN, Authenticate(c, ok)
      PROVE  \E e \in Events : ExactMoves(0, e)
  <2> DEFINE e == Attempt(c, ok)
  <2>1. e \in Events /\ e.type = "auth.attempt" /\ e.conn = c /\ About(e) = c
    BY Published DEF Attempt, Event, About
  <2>2. /\ Publish(e) /\ UNCHANGED session
        /\ attempts' = [attempts EXCEPT ![c] = @ + 1]
        /\ due' = [due EXCEPT ![c] = @ \union TextMatches(e)]
    BY <1>3 DEF Authenticate
  <2>3. Passes(0, e) /\ unseen \subseteq unseen' /\ Arrives(e)
    BY <1>1, <2>1, <2>2, PublishPasses
  <2> HIDE DEF e
  <2>4. /\ e.type \notin ActivityTypes
        /\ \A s \in Sessions : ~OpensSession(e, s) /\ ~ClosesSession(e, s)
        /\ \A d \in Conns : d # c => ~Failing(e, d) /\ About(e) # d
    BY <2>1, RuleTable DEF Failing, OpensSession, ClosesSession
  <2>5. \A d \in Conns : attempts[d] + (IF Failing(e, d) THEN 1 ELSE 0) <= attempts'[d]
    <3> TAKE d \in Conns
    <3>1. attempts[d] \in Nat /\ attempts'[d] = IF d = c THEN attempts[d] + 1 ELSE attempts[d]
      BY <1>t, <2>2
    <3>2. d # c => ~Failing(e, d)
      BY <2>4
    <3> QED BY <3>1, <3>2
  <2>6. \A d \in Conns : due'[d] = due[d] \union (IF About(e) = d THEN TextMatches(e) ELSE {})
    BY <1>t, <2>1, <2>2, <2>4
  <2>7. PublishMove(e)
    BY <2>2, <2>3, <2>4, <2>5, <2>6 DEF PublishMove, Running
  <2> QED BY <1>1, <2>1, <2>3, <2>7, PublishExact
<1>4. ASSUME NEW s \in Sessions, NEW a \in Activities, Do(s, a)
      PROVE  \E e \in Events : ExactMoves(0, e)
  <2> DEFINE e == Act(s, a)
  <2>1. e \in Events /\ e.type \in ActivityTypes /\ e.sess = s /\ About(e) = Owner[s]
        /\ Owner[s] \in Conns
    BY Published DEF Act, Event, About
  <2>2. /\ Publish(e) /\ UNCHANGED <<session, attempts>> /\ session[s] = "open"
        /\ due' = [due EXCEPT ![Owner[s]] = @ \union TextMatches(e)]
    BY <1>4 DEF Do
  <2>3. e.type # "alert"
    BY <2>1, EventTable
  <2>4. Passes(0, e) /\ unseen \subseteq unseen' /\ Arrives(e)
    BY <1>1, <2>1, <2>2, <2>3, PublishPasses
  <2> HIDE DEF e
  <2>5. /\ \A t \in Sessions : ~OpensSession(e, t) /\ ~ClosesSession(e, t)
        /\ \A d \in Conns : ~Failing(e, d)
    BY <2>1, RuleTable DEF Failing, OpensSession, ClosesSession
  <2>6. \A d \in Conns : due'[d] = due[d] \union (IF About(e) = d THEN TextMatches(e) ELSE {})
    BY <1>t, <2>1, <2>2
  <2>7. \A d \in Conns : attempts[d] + (IF Failing(e, d) THEN 1 ELSE 0) <= attempts'[d]
    BY <1>t, <2>2, <2>5
  <2>8. PublishMove(e)
    BY <2>1, <2>2, <2>4, <2>5, <2>6, <2>7 DEF PublishMove, Running
  <2> QED BY <1>1, <2>1, <2>4, <2>8, PublishExact
<1>5. ASSUME NEW s \in Sessions, OpenSession(s) \/ CloseSession(s)
      PROVE  \E e \in Events : ExactMoves(0, e)
  <2>1. PICK e \in {Event("session.opened", Owner[s], s), Event("session.closed", Owner[s], s)} :
          /\ Publish(e) /\ UNCHANGED <<attempts, due>>
          /\ \/ /\ e = Event("session.opened", Owner[s], s)
                /\ session[s] = "accepted" /\ session' = [session EXCEPT ![s] = "open"]
             \/ /\ e = Event("session.closed", Owner[s], s)
                /\ session' = [session EXCEPT ![s] = "closed"]
    BY <1>5 DEF OpenSession, CloseSession
  <2>2. /\ e \in Events /\ e.type \in {"session.opened", "session.closed"} /\ e.sess = s
        /\ About(e) = Owner[s]
    BY <2>1, Published DEF Event, About
  <2>3. /\ TextMatches(e) = {} /\ e.type \notin ActivityTypes
        /\ \A d \in Conns : ~Failing(e, d)
        /\ \A t \in Sessions : t # s => ~OpensSession(e, t) /\ ~ClosesSession(e, t)
    BY <2>2, TextNone, RuleTable DEF Failing, OpensSession, ClosesSession
  <2>4. Passes(0, e) /\ unseen \subseteq unseen' /\ Arrives(e)
    BY <1>1, <2>1, <2>2, PublishPasses
  <2>5. \/ /\ OpensSession(e, s) /\ ~ClosesSession(e, s)
           /\ session[s] = "accepted" /\ session' = [session EXCEPT ![s] = "open"]
        \/ session' = [session EXCEPT ![s] = "closed"]
    BY <2>1 DEF Event, OpensSession, ClosesSession
  <2>6. ASSUME NEW t \in Sessions
        PROVE  /\ Running(t)' => Running(t) /\ ~ClosesSession(e, t)
               /\ session'[t] = "open" => session[t] = "open" \/ (OpensSession(e, t) /\ About(e) = Owner[t])
    <3>1. CASE t # s
      BY <1>t, <2>3, <2>5, <3>1 DEF Running
    <3>2. CASE t = s
      BY <1>t, <2>2, <2>5, <3>2 DEF Running
    <3> QED BY <3>1, <3>2
  <2>7. PublishMove(e)
    BY <1>t, <2>1, <2>3, <2>4, <2>6 DEF PublishMove
  <2> QED BY <1>1, <2>2, <2>4, <2>7, PublishExact
\* Publishing nothing.
<1>6. ASSUME UNCHANGED <<feed, attempts, due>>,
             \A s \in Sessions : /\ Running(s)' => Running(s)
                                 /\ session'[s] = "open" => session[s] = "open"
      PROVE  \E e \in Events : ExactMoves(0, e)
  <2>1. Passes(0, Alert) /\ unseen \subseteq unseen' /\ Alert \in Events
    BY <1>1, <1>6, QuietPasses, Published DEF feed
  <2>2. /\ Alert.type = "alert" /\ Alert.type \notin ActivityTypes /\ About(Alert) \notin Conns
        /\ \A d \in Conns : ~Failing(Alert, d)
    BY EventTable DEF Alert, Event, About, Failing
  <2>3. PublishMove(Alert)
    BY <1>t, <1>6, <2>2, AlertIsQuiet DEF PublishMove
  <2> QED BY <1>1, <2>1, <2>3, PublishExact
<1>7. CASE \E c \in Conns : SkipAuthentication(c)
  BY <1>6, <1>7 DEF SkipAuthentication, Running
<1>8. ASSUME NEW s \in Sessions, AcceptChannel(s) \/ AbandonSession(s)
      PROVE  \E e \in Events : ExactMoves(0, e)
  <2>1. /\ UNCHANGED <<feed, attempts, due>>
        /\ \/ session[s] = "none" /\ session' = [session EXCEPT ![s] = "accepted"]
           \/ session' = [session EXCEPT ![s] = "abandoned"]
    BY <1>8 DEF AcceptChannel, AbandonSession
  <2> QED BY <1>t, <1>6, <2>1 DEF Running
<1> QED
  BY <1>2, <1>3, <1>4, <1>5, <1>7, <1>8 DEF ClientStep

------------------------------------------------------------------------------
\* A step of the detector publishes an alert at most, and changes nothing of the clients.
DetectMove(k) ==
  /\ \A c \in Conns :
       /\ work'.conn = c =>
            \/ work.conn = c /\ work'.event = work.event
            \/ k = 1 /\ About(queue[1]) = c /\ work'.event = queue[1]
       /\ conns'[c].fails <= conns[c].fails + (IF k = 1 /\ Failing(queue[1], c) THEN 1 ELSE 0)
       /\ RaisedFor(c)' \subseteq RaisedFor(c) \union due[c] \union BurstOf(attempts[c])
       /\ RaisedFor(c) \subseteq RaisedFor(c)'
       /\ \A i \in DOMAIN Rules :
            /\ work.conn = c /\ i >= work.next /\ Textual(i, work.event)
            /\ Rules[i].name # "post_login_recon"
            => \/ Rules[i].name \in RaisedFor(c)'
               \/ work'.conn = c /\ work'.event = work.event /\ i >= work'.next
       /\ k = 1 /\ About(queue[1]) = c /\ ~UnseenAbout(c) =>
            \/ TextMatches(queue[1]) = {}
            \/ work'.conn = c /\ work'.event = queue[1] /\ work'.next = 1
  /\ \A s \in Sessions :
       /\ sessConn[s] = Owner[s] =>
            sessConn'[s] = Owner[s] \/ (k = 1 /\ ClosesSession(queue[1], s))
       /\ k = 1 /\ OpensSession(queue[1], s) => sessConn'[s] = Owner[s]

LEMMA DetectExact ==
  ASSUME TypeOK, UNCHANGED clientSide, unseen \subseteq unseen',
         NEW CONSTANT k \in {0, 1}, Passes(k, Alert), DetectMove(k)
  PROVE  ExactMoves(k, Alert)
<1>1. UNCHANGED <<attempts, session, due>>
  BY DEF clientSide, clients
<1>2. /\ Alert.type \notin ActivityTypes /\ About(Alert) \notin Conns
      /\ \A d \in Conns : ~Failing(Alert, d)
  BY EventTable, DetectorAssumption DEF Alert, Event, About, Failing
<1>3. \A c \in Conns : attempts[c] \in Nat
  BY DetectorAssumption DEF TypeOK, ClientType
<1>4. SoundMove(k, Alert)
  BY <1>1, <1>2, <1>3 DEF SoundMove, DetectMove
<1>5. RouteMove(k, Alert)
  BY <1>1, <1>2, AlertIsQuiet DEF RouteMove, DetectMove, Running
<1>6. DueMove(k, Alert)
  BY <1>1, <1>2 DEF DueMove, DetectMove
<1> QED BY <1>4, <1>5, <1>6 DEF ExactMoves

LEMMA IdleConn == Idle.conn \notin Conns
BY DetectorAssumption DEF Idle

\* What is in check after an event has been taken.
LEMMA TakeWork ==
  ASSUME DetectorInv, Take
  PROVE  \/ /\ UNCHANGED work
            /\ \/ TextMatches(queue[1]) = {}
               \/ /\ queue[1].type \in ActivityTypes /\ queue[1].sess \in Sessions
                  /\ sessConn[queue[1].sess] = Nobody
         \/ work' = [event |-> queue[1], conn |-> About(queue[1]), next |-> 1]
<1> DEFINE e == queue[1]
<1>1. queue # <<>> /\ Head(queue) = e /\ e \in Events
  BY TakeFeed, Rest DEF DetectorInv, TypeOK
<1>2. CASE TakeAttempt
  <2>1. About(e) = e.conn
    BY <1>1, <1>2, EventShape DEF TakeAttempt, Receiving
  <2> QED BY <1>1, <1>2, <2>1 DEF TakeAttempt
<1>3. CASE TakeActivity
  <2>1. e.type \in ActivityTypes /\ e.sess \in Sessions /\ About(e) = Owner[e.sess]
    BY <1>1, <1>3, EventShape DEF TakeActivity, Receiving
  <2>2. CASE sessConn[e.sess] = Nobody
    BY <1>1, <1>3, <2>1, <2>2 DEF TakeActivity
  <2>3. CASE sessConn[e.sess] # Nobody
    <3>1. sessConn[e.sess] = About(e)
      BY <2>1, <2>3 DEF DetectorInv, SessionInv
    <3> QED BY <1>1, <1>3, <2>3, <3>1 DEF TakeActivity
  <2> QED BY <2>2, <2>3
<1>4. CASE TakeAlert \/ TakeOpened \/ TakeSessionOpened \/ TakeSessionClosed
  <2>1. e.type \in {"alert", "connection.opened", "session.opened", "session.closed"}
        /\ UNCHANGED work
    BY <1>1, <1>4 DEF TakeAlert, TakeOpened, TakeSessionOpened, TakeSessionClosed, Receiving
  <2>2. e.type \notin {"auth.attempt"} \union ActivityTypes
    BY <2>1, RuleTable
  <2> QED BY <2>1, <2>2, TextNone
<1> QED BY <1>2, <1>3, <1>4 DEF Take

LEMMA TakeExact ==
  ASSUME DetectorInv, SumInv, RouteInv, Take
  PROVE  ExactMoves(1, Alert)
<1> DEFINE e == queue[1]
<1>1. /\ TypeOK /\ UNCHANGED clientSide /\ UNCHANGED <<unseen, alerted>>
      /\ queue # <<>> /\ work = Idle /\ queue' = Tail(queue)
  BY TakeFeed, DetectorStepClients DEF DetectorInv, Take, DetectorStep, Handle, history
<1>2. Head(queue) = e /\ e \in Events /\ 1 \in Places
  BY <1>1, Rest DEF DetectorInv, TypeOK, FeedType, Places
<1>3. Passes(1, Alert)
  BY <1>1, TakePasses
<1>4. \A c \in Conns : RaisedFor(c)' = RaisedFor(c)
  BY <1>1 DEF RaisedFor
<1>5. \A c \in Conns : conns'[c].fails <= conns[c].fails + (IF Failing(e, c) THEN 1 ELSE 0)
  BY <1>2, TakeEntry
<1>6. \A c \in Conns : work.conn # c
  BY <1>1, IdleConn
<1>7. ASSUME NEW c \in Conns, work'.conn = c
      PROVE  About(e) = c /\ work'.event = e
  BY <1>6, <1>7, TakeWork
<1>8. ASSUME NEW c \in Conns, About(e) = c, ~UnseenAbout(c), TextMatches(e) # {}
      PROVE  work'.conn = c /\ work'.event = e /\ work'.next = 1
  <2>1. CASE work' = [event |-> e, conn |-> About(e), next |-> 1]
    BY <1>8, <2>1
  <2>2. CASE /\ e.type \in ActivityTypes /\ e.sess \in Sessions
             /\ sessConn[e.sess] = Nobody
    <3>1. c = Owner[e.sess]
      BY <1>2, <1>8, <2>2, EventShape
    <3>2. \E j \in Places : j < 1 /\ OpensSession(queue[j], e.sess)
      <4>1. sessConn[e.sess] # Owner[e.sess]
        BY <2>2, DetectorAssumption
      <4> QED BY <1>2, <1>8, <2>2, <3>1, <4>1 DEF RouteInv
    <3> QED BY <3>2 DEF Places
  <2> QED BY <1>8, <2>1, <2>2, TakeWork
<1>9. ASSUME NEW s \in Sessions
      PROVE  /\ sessConn[s] = Owner[s] => sessConn'[s] = Owner[s] \/ ClosesSession(e, s)
             /\ OpensSession(e, s) => sessConn'[s] = Owner[s]
  <2>1. sessConn \in [Sessions -> Conns \union {Nobody}]
    BY <1>1 DEF TypeOK, MapsType
  <2>2. e.type \in {"session.opened", "session.closed"} => e.sess \in Sessions /\ e.conn = Owner[e.sess]
    BY <1>2, EventShape
  <2>3. CASE UNCHANGED sessConn /\ e.type \notin {"session.opened", "session.closed"}
    BY <2>3 DEF OpensSession
  <2>4. CASE /\ e.type = "session.opened"
             /\ sessConn' = [sessConn EXCEPT ![e.sess] = e.conn]
    <3> HIDE DEF e
    <3> QED BY <2>1, <2>2, <2>4 DEF OpensSession, ClosesSession
  <2>5. CASE /\ e.type = "session.closed"
             /\ sessConn' = [sessConn EXCEPT ![e.sess] = Nobody]
    <3> HIDE DEF e
    <3> QED BY <2>1, <2>2, <2>5 DEF OpensSession, ClosesSession
  <2>6. CASE TakeAlert \/ TakeOpened \/ TakeAttempt \/ TakeActivity
    <3>1. UNCHANGED sessConn
      BY <2>6 DEF TakeAlert, TakeOpened, TakeAttempt, TakeActivity, maps
    <3>2. e.type \in {"alert", "connection.opened", "auth.attempt"} \union ActivityTypes
      BY <1>2, <2>6 DEF TakeAlert, TakeOpened, TakeAttempt, TakeActivity, Receiving
    <3> QED BY <2>3, <3>1, <3>2, RuleTable
  <2>7. CASE TakeSessionOpened
    BY <1>2, <2>4, <2>7 DEF TakeSessionOpened, Receiving
  <2>8. CASE TakeSessionClosed
    BY <1>2, <2>5, <2>8 DEF TakeSessionClosed, Receiving
  <2> QED BY <2>6, <2>7, <2>8 DEF Take
<1>10. DetectMove(1)
  BY <1>4, <1>5, <1>6, <1>7, <1>8, <1>9 DEF DetectMove
<1> QED BY <1>1, <1>3, <1>10, DetectExact

LEMMA ClosedExact ==
  ASSUME DetectorInv, TakeClosed
  PROVE  ExactMoves(1, Alert)
<1> DEFINE c == Head(queue).conn
<1>1. /\ queue # <<>> /\ Head(queue).type = "connection.closed"
      /\ queue' \in {Tail(queue), Append(Tail(queue), Alert)}
      /\ UNCHANGED clientSide /\ TypeOK /\ work = Idle
  BY ClosedFeed, DetectorStepClients DEF DetectorInv, DetectorStep, Handle
<1>2. Head(queue) = queue[1] /\ queue[1] \in Events
  BY <1>1, Rest DEF TypeOK
<1>3. conns' = [conns EXCEPT ![c] = Absent] /\ UNCHANGED <<sessConn, work, alerted>>
  BY DEF TakeClosed
<1>4. unseen \subseteq unseen'
  <2>1. PublishOnto(Tail(queue), Alert) \/ UNCHANGED unseen
    BY DEF TakeClosed
  <2> QED
    BY <2>1, EventTable DEF PublishOnto
<1>5. Passes(1, Alert)
  BY <1>1, TakePasses
<1>6. TextMatches(queue[1]) = {} /\ \A s \in Sessions : ~OpensSession(queue[1], s)
  BY <1>1, <1>2, RuleTable, TextNone DEF OpensSession
<1>7. \A d \in Conns : RaisedFor(d)' = RaisedFor(d) /\ work.conn # d
  BY <1>1, <1>3, IdleConn DEF RaisedFor
<1>8. \A d \in Conns : conns'[d].fails <= conns[d].fails /\ conns[d].fails \in Nat
  <2>1. conns \in [Conns -> Entries] /\ \A d \in Conns : conns[d].fails \in Nat
    BY <1>1 DEF TypeOK, MapsType, Entries
  <2>2. Absent.fails = 0
    BY DEF Absent
  <2> HIDE DEF c
  <2>3. \A d \in Conns : conns'[d] \in {conns[d], Absent}
    BY <1>3, <2>1
  <2> QED BY <2>1, <2>2, <2>3
<1>9. \A d \in Conns :
        conns'[d].fails <= conns[d].fails + (IF Failing(queue[1], d) THEN 1 ELSE 0)
  <2>1. \A d \in Conns : ~Failing(queue[1], d)
    BY <1>1, <1>2 DEF Failing
  <2> QED BY <1>8, <2>1
<1>10. DetectMove(1)
  BY <1>3, <1>6, <1>7, <1>9 DEF DetectMove
<1> QED BY <1>1, <1>4, <1>5, <1>10, DetectExact

\* A rule the loop has passed without an alert had one before.
LEMMA PassedIsRaised ==
  ASSUME DetectorInv, NEW STATE c, c \in Conns, c = work.conn, NEW CONSTANT i \in DOMAIN Rules,
         i >= work.next, Textual(i, work.event), Rules[i].name # "post_login_recon",
         i \notin Candidates
  PROVE  Rules[i].name \in RaisedFor(c)
<1>1. work.event \in Events /\ conns[c] \in Entries
  BY DEF DetectorInv, TypeOK, MapsType
<1>2. Matches(i, work.event, conns[c])
  BY <1>1, TextRules
<1>3. Rules[i].name \in conns[c].fired
  BY <1>2 DEF Candidates
<1> QED BY <1>3, FiredIsRaised

LEMMA FireExact ==
  ASSUME DetectorInv, SoundInv, Fire
  PROVE  ExactMoves(0, Alert)
<1> DEFINE c == work.conn
<1>1. PICK k \in Candidates : (\A j \in Candidates : k <= j) /\ FireRule(k)
  BY DEF Fire
<1> DEFINE r == Rules[k].name
<1>2. /\ TypeOK /\ UNCHANGED clientSide /\ UNCHANGED sessConn /\ Checking
  BY DetectorStepClients DEF DetectorInv, DetectorStep, Handle, Fire
<1>3. /\ k \in DOMAIN Rules /\ k \in Nat /\ r \in RuleNames
      /\ Matches(k, work.event, conns[c])
  BY <1>1, RuleTable DEF Candidates
<1>4. c \in Conns /\ work.event \in Events /\ conns[c] \in Entries
      /\ conns \in [Conns -> Entries] /\ work.next \in Nat
  BY <1>2 DEF TypeOK, MapsType
<1>5. /\ conns' = [conns EXCEPT ![c] = Raise(conns[c], k)]
      /\ alerted' = [alerted EXCEPT ![c][r][Time(c)] = @ + 1]
      /\ work' = [work EXCEPT !.next = k + 1]
      /\ Publish(Alert)
  BY <1>1 DEF FireRule
<1>6. Passes(0, Alert) /\ unseen \subseteq unseen'
  BY <1>2, <1>5, Published, PublishPasses
<1>7. work'.conn = c /\ work'.event = work.event /\ work'.next = k + 1
  <2>1. work \in [event : Events, conn : Conns \union {Nobody}, next : Nat]
    BY <1>2 DEF TypeOK, MapsType
  <2> QED BY <1>3, <1>5, <2>1
<1>8. Raise(conns[c], k).fails = conns[c].fails
  BY <1>3, <1>4, RaisedRest
<1>9. r \in due[c] \union BurstOf(attempts[c])
  <2>1. \/ Textual(k, work.event)
        \/ r = "brute_force_burst" /\ conns[c].fails >= BurstFails
    BY <1>3, <1>4, TextRules
  <2>2. CASE Textual(k, work.event)
    <3>1. r \in TextMatches(work.event)
      BY <1>3, <2>2, TextSays
    <3> QED BY <1>4, <3>1 DEF SoundInv
  <2>3. CASE r = "brute_force_burst" /\ conns[c].fails >= BurstFails
    <3>1. conns[c].fails + Cardinality(Failures(c)) <= attempts[c]
      BY <1>4 DEF SoundInv
    <3>2. Cardinality(Failures(c)) \in Nat
      <4>1. IsFiniteSet(1..Len(queue))
        BY <1>2, FS_Interval DEF TypeOK, FeedType
      <4>2. Failures(c) \in SUBSET (1..Len(queue))
        BY DEF Failures, Places
      <4> QED BY <4>1, <4>2, FS_Subset, FS_CardinalityType
    <3>3. conns[c].fails \in Nat /\ attempts[c] \in Nat
      BY <1>2, <1>4, DetectorAssumption DEF TypeOK, ClientType, Entries
    <3>4. attempts[c] >= BurstFails
      BY <2>3, <3>1, <3>2, <3>3, DetectorAssumption
    <3> QED BY <2>3, <3>4 DEF BurstOf
  <2> QED BY <2>1, <2>2, <2>3
<1>10. \A d \in Conns : RaisedFor(d)' = RaisedFor(d) \union (IF d = c THEN {r} ELSE {})
  <2>1. alerted \in [Conns -> [RuleNames -> [{"live", "late"} -> Nat]]]
    BY <1>2 DEF TypeOK, HistoryType
  <2>2. Time(c) \in {"live", "late"}
    BY DEF Time
  <2> HIDE DEF c, r
  <2>3. /\ \A d \in Conns : d # c => alerted'[d] = alerted[d]
        /\ \A q \in RuleNames : q # r => alerted'[c][q] = alerted[c][q]
        /\ \A t \in {"live", "late"} :
             alerted'[c][r][t] = IF t = Time(c) THEN alerted[c][r][t] + 1 ELSE alerted[c][r][t]
    BY <1>3, <1>4, <1>5, <2>1, <2>2
  <2>4. alerted'[c][r][Time(c)] > 0
    BY <1>3, <1>4, <2>1, <2>2, <2>3
  <2>5. ASSUME NEW d \in Conns, d = c
        PROVE  RaisedFor(d)' = RaisedFor(d) \union {r}
    <3>1. RaisedFor(d)' = {q \in RuleNames : \E t \in {"live", "late"} : alerted'[d][q][t] > 0}
      BY DEF RaisedFor
    <3>2. ASSUME NEW q \in RuleNames, q # r
          PROVE  (\E t \in {"live", "late"} : alerted'[d][q][t] > 0) <=> q \in RaisedFor(d)
      BY <2>3, <2>5, <3>2 DEF RaisedFor
    <3>3. \E t \in {"live", "late"} : alerted'[d][r][t] > 0
      BY <2>2, <2>4, <2>5
    <3>4. RaisedFor(d) \subseteq RuleNames
      BY DEF RaisedFor
    <3> QED BY <1>3, <3>1, <3>2, <3>3, <3>4
  <2>6. ASSUME NEW d \in Conns, d # c
        PROVE  RaisedFor(d)' = RaisedFor(d)
    BY <2>3, <2>6 DEF RaisedFor
  <2> QED BY <2>5, <2>6
<1>11. \A d \in Conns : conns'[d].fails <= conns[d].fails + 0
  <2>1. \A d \in Conns : conns[d].fails \in Nat
    BY <1>4 DEF Entries
  <2> HIDE DEF c
  <2>2. \A d \in Conns : conns'[d].fails = conns[d].fails
    BY <1>4, <1>5, <1>8
  <2> QED BY <2>1, <2>2
<1>12. ASSUME NEW d \in Conns, NEW i \in DOMAIN Rules, work.conn = d, i >= work.next,
              Textual(i, work.event), Rules[i].name # "post_login_recon"
       PROVE  Rules[i].name \in RaisedFor(d)' \/ i >= work'.next
  <2>1. i \in Nat /\ d = c
    BY <1>12, RuleTable
  <2>2. CASE i < k
    <3>1. i \notin Candidates
      BY <1>1, <1>3, <2>1, <2>2
    <3>2. Rules[i].name \in RaisedFor(d)
      BY <1>12, <3>1, PassedIsRaised
    <3> QED BY <1>10, <3>2
  <2>3. CASE i = k
    BY <1>10, <2>1, <2>3
  <2>4. CASE i > k
    BY <1>3, <1>7, <2>1, <2>4
  <2> QED BY <1>3, <2>1, <2>2, <2>3, <2>4
<1>13. DetectMove(0)
  <2>1. work'.conn = work.conn /\ work'.event = work.event
    BY <1>7
  <2> HIDE DEF c, r
  <2>2. ASSUME NEW d \in Conns
        PROVE  /\ RaisedFor(d)' \subseteq RaisedFor(d) \union due[d] \union BurstOf(attempts[d])
               /\ RaisedFor(d) \subseteq RaisedFor(d)'
    <3>1. CASE d = c
      <4>1. RaisedFor(d)' = RaisedFor(d) \union {r} /\ r \in due[d] \union BurstOf(attempts[d])
        BY <1>9, <1>10, <3>1
      <4> QED BY <4>1
    <3>2. CASE d # c
      <4>1. RaisedFor(d)' = RaisedFor(d)
        BY <1>10, <3>2
      <4> QED BY <4>1
    <3> QED BY <3>1, <3>2
  <2> QED BY <1>2, <1>11, <1>12, <2>1, <2>2 DEF DetectMove
<1> QED BY <1>2, <1>6, <1>13, DetectExact

LEMMA OtherExact ==
  ASSUME DetectorInv, SumInv, \/ EndCheck \/ MonitorDropped \/ Push
                              \/ \E c \in Conns : LoginAges(c)
  PROVE  ExactMoves(0, Alert)
<1>1. /\ TypeOK /\ UNCHANGED clientSide /\ UNCHANGED <<sessConn, alerted>>
  BY OtherFacts, DetectorStepClients DEF DetectorInv, DetectorStep, Handle, history
<1>2. UNCHANGED <<queue, unseen>> \/ Publish(Alert)
  BY DEF EndCheck, MonitorDropped, Push, LoginAges, feed
<1>3. Passes(0, Alert) /\ unseen \subseteq unseen'
  BY <1>1, <1>2, PublishPasses, QuietPasses, Published
<1>4. \A c \in Conns : /\ RaisedFor(c)' = RaisedFor(c) /\ conns[c].fails \in Nat
                       /\ conns'[c].fails = conns[c].fails
  BY <1>1, OtherEntry DEF TypeOK, MapsType, Entries, RaisedFor
<1>5. UNCHANGED work \/ (EndCheck /\ work' = Idle)
  BY DEF EndCheck, MonitorDropped, Push, LoginAges
<1>6. ASSUME NEW c \in Conns, NEW i \in DOMAIN Rules, work.conn = c, i >= work.next,
             Textual(i, work.event), Rules[i].name # "post_login_recon", EndCheck
      PROVE  Rules[i].name \in RaisedFor(c)
  <2>1. i \notin Candidates
    BY <1>6 DEF EndCheck
  <2> QED BY <1>6, <2>1, PassedIsRaised
<1>7. \A c \in Conns : Idle.conn # c
  BY IdleConn
<1>8. DetectMove(0)
  BY <1>1, <1>4, <1>5, <1>6, <1>7 DEF DetectMove
<1> QED BY <1>1, <1>3, <1>8, DetectExact

LEMMA ExactInit == Init => ExactInv
<1> SUFFICES ASSUME Init PROVE ExactInv
  OBVIOUS
<1>1. Places = {} /\ \A c \in Conns : Failures(c) = {}
  BY DEF Init, Places, Failures
<1>2. Cardinality({}) = 0
  BY FS_EmptySet
<1>3. \A c \in Conns : RaisedFor(c) = {} /\ conns[c].fails = 0 /\ attempts[c] = 0 /\ due[c] = {}
  BY DEF Init, RaisedFor, Absent
<1>4. \A c \in Conns : work.conn # c
  BY IdleConn DEF Init
<1>5. SoundInv
  <2>1. ASSUME NEW c \in Conns
        PROVE  conns[c].fails + Cardinality(Failures(c)) <= attempts[c]
    <3>1. Cardinality(Failures(c)) = 0
      BY <1>1, <1>2
    <3> QED BY <1>3, <3>1
  <2> QED BY <1>1, <1>3, <1>4, <2>1 DEF SoundInv
<1>6. RouteInv
  BY <1>1 DEF Init, RouteInv
<1>7. DueInv
  BY <1>3 DEF DueInv
<1> QED BY <1>5, <1>6, <1>7 DEF ExactInv

LEMMA ExactStep ==
  ASSUME DetectorInv, SumInv, ExactInv, [Next]_vars
  PROVE  ExactInv'
<1>1. TypeOK /\ TypeOK'
  BY InvStep DEF DetectorInv
<1>2. \E k \in {0, 1}, e \in Events : ExactMoves(k, e)
  <2>1. CASE ClientStep
    BY <2>1, ClientExact
  <2>2. CASE Take \/ TakeClosed
    BY <2>2, TakeExact, ClosedExact, Published DEF ExactInv
  <2>3. CASE Fire
    BY <2>3, FireExact, Published DEF ExactInv
  <2>4. CASE EndCheck \/ MonitorDropped \/ Push \/ \E c \in Conns : LoginAges(c)
    BY <2>4, OtherExact, Published
  <2>5. CASE UNCHANGED vars
    <3>1. /\ UNCHANGED <<clientSide, sessConn, conns, work, alerted, queue, unseen>>
      BY <2>5 DEF vars, clientSide, clients, feed, maps, history
    <3>2. Passes(0, Alert) /\ unseen \subseteq unseen'
      BY <1>1, <3>1, QuietPasses
    <3>3. \A c \in Conns : RaisedFor(c)' = RaisedFor(c) /\ conns[c].fails \in Nat
      BY <1>1, <3>1 DEF TypeOK, MapsType, Entries, RaisedFor
    <3>4. DetectMove(0)
      BY <3>1, <3>3 DEF DetectMove
    <3> QED BY <1>1, <3>1, <3>2, <3>4, DetectExact, Published
  <2> QED
    BY <2>1, <2>2, <2>3, <2>4, <2>5, NextCases DEF DetectorStep, Handle, Take
<1>3. PICK k \in {0, 1}, e \in Events : ExactMoves(k, e)
  BY <1>2
<1>4. /\ Passes(k, e) /\ SoundMove(k, e) /\ RouteMove(k, e) /\ DueMove(k, e)
      /\ unseen \subseteq unseen'
  BY <1>3 DEF ExactMoves
<1>5. SoundInv'
  BY <1>1, <1>4, SoundKept DEF ExactInv
<1>6. RouteInv'
  BY <1>1, <1>4, RouteKept DEF ExactInv
<1>7. DueInv'
  BY <1>1, <1>4, DueKept DEF ExactInv
<1> QED BY <1>5, <1>6, <1>7 DEF ExactInv

LEMMA ExactMeans ==
  ASSUME DetectorInv, SumInv, ExactInv
  PROVE  AlertsExact
<1>1. ASSUME NEW c \in Conns
      PROVE  RaisedFor(c) \subseteq due[c] \union (IF attempts[c] >= BurstFails
                                                 THEN {"brute_force_burst"} ELSE {})
  BY DEF ExactInv, SoundInv, BurstOf
<1>2. ASSUME NEW c \in Conns, ~Checking, ~QueuedAbout(c), ~UnseenAbout(c),
             NEW r \in due[c], r # "post_login_recon"
      PROVE  r \in RaisedFor(c)
  <2>1. r \in RaisedFor(c) \/ Pending(c, r)
    BY <1>2 DEF ExactInv, DueInv
  <2>2. work.conn # c
    BY <1>2, IdleConn DEF Checking
  <2>3. Places = DOMAIN queue
    BY DEF DetectorInv, TypeOK, FeedType, Places
  <2> QED BY <1>2, <2>1, <2>2, <2>3 DEF Pending, QueuedAbout
<1>3. DetectionExact
  BY <1>1, <1>2 DEF DetectionExact, RaisedFor
<1>4. SummaryTotals
  <2>1. \A c \in Conns : LiveScore(c) = SumOf(alerted[c])
    BY SumIsLiveScore
  <2> QED BY <2>1 DEF SummaryTotals, SumInv
<1> QED BY <1>3, <1>4 DEF AlertsExact

\* Every rule the text of an event has matched has raised an alert once the events of the
\* connection are handled, unless one was dropped; none has without such an event; and the
\* final report adds up exactly the alerts raised before it.
THEOREM AlertsAreExact == Spec => []AlertsExact
<1>1. Init => SumInv /\ ExactInv
  BY SumInit, ExactInit
<1>2. DetectorInv /\ SumInv /\ ExactInv /\ [Next]_vars => SumInv' /\ ExactInv'
  BY SumStep, ExactStep
<1>3. DetectorInv /\ SumInv /\ ExactInv => AlertsExact
  BY ExactMeans
<1> QED
  BY <1>1, <1>2, <1>3, Invariance, PTL DEF Spec

=============================================================================
