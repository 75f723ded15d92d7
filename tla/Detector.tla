------------------------------ MODULE Detector ------------------------------
(***************************************************************************)
(* The behaviour analysis, internal/detect/detector.go and rules.go, and   *)
(* the goroutines whose events it reads.                                   *)
(*                                                                         *)
(* A connection handler publishes connection.opened, its authentication    *)
(* attempts and connection.closed; it does not wait for its sessions, each *)
(* a goroutine of its own that publishes session.opened, what the client   *)
(* does, and session.closed, possibly long after connection.closed.  The   *)
(* detector looks up the connection of a session in a map it fills from    *)
(* the events, and publishes its alerts on the bus it reads from.          *)
(*                                                                         *)
(* Of the bus (module EventBus) only the detector's own channel is kept:   *)
(* for one channel a Publish is one non-blocking send.  The model begins    *)
(* when Run has subscribed and follows it while it is in its loop.         *)
(***************************************************************************)
EXTENDS Naturals, Sequences, FiniteSets

CONSTANTS
  Conns,           \* connections, all of one source address
  Sessions,        \* session channels
  Owner,           \* Owner[s]: the connection of s
  Nobody,          \* the empty string where an id is looked up or missing
  Activities,      \* what a session may do: records [type, marks]
  Capacity,        \* the 2048 of Bus.Subscribe
  NotifyCapacity,  \* notifyQueueCap
  WebhookSet,      \* cfg.WebhookURL # ""
  BurstFails,      \* the 50 of brute_force_burst
  MaxAttempts,     \* attempts one connection can record before MaxAuthTries
  MaxActivities,   \* bound of the model: activities of all sessions together
  MaxReports       \* bound of the model: reports of the drop monitor

VARIABLES
  phase,          \* phase[c]: how far the handler of c has come
  attempts,       \* attempts[c]: authentication attempts recorded
  session,        \* session[s]: how far the goroutine of s has come
  acts,           \* activities published by all sessions together
  queue,          \* the channel of the detector
  dropped,        \* Bus.dropped, as far as this channel is concerned
  conns,          \* Detector.conns
  sessConn,       \* Detector.sessConn
  work,           \* the event in check, its connection and the next rule
  last,           \* last of monitorBusDropped
  reports,        \* how many event_bus_overload alerts it published
  notifying,      \* len(notifyCh)
  droppedAlerts,  \* Detector.droppedAlerts
  alerted,        \* history: alerted[c][r][t], alerts of rule r for c, at time t
  summary,        \* history: the scores of the final reports of c
  settled,        \* history: connections whose closing has been handled
  unseen,         \* history: events that never reached the channel
  strays,         \* history: connections with an activity after their closing
  due             \* history: due[c], rules matched by the text of an event of c

clients == <<phase, attempts, session, acts>>
feed == <<queue, dropped, unseen>>
maps == <<conns, sessConn>>
webhook == <<notifying, droppedAlerts>>
monitor == <<last, reports>>
history == <<alerted, summary, settled>>
vars == <<clients, feed, maps, work, monitor, webhook, history, strays, due>>

(***************************************************************************)
(* Rules: name, the type of event they look at and points, in table order. *)
(***************************************************************************)
Rules == <<
  [name |-> "brute_force_burst",     on |-> "auth.attempt",             points |-> 30],
  [name |-> "weak_login_success",    on |-> "auth.attempt",             points |-> 20],
  [name |-> "post_login_recon",      on |-> "command.executed",         points |-> 30],
  [name |-> "suspicious_download",   on |-> "network.download_attempt", points |-> 35],
  [name |-> "reverse_shell_attempt", on |-> "command.executed",         points |-> 50],
  [name |-> "persistence_attempt",   on |-> "file.written",             points |-> 45],
  [name |-> "sensitive_file_read",   on |-> "command.executed",         points |-> 10],
  [name |-> "lateral_movement",      on |-> "network.connect_attempt",  points |-> 30] >>

RuleNames == {Rules[i].name : i \in DOMAIN Rules}

\* The types of the events a session publishes besides its opening and closing.
ActivityTypes == {Rules[i].on : i \in DOMAIN Rules} \ {"auth.attempt"}

ASSUME DetectorAssumption ==
  /\ Capacity \in Nat \ {0}
  /\ NotifyCapacity \in Nat
  /\ BurstFails \in Nat \ {0}
  /\ MaxAttempts \in Nat
  /\ Nobody \notin Conns \union Sessions
  /\ Owner \in [Sessions -> Conns]
  /\ Activities \subseteq [type : ActivityTypes, marks : SUBSET RuleNames]
  /\ WebhookSet \in BOOLEAN
  /\ MaxActivities \in Nat /\ MaxReports \in Nat

\* What a rule finds in the text of an event is a mark the event carries.
Matches(i, e, st) ==
  LET r == Rules[i].name
  IN /\ Rules[i].on = e.type
     /\ CASE r = "brute_force_burst"  -> ~e.success /\ st.fails >= BurstFails
          [] r = "weak_login_success" -> e.success
          [] r = "post_login_recon"   -> r \in e.marks /\ st.loggedIn /\ st.recent
          [] OTHER                    -> r \in e.marks

\* The text of e alone is what rule i looks for, whatever the detector knows.
Textual(i, e) ==
  /\ Rules[i].on = e.type
  /\ IF Rules[i].name = "weak_login_success" THEN e.success ELSE Rules[i].name \in e.marks

TextMatches(e) == {Rules[i].name : i \in {j \in DOMAIN Rules : Textual(j, e)}}

(***************************************************************************)
(* Entries of the map conns and events.  An activity names its session     *)
(* only; recent stands for time.Since(loginAt) <= 3s.                      *)
(***************************************************************************)
Absent == [known |-> FALSE, score |-> 0, fails |-> 0, loggedIn |-> FALSE,
           recent |-> FALSE, fired |-> {}]
NewEntry == [Absent EXCEPT !.known = TRUE]

\* Bug: every event starts from a fresh entry.
EntryFresh(c) == NewEntry

Entry(c) == IF conns[c].known THEN conns[c] ELSE NewEntry

Event(type, c, s) ==
  [type |-> type, conn |-> c, sess |-> s, success |-> FALSE, marks |-> {}]
Alert == Event("alert", Nobody, Nobody)
Attempt(c, ok) == [Event("auth.attempt", c, Nobody) EXCEPT !.success = ok]
Act(s, a) == [Event(a.type, Nobody, s) EXCEPT !.marks = a.marks]

\* The connection an event is about.
About(e) == IF e.sess \in Sessions THEN Owner[e.sess] ELSE e.conn

Idle == [event |-> Alert, conn |-> Nobody, next |-> 0]

Init ==
  /\ phase = [c \in Conns |-> "new"]
  /\ attempts = [c \in Conns |-> 0]
  /\ session = [s \in Sessions |-> "none"]
  /\ acts = 0
  /\ queue = <<>>
  /\ dropped = 0
  /\ unseen = {}
  /\ conns = [c \in Conns |-> Absent]
  /\ sessConn = [s \in Sessions |-> Nobody]
  /\ work = Idle
  /\ last = 0
  /\ reports = 0
  /\ notifying = 0
  /\ droppedAlerts = 0
  /\ alerted = [c \in Conns |-> [r \in RuleNames |-> [t \in {"live", "late"} |-> 0]]]
  /\ summary = [c \in Conns |-> <<>>]
  /\ settled = {}
  /\ strays = {}
  /\ due = [c \in Conns |-> {}]

(***************************************************************************)
(* Publish, as far as the detector's channel is concerned: it is in the    *)
(* map while Run is in its loop, and a full channel drops.                 *)
(***************************************************************************)
\* Bug: a plain send, which waits for room.
PublishWaiting(q, e) ==
  /\ Len(q) < Capacity
  /\ queue' = Append(q, e)
  /\ UNCHANGED <<dropped, unseen>>

\* The non-blocking send.
PublishOnto(q, e) ==
  IF Len(q) < Capacity
  THEN queue' = Append(q, e) /\ UNCHANGED <<dropped, unseen>>
  ELSE /\ queue' = q
       /\ dropped' = dropped + 1
       /\ unseen' = IF e.type = "alert" THEN unseen ELSE unseen \union {e}

Publish(e) == PublishOnto(queue, e)

(***************************************************************************)
(* Connection handlers and session goroutines.                             *)
(***************************************************************************)
detectorVars == <<maps, work, monitor, webhook, history>>

OpenConnection(c) ==
  /\ phase[c] = "new"
  /\ phase' = [phase EXCEPT ![c] = "auth"]
  /\ Publish(Event("connection.opened", c, Nobody))
  /\ UNCHANGED <<attempts, session, acts, detectorVars, strays, due>>

Authenticate(c, ok) ==
  /\ phase[c] = "auth"
  /\ attempts[c] < MaxAttempts
  /\ attempts' = [attempts EXCEPT ![c] = @ + 1]
  /\ phase' = [phase EXCEPT ![c] = IF ok THEN "open" ELSE @]
  /\ due' = [due EXCEPT ![c] = @ \union TextMatches(Attempt(c, ok))]
  /\ Publish(Attempt(c, ok))
  /\ UNCHANGED <<session, acts, detectorVars, strays>>

\* AllowNoAuth lets a client in without an attempt on record.
SkipAuthentication(c) ==
  /\ phase[c] = "auth"
  /\ phase' = [phase EXCEPT ![c] = "open"]
  /\ UNCHANGED <<attempts, session, acts, detectorVars, feed, strays, due>>

\* After conn.Wait, or when the handshake fails; sessions are not waited for.
CloseConnection(c) ==
  /\ phase[c] \in {"auth", "open"}
  /\ phase' = [phase EXCEPT ![c] = "closed"]
  /\ Publish(Event("connection.closed", c, Nobody))
  /\ UNCHANGED <<attempts, session, acts, detectorVars, strays, due>>

AcceptChannel(s) ==
  /\ phase[Owner[s]] = "open"
  /\ session[s] = "none"
  /\ session' = [session EXCEPT ![s] = "accepted"]
  /\ UNCHANGED <<phase, attempts, acts, detectorVars, feed, strays, due>>

OpenSession(s) ==
  /\ session[s] = "accepted"
  /\ session' = [session EXCEPT ![s] = "open"]
  /\ Publish(Event("session.opened", Owner[s], s))
  /\ UNCHANGED <<phase, attempts, acts, detectorVars, strays, due>>

\* Bug: an activity is published before session.opened.
DoUnopened(s, a) ==
  /\ session[s] \in {"accepted", "open"}
  /\ acts < MaxActivities
  /\ acts' = acts + 1
  /\ due' = [due EXCEPT ![Owner[s]] = @ \union TextMatches(Act(s, a))]
  /\ strays' = IF phase[Owner[s]] = "closed" THEN strays \union {Owner[s]} ELSE strays
  /\ Publish(Act(s, a))
  /\ UNCHANGED <<phase, attempts, session, detectorVars>>

Do(s, a) ==
  /\ session[s] = "open"
  /\ acts < MaxActivities
  /\ acts' = acts + 1
  /\ due' = [due EXCEPT ![Owner[s]] = @ \union TextMatches(Act(s, a))]
  /\ strays' = IF phase[Owner[s]] = "closed" THEN strays \union {Owner[s]} ELSE strays
  /\ Publish(Act(s, a))
  /\ UNCHANGED <<phase, attempts, session, detectorVars>>

CloseSession(s) ==
  /\ session[s] = "open"
  /\ session' = [session EXCEPT ![s] = "closed"]
  /\ Publish(Event("session.closed", Owner[s], s))
  /\ UNCHANGED <<phase, attempts, acts, detectorVars, strays, due>>

\* The goroutine returns, or panics, without closing its session.
AbandonSession(s) ==
  /\ session[s] = "open"
  /\ session' = [session EXCEPT ![s] = "abandoned"]
  /\ UNCHANGED <<phase, attempts, acts, detectorVars, feed, strays, due>>

(***************************************************************************)
(* Run and handle.                                                         *)
(***************************************************************************)
clientSide == <<clients, strays, due>>

Receiving(type) ==
  /\ work = Idle
  /\ queue # <<>>
  /\ Head(queue).type = type

TakeAlert ==
  /\ Receiving("alert")
  /\ queue' = Tail(queue)
  /\ UNCHANGED <<clientSide, dropped, unseen, maps, work, monitor, webhook, history>>

TakeOpened ==
  /\ Receiving("connection.opened")
  /\ queue' = Tail(queue)
  /\ conns' = [conns EXCEPT ![Head(queue).conn] = NewEntry]
  /\ UNCHANGED <<clientSide, dropped, unseen, sessConn, work, monitor, webhook, history>>

\* enqueueNotify: a full queue drops.
Notify ==
  \/ ~WebhookSet /\ UNCHANGED webhook
  \/ /\ WebhookSet
     /\ notifying < NotifyCapacity
     /\ notifying' = notifying + 1
     /\ UNCHANGED droppedAlerts
  \/ /\ WebhookSet
     /\ notifying >= NotifyCapacity
     /\ droppedAlerts' = droppedAlerts + 1
     /\ UNCHANGED notifying

\* Bug: a connection without a score returns before its entry is deleted.
TakeClosedKeepsQuiet ==
  /\ Receiving("connection.closed")
  /\ LET c == Head(queue).conn
         report == conns[c].known /\ conns[c].score > 0
     IN /\ conns' = IF report THEN [conns EXCEPT ![c] = Absent] ELSE conns
        /\ settled' = settled \union {c}
        /\ IF report
           THEN /\ PublishOnto(Tail(queue), Alert)
                /\ summary' = [summary EXCEPT ![c] = Append(@, conns[c].score)]
                /\ Notify
           ELSE queue' = Tail(queue) /\ UNCHANGED <<dropped, unseen, summary, webhook>>
  /\ UNCHANGED <<clientSide, sessConn, work, monitor, alerted>>

\* connection.closed: finalReport, then the entry is deleted.
TakeClosed ==
  /\ Receiving("connection.closed")
  /\ LET c == Head(queue).conn
         report == conns[c].known /\ conns[c].score > 0
     IN /\ conns' = [conns EXCEPT ![c] = Absent]
        /\ settled' = settled \union {c}
        /\ IF report
           THEN /\ PublishOnto(Tail(queue), Alert)
                /\ summary' = [summary EXCEPT ![c] = Append(@, conns[c].score)]
                /\ Notify
           ELSE queue' = Tail(queue) /\ UNCHANGED <<dropped, unseen, summary, webhook>>
  /\ UNCHANGED <<clientSide, sessConn, work, monitor, alerted>>

LoggedIn(st) == [st EXCEPT !.loggedIn = TRUE, !.recent = TRUE]
Failed(st) == [st EXCEPT !.fails = @ + 1]

\* auth.attempt: the entry is created if need be, and check runs.
TakeAttempt ==
  /\ Receiving("auth.attempt")
  /\ queue' = Tail(queue)
  /\ LET e == Head(queue)
         st == Entry(e.conn)
     IN /\ conns' = [conns EXCEPT ![e.conn] =
                       IF e.success THEN LoggedIn(st) ELSE Failed(st)]
        /\ work' = [event |-> e, conn |-> e.conn, next |-> 1]
  /\ UNCHANGED <<clientSide, dropped, unseen, sessConn, monitor, webhook, history>>

TakeSessionOpened ==
  /\ Receiving("session.opened")
  /\ queue' = Tail(queue)
  /\ sessConn' = [sessConn EXCEPT ![Head(queue).sess] = Head(queue).conn]
  /\ UNCHANGED <<clientSide, dropped, unseen, conns, work, monitor, webhook, history>>

TakeSessionClosed ==
  /\ Receiving("session.closed")
  /\ queue' = Tail(queue)
  /\ sessConn' = [sessConn EXCEPT ![Head(queue).sess] = Nobody]
  /\ UNCHANGED <<clientSide, dropped, unseen, conns, work, monitor, webhook, history>>

\* An activity: connOf finds the connection of its session, or handle returns.
TakeActivity ==
  /\ \E type \in ActivityTypes : Receiving(type)
  /\ queue' = Tail(queue)
  /\ LET e == Head(queue)
         c == sessConn[e.sess]
     IN IF c = Nobody
        THEN UNCHANGED <<conns, work>>
        ELSE /\ conns' = [conns EXCEPT ![c] = Entry(c)]
             /\ work' = [event |-> e, conn |-> c, next |-> 1]
  /\ UNCHANGED <<clientSide, dropped, unseen, sessConn, monitor, webhook, history>>

(***************************************************************************)
(* check and alert: the rules in table order, one alert at a time.         *)
(***************************************************************************)
Checking == work # Idle

Candidates ==
  {i \in DOMAIN Rules : /\ i >= work.next
                        /\ Rules[i].name \notin conns[work.conn].fired
                        /\ Matches(i, work.event, conns[work.conn])}

Time(c) == IF c \in settled THEN "late" ELSE "live"

Raise(st, i) ==
  [st EXCEPT !.fired = @ \union {Rules[i].name}, !.score = @ + Rules[i].points]

FireRule(i) ==
  LET c == work.conn
      r == Rules[i].name
  IN /\ conns' = [conns EXCEPT ![c] = Raise(@, i)]
     /\ alerted' = [alerted EXCEPT ![c][r][Time(c)] = @ + 1]
     /\ work' = [work EXCEPT !.next = i + 1]
     /\ Publish(Alert)
     /\ Notify

Fire ==
  /\ Checking
  /\ \E i \in Candidates :
       /\ \A j \in Candidates : i <= j
       /\ FireRule(i)
  /\ UNCHANGED <<clientSide, sessConn, monitor, summary, settled>>

EndCheck ==
  /\ Checking
  /\ Candidates = {}
  /\ work' = Idle
  /\ UNCHANGED <<clientSide, feed, maps, monitor, webhook, history>>

\* Three seconds have passed since the login.
LoginAges(c) ==
  /\ conns[c].recent
  /\ conns' = [conns EXCEPT ![c].recent = FALSE]
  /\ UNCHANGED <<clientSide, feed, sessConn, work, monitor, webhook, history>>

(***************************************************************************)
(* The other goroutines of the detector.                                   *)
(***************************************************************************)
\* One tick of monitorBusDropped with something to report.
MonitorDropped ==
  /\ dropped > last
  /\ reports < MaxReports
  /\ reports' = reports + 1
  /\ last' = dropped
  /\ Publish(Alert)
  /\ UNCHANGED <<clientSide, maps, work, webhook, history>>

\* webhookWorker takes an alert and posts it, whatever the outcome.
Push ==
  /\ notifying > 0
  /\ notifying' = notifying - 1
  /\ UNCHANGED <<clientSide, feed, maps, work, monitor, droppedAlerts, history>>

Handle ==
  \/ TakeAlert \/ TakeOpened \/ TakeClosed \/ TakeAttempt
  \/ TakeSessionOpened \/ TakeSessionClosed \/ TakeActivity
  \/ Fire \/ EndCheck

Next ==
  \/ \E c \in Conns :
       \/ OpenConnection(c)
       \/ \E ok \in BOOLEAN : Authenticate(c, ok)
       \/ SkipAuthentication(c)
       \/ CloseConnection(c)
       \/ LoginAges(c)
  \/ \E s \in Sessions :
       \/ AcceptChannel(s)
       \/ OpenSession(s)
       \/ \E a \in Activities : Do(s, a)
       \/ CloseSession(s)
       \/ AbandonSession(s)
  \/ Handle \/ MonitorDropped \/ Push

Spec == Init /\ [][Next]_vars

\* The loop of Run is scheduled; nothing is asked of the webhook.
FairSpec == Spec /\ WF_vars(Handle)

(***************************************************************************)
(* Properties.                                                             *)
(***************************************************************************)
HandlerEvents ==
  [type : {"connection.opened", "connection.closed", "auth.attempt"},
   conn : Conns, sess : {Nobody}, success : BOOLEAN, marks : {{}}]
SessionEvents ==
  [type : {"session.opened", "session.closed"},
   conn : Conns, sess : Sessions, success : {FALSE}, marks : {{}}]
ActivityEvents ==
  [type : ActivityTypes, conn : {Nobody}, sess : Sessions, success : {FALSE},
   marks : SUBSET RuleNames]

Events == {Alert} \union HandlerEvents \union ActivityEvents
          \union {e \in SessionEvents : e.conn = Owner[e.sess]}

Entries == [known : BOOLEAN, score : Nat, fails : Nat, loggedIn : BOOLEAN,
            recent : BOOLEAN, fired : SUBSET RuleNames]

ClientType ==
  /\ phase \in [Conns -> {"new", "auth", "open", "closed"}]
  /\ attempts \in [Conns -> 0..MaxAttempts]
  /\ session \in [Sessions -> {"none", "accepted", "open", "closed", "abandoned"}]
  /\ acts \in 0..MaxActivities
  /\ strays \subseteq Conns
  /\ due \in [Conns -> SUBSET RuleNames]

FeedType ==
  /\ queue \in Seq(Events) /\ Len(queue) <= Capacity
  /\ dropped \in Nat /\ unseen \subseteq Events
  /\ last \in Nat /\ last <= dropped /\ reports \in 0..MaxReports
  /\ notifying \in 0..NotifyCapacity /\ droppedAlerts \in Nat

MapsType ==
  /\ conns \in [Conns -> Entries]
  /\ sessConn \in [Sessions -> Conns \union {Nobody}]
  /\ work \in [event : Events, conn : Conns \union {Nobody}, next : Nat]
  /\ Checking => work.conn \in Conns /\ conns[work.conn].known

HistoryType ==
  /\ alerted \in [Conns -> [RuleNames -> [{"live", "late"} -> Nat]]]
  /\ summary \in [Conns -> Seq(Nat)]
  /\ settled \subseteq Conns

\* The types of the variables, the bounds of the two queues, and: check works
\* on an entry that is in the map.
TypeOK == ClientType /\ FeedType /\ MapsType /\ HistoryType

\* A rule raises one alert for a connection, however many events match it,
\* and one more if sessions go on after connection.closed has been handled
\* and bring the entry back: that entry is never removed, so there is no third.
\* Nothing that arrives may put a fresh entry in the place of a used one.
RuleFiresOnce ==
  \A c \in Conns, r \in RuleNames :
    alerted[c][r]["live"] <= 1 /\ alerted[c][r]["late"] <= 1

\* What the alerts raised for c before its closing was handled add up to.
LiveScore(c) ==
  LET upTo[i \in 0..Len(Rules)] ==
        IF i = 0 THEN 0
        ELSE upTo[i - 1] + Rules[i].points * alerted[c][Rules[i].name]["live"]
  IN upTo[Len(Rules)]

\* A connection has at most one final report; it is made when the closing is
\* handled if there was an alert, and its score is the sum of the points of
\* exactly the alerts raised until then.  Late events never add a report.
SummaryTotals ==
  \A c \in Conns :
    summary[c] = IF c \in settled /\ LiveScore(c) > 0 THEN <<LiveScore(c)>> ELSE <<>>

QueuedAbout(c) == \E i \in DOMAIN queue : About(queue[i]) = c
UnseenAbout(c) == \E e \in unseen : About(e) = c

\* If every event about a connection reached the detector and has been handled,
\* each rule whose text an event of that connection or of one of its sessions
\* matched has raised an alert for this connection, whenever the session ran;
\* and no rule has raised one without such an event.
DetectionExact ==
  \A c \in Conns :
    LET fired == {r \in RuleNames : \E t \in {"live", "late"} : alerted[c][r][t] > 0}
    IN /\ fired \subseteq due[c] \union (IF attempts[c] >= BurstFails
                                         THEN {"brute_force_burst"} ELSE {})
       /\ (~Checking /\ ~QueuedAbout(c) /\ ~UnseenAbout(c))
            => due[c] \ {"post_login_recon"} \subseteq fired

\* Alerts are exact one by one and in sum.
AlertsExact == DetectionExact /\ SummaryTotals

\* Once a connection or session is closed and its events are handled, its entry
\* in the maps is gone, unless the event of its closing never reached the
\* detector or, for a connection, a session did something after that closing.
ResidueExplained ==
  ~Checking =>
    /\ \A c \in Conns :
         (phase[c] = "closed" /\ ~QueuedAbout(c) /\ conns[c].known) =>
           c \in strays \/ Event("connection.closed", c, Nobody) \in unseen
    /\ \A s \in Sessions :
         (session[s] = "closed" /\ ~QueuedAbout(Owner[s]) /\ sessConn[s] # Nobody) =>
           Event("session.closed", Owner[s], s) \in unseen

\* The loop of Run always gets through its rules and back to its channel, even
\* though it publishes into that channel, which only it empties, and whatever
\* the webhook does.
HandlingEnds == Checking ~> ~Checking

=============================================================================
