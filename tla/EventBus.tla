------------------------------ MODULE EventBus ------------------------------
(***************************************************************************)
(* The in-memory event bus, internal/event/bus.go.                         *)
(*                                                                         *)
(* Connection handlers, shells and the detector call Publish; the store    *)
(* and the detector each own one channel obtained from Subscribe.  Publish *)
(* holds the read lock of an RWMutex while it walks the map of channels in *)
(* an arbitrary order and makes one non-blocking send to each, so several  *)
(* Publish calls interleave channel by channel, while Subscribe and        *)
(* Unsubscribe (write lock) run only when no Publish is in progress.       *)
(*                                                                         *)
(* A channel is kept as its whole history, log[s], and the number of       *)
(* events taken from it, taken[s]; what is buffered is the difference.     *)
(* An event is the pair <<producer, n>>: the n-th event of that producer.  *)
(***************************************************************************)
EXTENDS Naturals, Sequences, FiniteSets

CONSTANTS
  Producers,    \* goroutines that call Publish
  Subscribers,  \* goroutines that call Subscribe, each once
  Capacity,     \* the 2048 of make(chan Event, 2048)
  MaxEvents     \* bound of the model: how many events a producer publishes

ASSUME BusAssumption ==
  /\ Capacity \in Nat \ {0}
  /\ MaxEvents \in Nat

VARIABLES
  member,      \* member[s]: where s stands between Subscribe and Unsubscribe
  publishing,  \* the producers inside Publish, holding the read lock
  todo,        \* todo[p]: channels the range loop of p has still to visit
  sent,        \* sent[p]: number of Publish calls p has begun
  log,         \* log[s]: every event ever placed in the channel of s
  taken,       \* taken[s]: how many of them s has received
  dropped,     \* Bus.dropped
  joinedAt,    \* history: the value of sent when s was added to the map
  lost         \* history: the pairs <<s, e>> whose send found the channel full

busVars == <<member, publishing, todo, sent, log, taken, dropped, joinedAt, lost>>

Event == Producers \X (1..MaxEvents)

Membership == {"out", "joining", "in", "leaving", "gone"}

(***************************************************************************)
(* Helpers.                                                                *)
(***************************************************************************)
\* The keys of the map b.subscribers.
Channels == {s \in Subscribers : member[s] \in {"in", "leaving"}}

\* A writer that has called mu.Lock and waits: sync.RWMutex admits no new
\* reader until it has had its turn.
WriterWaiting == \E s \in Subscribers : member[s] \in {"joining", "leaving"}

Backlog(s) == Len(log[s]) - taken[s]

BusInit ==
  /\ member = [s \in Subscribers |-> "out"]
  /\ publishing = {}
  /\ todo = [p \in Producers |-> {}]
  /\ sent = [p \in Producers |-> 0]
  /\ log = [s \in Subscribers |-> <<>>]
  /\ taken = [s \in Subscribers |-> 0]
  /\ dropped = 0
  /\ joinedAt = [s \in Subscribers |-> [p \in Producers |-> 0]]
  /\ lost = {}

(***************************************************************************)
(* Subscribe and Unsubscribe: the call waits for the write lock, and then  *)
(* updates the map.                                                        *)
(***************************************************************************)
CallSubscribe(s) ==
  /\ member[s] = "out"
  /\ member' = [member EXCEPT ![s] = "joining"]
  /\ UNCHANGED <<publishing, todo, sent, log, taken, dropped, joinedAt, lost>>

Subscribe(s) ==
  /\ member[s] = "joining"
  /\ publishing = {}
  /\ member' = [member EXCEPT ![s] = "in"]
  /\ joinedAt' = [joinedAt EXCEPT ![s] = sent]
  /\ UNCHANGED <<publishing, todo, sent, log, taken, dropped, lost>>

CallUnsubscribe(s) ==
  /\ member[s] = "in"
  /\ member' = [member EXCEPT ![s] = "leaving"]
  /\ UNCHANGED <<publishing, todo, sent, log, taken, dropped, joinedAt, lost>>

Unsubscribe(s) ==
  /\ member[s] = "leaving"
  /\ publishing = {}
  /\ member' = [member EXCEPT ![s] = "gone"]
  /\ UNCHANGED <<publishing, todo, sent, log, taken, dropped, joinedAt, lost>>

(***************************************************************************)
(* Publish.                                                                *)
(***************************************************************************)
BeginPublish(p) ==
  /\ p \notin publishing
  /\ ~WriterWaiting
  /\ sent[p] < MaxEvents
  /\ publishing' = publishing \union {p}
  /\ todo' = [todo EXCEPT ![p] = Channels]
  /\ sent' = [sent EXCEPT ![p] = @ + 1]
  /\ UNCHANGED <<member, log, taken, dropped, joinedAt, lost>>

\* case ch <- ev
Enqueue(p, s) ==
  /\ p \in publishing
  /\ s \in todo[p]
  /\ Backlog(s) < Capacity
  /\ log' = [log EXCEPT ![s] = Append(@, <<p, sent[p]>>)]
  /\ todo' = [todo EXCEPT ![p] = @ \ {s}]
  /\ UNCHANGED <<member, publishing, sent, taken, dropped, joinedAt, lost>>

\* default: b.dropped.Add(1)
Drop(p, s) ==
  /\ p \in publishing
  /\ s \in todo[p]
  /\ Backlog(s) >= Capacity
  /\ dropped' = dropped + 1
  /\ lost' = lost \union {<<s, <<p, sent[p]>>>>}
  /\ todo' = [todo EXCEPT ![p] = @ \ {s}]
  /\ UNCHANGED <<member, publishing, sent, log, taken, joinedAt>>

\* Bug: the loop ends after the first channel.
EndPublishEarly(p) ==
  /\ p \in publishing
  /\ Cardinality(todo[p]) <= 1
  /\ publishing' = publishing \ {p}
  /\ todo' = [todo EXCEPT ![p] = {}]
  /\ UNCHANGED <<member, sent, log, taken, dropped, joinedAt, lost>>

\* The deferred RUnlock.
EndPublish(p) ==
  /\ p \in publishing
  /\ todo[p] = {}
  /\ publishing' = publishing \ {p}
  /\ UNCHANGED <<member, todo, sent, log, taken, dropped, joinedAt, lost>>

PublishStep(p) ==
  \/ \E s \in Subscribers : Enqueue(p, s) \/ Drop(p, s)
  \/ EndPublish(p)

\* ev := <-ch in the owner of the channel.
Receive(s) ==
  /\ member[s] = "in"
  /\ Backlog(s) > 0
  /\ taken' = [taken EXCEPT ![s] = @ + 1]
  /\ UNCHANGED <<member, publishing, todo, sent, log, dropped, joinedAt, lost>>

BusNext ==
  \/ \E s \in Subscribers :
       \/ CallSubscribe(s)
       \/ Subscribe(s)
       \/ CallUnsubscribe(s)
       \/ Unsubscribe(s)
       \/ Receive(s)
  \/ \E p \in Producers : BeginPublish(p) \/ PublishStep(p)

BusSpec == BusInit /\ [][BusNext]_busVars

(***************************************************************************)
(* Properties.                                                             *)
(***************************************************************************)
\* The types of the variables, and the bound of a channel: what is buffered
\* never exceeds the capacity given to make(chan Event, ...).
BusTypeOK ==
  /\ member \in [Subscribers -> Membership]
  /\ publishing \subseteq Producers
  /\ todo \in [Producers -> SUBSET Subscribers]
  /\ sent \in [Producers -> 0..MaxEvents]
  /\ log \in [Subscribers -> Seq(Event)]
  /\ taken \in [Subscribers -> Nat]
  /\ \A s \in Subscribers : taken[s] <= Len(log[s]) /\ Backlog(s) <= Capacity
  /\ dropped \in Nat
  /\ joinedAt \in [Subscribers -> [Producers -> 0..MaxEvents]]
  /\ lost \subseteq (Subscribers \X Event)

\* A subscriber sees the events of one producer in the order in which they
\* were published and each at most once, whatever the interleaving of the
\* Publish calls and however many events were dropped in between.  (Two
\* subscribers may see events of different producers in different orders.)
ProducerOrder ==
  \A s \in Subscribers : \A i, j \in 1..Len(log[s]) :
    (i < j /\ log[s][i][1] = log[s][j][1]) => log[s][i][2] < log[s][j][2]

Placed(s, e) == \E i \in 1..Len(log[s]) : log[s][i] = e
Awaited(s, e) == e[1] \in publishing /\ s \in todo[e[1]] /\ e[2] = sent[e[1]]

\* Every event published after s subscribed is in its channel, or recorded
\* as dropped there, or its send is still ahead of a Publish in progress:
\* Publish never skips a channel, and never both delivers and drops.
NothingSkipped ==
  \A s \in Channels : \A p \in Producers : \A n \in (joinedAt[s][p] + 1)..sent[p] :
    LET e == <<p, n>>
    IN /\ Placed(s, e) \/ <<s, e>> \in lost \/ Awaited(s, e)
       /\ ~(Placed(s, e) /\ <<s, e>> \in lost)
       /\ Awaited(s, e) => ~Placed(s, e) /\ <<s, e>> \notin lost

\* Dropped() is the number of refused sends, one per channel that refused:
\* the number main and the detector watch for "blindness" is exact.
DropsCounted == dropped = Cardinality(lost)

\* Both of them.
SendsAccounted == NothingSkipped /\ DropsCounted

\* Once Unsubscribe has returned, nothing more is put in the channel: no
\* Publish in progress still holds it in its range loop.
NoDeliveryAfterUnsubscribe ==
  [][\A s \in Subscribers : log'[s] # log[s] => member[s] \in {"in", "leaving"}]_busVars
=============================================================================
