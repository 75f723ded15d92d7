----------------------------- MODULE StoreProofs -----------------------------
(***************************************************************************)
(* Proofs about the event bus and about the store on its channel of it,    *)
(* for any numbers of producers, subscribers and events, any capacity and  *)
(* any batch size.                                                         *)
(*                                                                         *)
(* The bus.  Its inductive invariant says what the read lock guarantees: a *)
(* Publish in progress only walks channels that are in the map, and the    *)
(* event it carries is newer than anything of the same producer that a     *)
(* channel still to be visited has seen.                                   *)
(*                                                                         *)
(* The store.  Every step of the store and of main is a step of the bus or *)
(* leaves it alone, so that what is proved of the bus holds here.  That    *)
(* the file is in order then follows from the order of the channel,        *)
(* because flushed + written is how far in the channel the file has come:  *)
(* of each producer from the order of its sends, of a producer and those   *)
(* that it starts because it has returned from its first Publish before.   *)
(* And that the tables follow the statements that took effect, because a   *)
(* batch is applied in that order.  Forgetting batches, ticker and         *)
(* shutdown, its steps are those of SavedEvents.                           *)
(***************************************************************************)
EXTENDS Store, FiniteSetTheorems, WellFoundedInduction, TLAPS

------------------------------------------------------------------------------
\* What the read lock protects.
LockInv ==
  /\ \A p \in Producers : todo[p] \subseteq Channels
  /\ \A p \in Producers : p \notin publishing => todo[p] = {}
  /\ \A p \in publishing : sent[p] >= 1

\* Nothing placed or dropped is ahead of its producer, and for a channel still to be
\* visited it is strictly behind the event being published.
BehindInv ==
  /\ \A s \in Subscribers : \A i \in 1..Len(log[s]) :
       /\ log[s][i][2] <= sent[log[s][i][1]]
       /\ s \in todo[log[s][i][1]] => log[s][i][2] < sent[log[s][i][1]]
  /\ \A s \in Subscribers : \A p \in Producers : \A n \in 1..MaxEvents :
       <<s, <<p, n>>>> \in lost =>
         /\ n <= sent[p]
         /\ s \in todo[p] => n < sent[p]

BusInv == BusTypeOK /\ LockInv /\ BehindInv /\ ProducerOrder

-----------------------------------------------------------------------------
(***************************************************************************)
(* Type correctness.                                                       *)
(***************************************************************************)
LEMMA InitType == BusInit => BusTypeOK
  BY BusAssumption DEF BusInit, BusTypeOK, Membership, Event, Backlog

LEMMA EnqueueType ==
  ASSUME NEW p \in Producers, NEW s \in Subscribers, BusTypeOK, LockInv, Enqueue(p, s)
  PROVE  BusTypeOK'
<1>1. <<p, sent[p]>> \in Event
  BY BusAssumption DEF BusTypeOK, LockInv, Enqueue, Event
<1>2. log' \in [Subscribers -> Seq(Event)]
  BY <1>1 DEF BusTypeOK, Enqueue
<1>3. \A r \in Subscribers : taken'[r] <= Len(log'[r]) /\ Len(log'[r]) - taken'[r] <= Capacity
  <2>1. ASSUME NEW r \in Subscribers
        PROVE  taken'[r] <= Len(log'[r]) /\ Len(log'[r]) - taken'[r] <= Capacity
    <3>1. Len(log[r]) \in Nat /\ taken[r] \in Nat /\ Capacity \in Nat
      BY BusAssumption DEF BusTypeOK
    <3>2. CASE r = s
      <4>1. Len(log'[r]) = Len(log[r]) + 1
        BY <1>1, <3>2 DEF BusTypeOK, Enqueue
      <4> QED BY <3>1, <3>2, <4>1 DEF BusTypeOK, Enqueue, Backlog
    <3>3. CASE r # s
      BY <3>1, <3>3 DEF BusTypeOK, Enqueue, Backlog
    <3> QED BY <3>2, <3>3
  <2> QED BY <2>1
<1> QED
  BY <1>2, <1>3 DEF BusTypeOK, Enqueue, Backlog

LEMMA StepType ==
  ASSUME BusTypeOK, LockInv, [BusNext]_busVars
  PROVE  BusTypeOK'
<1> USE BusAssumption
<1>1. ASSUME NEW s \in Subscribers,
             CallSubscribe(s) \/ Subscribe(s) \/ CallUnsubscribe(s) \/ Unsubscribe(s)
      PROVE  BusTypeOK'
  BY <1>1 DEF BusTypeOK, CallSubscribe, Subscribe, CallUnsubscribe, Unsubscribe,
              Membership, Backlog
<1>2. ASSUME NEW s \in Subscribers, Receive(s)
      PROVE  BusTypeOK'
  BY <1>2 DEF BusTypeOK, Receive, Backlog
<1>3. ASSUME NEW p \in Producers, BeginPublish(p)
      PROVE  BusTypeOK'
  BY <1>3 DEF BusTypeOK, BeginPublish, Channels, Backlog
<1>4. ASSUME NEW p \in Producers, NEW s \in Subscribers, Enqueue(p, s)
      PROVE  BusTypeOK'
  BY <1>4, EnqueueType
<1>5. ASSUME NEW p \in Producers, NEW s \in Subscribers, Drop(p, s)
      PROVE  BusTypeOK'
  <2>1. <<s, <<p, sent[p]>>>> \in Subscribers \X Event
    BY <1>5 DEF BusTypeOK, LockInv, Drop, Event
  <2>2. lost' \subseteq (Subscribers \X Event)
    <3>1. lost \subseteq (Subscribers \X Event)
      BY DEF BusTypeOK
    <3>2. lost' = lost \union {<<s, <<p, sent[p]>>>>}
      BY <1>5 DEF Drop
    <3> QED BY <2>1, <3>1, <3>2, Zenon
  <2>5. dropped' \in Nat
    BY <1>5 DEF BusTypeOK, Drop
  <2>3. todo' \in [Producers -> SUBSET Subscribers]
    BY <1>5 DEF BusTypeOK, Drop
  <2>4. /\ member' = member /\ publishing' = publishing /\ sent' = sent
        /\ log' = log /\ taken' = taken /\ joinedAt' = joinedAt
    BY <1>5 DEF Drop
  <2> QED BY <2>2, <2>3, <2>4, <2>5 DEF BusTypeOK, Backlog
<1>6. ASSUME NEW p \in Producers, EndPublish(p)
      PROVE  BusTypeOK'
  BY <1>6 DEF BusTypeOK, EndPublish, Backlog
<1>7. CASE UNCHANGED busVars
  BY <1>7 DEF BusTypeOK, busVars, Backlog
<1> QED
  BY <1>1, <1>2, <1>3, <1>4, <1>5, <1>6, <1>7 DEF BusNext, PublishStep

LEMMA StepLock ==
  ASSUME BusTypeOK, LockInv, [BusNext]_busVars
  PROVE  LockInv'
<1> USE BusAssumption DEF BusTypeOK, LockInv, Channels
<1>1. ASSUME NEW s \in Subscribers, CallSubscribe(s) \/ Subscribe(s) \/ CallUnsubscribe(s)
      PROVE  LockInv'
  BY <1>1 DEF CallSubscribe, Subscribe, CallUnsubscribe
<1>2. ASSUME NEW s \in Subscribers, Unsubscribe(s)
      PROVE  LockInv'
  BY <1>2 DEF Unsubscribe
<1>3. ASSUME NEW s \in Subscribers, Receive(s)
      PROVE  LockInv'
  BY <1>3 DEF Receive
<1>4. ASSUME NEW p \in Producers, BeginPublish(p)
      PROVE  LockInv'
  BY <1>4 DEF BeginPublish
<1>5. ASSUME NEW p \in Producers, NEW s \in Subscribers, Enqueue(p, s) \/ Drop(p, s)
      PROVE  LockInv'
  <2>1. todo' = [todo EXCEPT ![p] = @ \ {s}]
    BY <1>5 DEF Enqueue, Drop
  <2>2. member' = member /\ publishing' = publishing /\ sent' = sent
    BY <1>5 DEF Enqueue, Drop
  <2>3. \A q \in Producers : todo'[q] \subseteq todo[q]
    BY <2>1
  <2> QED BY <2>2, <2>3
<1>6. ASSUME NEW p \in Producers, EndPublish(p)
      PROVE  LockInv'
  BY <1>6 DEF EndPublish
<1>7. CASE UNCHANGED busVars
  BY <1>7 DEF busVars
<1> QED
  BY <1>1, <1>2, <1>3, <1>4, <1>5, <1>6, <1>7 DEF BusNext, PublishStep

\* The channel of a typed bus holds events, and what an event is.
LEMMA LogEvents ==
  ASSUME BusTypeOK, NEW s \in Subscribers, NEW i \in 1..Len(log[s])
  PROVE  log[s][i][1] \in Producers /\ log[s][i][2] \in 1..MaxEvents
<1>1. log[s] \in Seq(Event)
  BY DEF BusTypeOK
<1>2. log[s][i] \in Event
  BY <1>1
<1> QED
  BY <1>2 DEF Event

\* What an Enqueue does to a log.
LEMMA EnqueueLog ==
  ASSUME BusTypeOK, NEW p \in Producers, NEW s \in Subscribers, Enqueue(p, s)
  PROVE  /\ Len(log[s]) \in Nat
         /\ Len(log'[s]) = Len(log[s]) + 1
         /\ \A i \in 1..Len(log[s]) : log'[s][i] = log[s][i]
         /\ log'[s][Len(log[s]) + 1] = <<p, sent[p]>>
         /\ \A r \in Subscribers : r # s => log'[r] = log[r]
  BY DEF BusTypeOK, Enqueue

LEMMA StepBehind ==
  ASSUME BusTypeOK, LockInv, BehindInv, [BusNext]_busVars
  PROVE  BehindInv'
<1> USE BusAssumption
<1>1. ASSUME NEW s \in Subscribers,
             CallSubscribe(s) \/ Subscribe(s) \/ CallUnsubscribe(s) \/ Unsubscribe(s) \/ Receive(s)
      PROVE  BehindInv'
  BY <1>1 DEF BehindInv, CallSubscribe, Subscribe, CallUnsubscribe, Unsubscribe, Receive
<1>2. ASSUME NEW p \in Producers, BeginPublish(p)
      PROVE  BehindInv'
  <2>1. \A q \in Producers : sent[q] \in Nat /\ sent'[q] \in Nat /\ sent[q] <= sent'[q]
    BY <1>2 DEF BeginPublish, BusTypeOK
  <2>2. sent'[p] = sent[p] + 1 /\ \A q \in Producers : q # p => todo'[q] = todo[q] /\ sent'[q] = sent[q]
    BY <1>2 DEF BeginPublish, BusTypeOK
  <2>3. log' = log /\ lost' = lost
    BY <1>2 DEF BeginPublish
  <2>4. ASSUME NEW s \in Subscribers, NEW i \in 1..Len(log[s])
        PROVE  /\ log[s][i][2] <= sent'[log[s][i][1]]
               /\ s \in todo'[log[s][i][1]] => log[s][i][2] < sent'[log[s][i][1]]
    <3>1. log[s][i][1] \in Producers /\ log[s][i][2] \in Nat
      BY LogEvents
    <3>2. /\ log[s][i][2] <= sent[log[s][i][1]]
          /\ s \in todo[log[s][i][1]] => log[s][i][2] < sent[log[s][i][1]]
      BY DEF BehindInv
    <3>3. ASSUME NEW q \in Producers, NEW n \in Nat,
                 n <= sent[q], s \in todo[q] => n < sent[q]
          PROVE  n <= sent'[q] /\ (s \in todo'[q] => n < sent'[q])
      <4>1. CASE q = p
        BY <2>1, <2>2, <3>3, <4>1
      <4>2. CASE q # p
        BY <2>2, <3>3, <4>2
      <4> QED BY <4>1, <4>2
    <3> QED BY ONLY <3>1, <3>2, <3>3
  <2>5. ASSUME NEW s \in Subscribers, NEW q \in Producers, NEW n \in 1..MaxEvents,
               <<s, <<q, n>>>> \in lost
        PROVE  n <= sent'[q] /\ (s \in todo'[q] => n < sent'[q])
    <3>1. n <= sent[q] /\ (s \in todo[q] => n < sent[q])
      BY <2>5 DEF BehindInv
    <3> QED BY <2>1, <2>2, <3>1
  <2> QED BY <2>3, <2>4, <2>5 DEF BehindInv
<1>3. ASSUME NEW p \in Producers, NEW s \in Subscribers, Enqueue(p, s)
      PROVE  BehindInv'
  <2>1. sent' = sent /\ lost' = lost
    BY <1>3 DEF Enqueue
  <2>2. \A q \in Producers : todo'[q] \subseteq todo[q]
    BY <1>3 DEF Enqueue, BusTypeOK
  <2>3. s \notin todo'[p]
    BY <1>3 DEF Enqueue, BusTypeOK
  <2>4. ASSUME NEW r \in Subscribers, NEW i \in 1..Len(log'[r])
        PROVE  /\ log'[r][i][2] <= sent'[log'[r][i][1]]
               /\ r \in todo'[log'[r][i][1]] => log'[r][i][2] < sent'[log'[r][i][1]]
    <3>1. CASE r = s /\ i = Len(log[s]) + 1
      <4>1. log'[r][i] = <<p, sent[p]>>
        BY <1>3, <3>1, EnqueueLog
      <4>2. sent[p] \in Nat
        BY DEF BusTypeOK
      <4> QED BY <2>1, <2>3, <3>1, <4>1, <4>2
    <3>2. CASE ~(r = s /\ i = Len(log[s]) + 1)
      <4>1. i \in 1..Len(log[r]) /\ log'[r][i] = log[r][i]
        BY <1>3, <3>2, EnqueueLog
      <4>2. log[r][i][1] \in Producers
        BY <4>1, LogEvents
      <4>3. /\ log[r][i][2] <= sent[log[r][i][1]]
            /\ r \in todo[log[r][i][1]] => log[r][i][2] < sent[log[r][i][1]]
        BY <4>1 DEF BehindInv
      <4> QED BY <2>1, <2>2, <4>1, <4>2, <4>3
    <3> QED BY <3>1, <3>2
  <2>5. ASSUME NEW r \in Subscribers, NEW q \in Producers, NEW n \in 1..MaxEvents,
               <<r, <<q, n>>>> \in lost
        PROVE  n <= sent[q] /\ (r \in todo'[q] => n < sent[q])
    BY <2>2, <2>5 DEF BehindInv
  <2> QED BY <2>1, <2>4, <2>5 DEF BehindInv
<1>4. ASSUME NEW p \in Producers, NEW s \in Subscribers, Drop(p, s)
      PROVE  BehindInv'
  <2>1. sent' = sent /\ log' = log /\ lost' = lost \union {<<s, <<p, sent[p]>>>>}
    BY <1>4 DEF Drop
  <2>2. \A q \in Producers : todo'[q] \subseteq todo[q]
    BY <1>4 DEF Drop, BusTypeOK
  <2>3. s \notin todo'[p]
    BY <1>4 DEF Drop, BusTypeOK
  <2>4. ASSUME NEW r \in Subscribers, NEW i \in 1..Len(log[r])
        PROVE  /\ log[r][i][2] <= sent[log[r][i][1]]
               /\ r \in todo'[log[r][i][1]] => log[r][i][2] < sent[log[r][i][1]]
    <3>1. log[r][i][1] \in Producers
      BY LogEvents
    <3> QED BY <2>2, <3>1 DEF BehindInv
  <2>5. ASSUME NEW r \in Subscribers, NEW q \in Producers, NEW n \in 1..MaxEvents,
               <<r, <<q, n>>>> \in lost'
        PROVE  n <= sent[q] /\ (r \in todo'[q] => n < sent[q])
    <3>1. CASE <<r, <<q, n>>>> \in lost
      BY <2>2, <3>1 DEF BehindInv
    <3>2. CASE r = s /\ q = p /\ n = sent[p]
      BY <2>3, <3>2
    <3> QED BY <2>1, <2>5, <3>1, <3>2
  <2> QED BY <2>1, <2>4, <2>5 DEF BehindInv
<1>5. ASSUME NEW p \in Producers, EndPublish(p)
      PROVE  BehindInv'
  BY <1>5 DEF BehindInv, EndPublish
<1>6. CASE UNCHANGED busVars
  BY <1>6 DEF BehindInv, busVars
<1> QED
  BY <1>1, <1>2, <1>3, <1>4, <1>5, <1>6 DEF BusNext, PublishStep

LEMMA StepOrder ==
  ASSUME BusTypeOK, LockInv, BehindInv, ProducerOrder, [BusNext]_busVars
  PROVE  ProducerOrder'
<1>1. ASSUME NEW p \in Producers, NEW s \in Subscribers, Enqueue(p, s)
      PROVE  ProducerOrder'
  <2> SUFFICES ASSUME NEW r \in Subscribers, NEW i \in 1..Len(log'[r]), NEW j \in 1..Len(log'[r]),
                      i < j, log'[r][i][1] = log'[r][j][1]
               PROVE  log'[r][i][2] < log'[r][j][2]
    BY DEF ProducerOrder
  <2>1. CASE r = s /\ j = Len(log[s]) + 1
    <3>1. i \in 1..Len(log[s]) /\ log'[r][i] = log[r][i]
      BY <1>1, <2>1, EnqueueLog
    <3>2. log'[r][j] = <<p, sent[p]>>
      BY <1>1, <2>1, EnqueueLog
    <3>3. s \in todo[p]
      BY <1>1 DEF Enqueue
    <3>4. log[s][i][1] = p
      BY <2>1, <3>1, <3>2
    <3> QED BY <2>1, <3>1, <3>2, <3>3, <3>4 DEF BehindInv
  <2>2. CASE ~(r = s /\ j = Len(log[s]) + 1)
    <3>1. /\ j \in 1..Len(log[r]) /\ log'[r][j] = log[r][j]
          /\ i \in 1..Len(log[r]) /\ log'[r][i] = log[r][i]
      BY <1>1, <2>2, EnqueueLog
    <3> QED BY <3>1 DEF ProducerOrder
  <2> QED BY <2>1, <2>2
<1>2. CASE log' = log
  BY <1>2 DEF ProducerOrder
<1>3. ASSUME [BusNext]_busVars, ~ \E p \in Producers, s \in Subscribers : Enqueue(p, s)
      PROVE  log' = log
  BY <1>3 DEF BusNext, PublishStep, busVars, CallSubscribe, Subscribe, CallUnsubscribe, Unsubscribe,
              Receive, BeginPublish, Drop, EndPublish
<1> QED
  BY <1>1, <1>2, <1>3

LEMMA InitInv == BusInit => BusInv
<1> SUFFICES ASSUME BusInit PROVE BusInv
  OBVIOUS
<1>1. BusTypeOK
  BY InitType
<1>2. LockInv
  BY DEF BusInit, LockInv, Channels
<1>3. BehindInv
  BY DEF BusInit, BehindInv
<1>4. ProducerOrder
  BY DEF BusInit, ProducerOrder
<1> QED
  BY <1>1, <1>2, <1>3, <1>4 DEF BusInv

LEMMA StepInv == BusInv /\ [BusNext]_busVars => BusInv'
  BY StepType, StepLock, StepBehind, StepOrder DEF BusInv

LEMMA BusInvariant == BusSpec => []BusInv
  BY InitInv, StepInv, PTL DEF BusSpec

-----------------------------------------------------------------------------
\* Every reachable state is well typed and no channel ever buffers more than its capacity.
THEOREM TypeCorrect == BusSpec => []BusTypeOK
<1>1. BusInv => BusTypeOK
  BY DEF BusInv
<1> QED
  BY <1>1, BusInvariant, PTL

\* A subscriber sees each producer's events in order and at most once.
THEOREM OrderPreserved == BusSpec => []ProducerOrder
<1>1. BusInv => ProducerOrder
  BY DEF BusInv
<1> QED
  BY <1>1, BusInvariant, PTL

\* Once Unsubscribe has returned, nothing more is put in the channel.
THEOREM UnsubscribeFinal == BusSpec => NoDeliveryAfterUnsubscribe
<1>1. BusInv /\ [BusNext]_busVars
        => [\A s \in Subscribers : log'[s] # log[s] => member[s] \in {"in", "leaving"}]_busVars
  <2> SUFFICES ASSUME BusInv, BusNext, NEW s \in Subscribers, log'[s] # log[s]
               PROVE  member[s] \in {"in", "leaving"}
    BY DEF busVars
  <2>1. PICK p \in Producers, r \in Subscribers : Enqueue(p, r)
    BY DEF BusNext, PublishStep, CallSubscribe, Subscribe, CallUnsubscribe, Unsubscribe, Receive,
           BeginPublish, Drop, EndPublish
  <2>2. r = s
    BY <2>1, EnqueueLog DEF BusInv
  <2> QED
    BY <2>1, <2>2 DEF BusInv, LockInv, Channels, Enqueue
<1> QED
  BY <1>1, BusInvariant, PTL DEF BusSpec, NoDeliveryAfterUnsubscribe

-----------------------------------------------------------------------------
(***************************************************************************)
(* Accounting: nothing disappears between Publish and the channels.        *)
(***************************************************************************)
CountInv == IsFiniteSet(lost) /\ DropsCounted

LEMMA StepCount ==
  ASSUME BusInv, CountInv, [BusNext]_busVars
  PROVE  CountInv'
<1>1. ASSUME NEW p \in Producers, NEW s \in Subscribers, Drop(p, s)
      PROVE  CountInv'
  <2>1. <<s, <<p, sent[p]>>>> \notin lost
    <3>1. sent[p] \in 1..MaxEvents /\ s \in todo[p]
      BY <1>1, BusAssumption DEF BusInv, BusTypeOK, LockInv, Drop
    <3> QED BY <3>1 DEF BusInv, BehindInv
  <2>2. lost' = lost \union {<<s, <<p, sent[p]>>>>} /\ dropped' = dropped + 1
    BY <1>1 DEF Drop
  <2>3. IsFiniteSet(lost') /\ Cardinality(lost') = Cardinality(lost) + 1
    BY <2>1, <2>2, FS_AddElement DEF CountInv
  <2> QED BY <2>2, <2>3 DEF CountInv, DropsCounted
<1>2. CASE lost' = lost /\ dropped' = dropped
  BY <1>2 DEF CountInv, DropsCounted
<1>3. ASSUME ~ \E p \in Producers, s \in Subscribers : Drop(p, s)
      PROVE  lost' = lost /\ dropped' = dropped
  BY <1>3 DEF BusNext, PublishStep, busVars, CallSubscribe, Subscribe, CallUnsubscribe, Unsubscribe,
              Receive, BeginPublish, Enqueue, EndPublish
<1> QED
  BY <1>1, <1>2, <1>3

\* Dropped() is exactly the number of sends that found a channel full.
THEOREM DropsExact == BusSpec => []DropsCounted
<1>1. BusInit => CountInv
  BY FS_EmptySet DEF BusInit, CountInv, DropsCounted
<1>2. BusInv /\ CountInv /\ [BusNext]_busVars => CountInv'
  BY StepCount
<1>3. CountInv => DropsCounted
  BY DEF CountInv
<1> QED
  BY <1>1, <1>2, <1>3, BusInvariant, PTL DEF BusSpec

\* The fate of one event at one channel, the body of NothingSkipped.
Fate(s, e) ==
  /\ Placed(s, e) \/ <<s, e>> \in lost \/ Awaited(s, e)
  /\ ~(Placed(s, e) /\ <<s, e>> \in lost)
  /\ Awaited(s, e) => ~Placed(s, e) /\ <<s, e>> \notin lost

\* The event a Publish is about to send to s has not reached s before.
LEMMA AwaitedFresh ==
  ASSUME BusInv, NEW p \in Producers, NEW s \in Subscribers, NEW n \in 1..MaxEvents,
         n > sent[p] \/ (s \in todo[p] /\ n = sent[p])
  PROVE  ~Placed(s, <<p, n>>) /\ <<s, <<p, n>>>> \notin lost
<1>1. ASSUME NEW i \in 1..Len(log[s]), log[s][i] = <<p, n>>
      PROVE  FALSE
  <2>1. log[s][i][1] = p /\ log[s][i][2] = n
    BY <1>1
  <2>2. sent[p] \in Nat
    BY DEF BusInv, BusTypeOK
  <2> QED BY <2>1, <2>2 DEF BusInv, BehindInv
<1>2. sent[p] \in Nat
  BY DEF BusInv, BusTypeOK
<1>3. <<s, <<p, n>>>> \notin lost
  BY <1>2 DEF BusInv, BehindInv
<1> QED
  BY <1>1, <1>3 DEF Placed

LEMMA StepFate ==
  ASSUME BusInv, BusInv', NothingSkipped, [BusNext]_busVars
  PROVE  NothingSkipped'
<1> USE BusAssumption
<1> SUFFICES ASSUME NEW s \in Channels', NEW p \in Producers, NEW n \in (joinedAt'[s][p] + 1)..sent'[p]
             PROVE  Fate(s, <<p, n>>)'
  BY DEF NothingSkipped, Fate
<1> DEFINE e == <<p, n>>
<1>s. s \in Subscribers
  BY DEF Channels
<1>n. n \in 1..MaxEvents
  <2>1. joinedAt'[s][p] \in 0..MaxEvents /\ sent'[p] \in 0..MaxEvents
    BY <1>s DEF BusInv, BusTypeOK
  <2> QED BY <2>1
<1>a. s \in Channels /\ n \in (joinedAt[s][p] + 1)..sent[p] => Fate(s, e)
  BY DEF NothingSkipped, Fate
<1>1. ASSUME NEW r \in Subscribers, Subscribe(r)
      PROVE  Fate(s, e)'
  <2>1. s # r
    <3>1. joinedAt'[r][p] = sent'[p] /\ sent'[p] \in Nat
      BY <1>1 DEF Subscribe, BusInv, BusTypeOK
    <3> QED BY <3>1
  <2>2. s \in Channels /\ n \in (joinedAt[s][p] + 1)..sent[p]
    BY <1>1, <1>s, <2>1 DEF Subscribe, Channels, BusInv, BusTypeOK
  <2> QED BY <1>1, <1>a, <2>2 DEF Subscribe, Fate, Placed, Awaited
<1>2. ASSUME NEW r \in Subscribers,
             CallSubscribe(r) \/ CallUnsubscribe(r) \/ Unsubscribe(r) \/ Receive(r)
      PROVE  Fate(s, e)'
  <2>1. s \in Channels /\ n \in (joinedAt[s][p] + 1)..sent[p]
    BY <1>2, <1>s DEF CallSubscribe, CallUnsubscribe, Unsubscribe, Receive, Channels, BusInv, BusTypeOK
  <2> QED
    BY <1>2, <1>a, <2>1 DEF CallSubscribe, CallUnsubscribe, Unsubscribe, Receive, Fate, Placed, Awaited
<1>3. ASSUME NEW q \in Producers, BeginPublish(q)
      PROVE  Fate(s, e)'
  <2>1. /\ s \in Channels
        /\ log' = log /\ lost' = lost /\ joinedAt' = joinedAt
        /\ q \notin publishing /\ publishing' = publishing \union {q}
    BY <1>3 DEF BeginPublish, Channels
  <2>2. /\ sent'[q] = sent[q] + 1 /\ sent[q] \in Nat /\ todo'[q] = Channels
        /\ \A x \in Producers : x # q => sent'[x] = sent[x] /\ todo'[x] = todo[x]
    BY <1>3 DEF BeginPublish, BusInv, BusTypeOK
  <2>3. joinedAt[s][p] \in Nat
    BY <1>s DEF BusInv, BusTypeOK
  <2>4. CASE p = q /\ n = sent[q] + 1
    <3>1. ~Placed(s, e) /\ <<s, e>> \notin lost
      BY <1>s, <1>n, <2>2, <2>4, AwaitedFresh
    <3>2. Awaited(s, e)'
      BY <2>1, <2>2, <2>4 DEF Awaited
    <3>3. ~Placed(s, e)' /\ <<s, e>> \notin lost'
      BY <2>1, <3>1 DEF Placed
    <3> QED BY <3>2, <3>3 DEF Fate
  <2>5. CASE p = q /\ n # sent[q] + 1
    <3>1. Fate(s, e)
      BY <1>a, <2>1, <2>2, <2>3, <2>5
    <3>2. ~Awaited(s, e) /\ ~Awaited(s, e)'
      BY <1>n, <2>1, <2>2, <2>5 DEF Awaited
    <3> QED BY <2>1, <3>1, <3>2 DEF Fate, Placed
  <2>6. CASE p # q
    <3>1. Fate(s, e)
      BY <1>a, <2>1, <2>2, <2>6
    <3>2. Awaited(s, e)' <=> Awaited(s, e)
      BY <2>1, <2>2, <2>6 DEF Awaited
    <3> QED BY <2>1, <3>1, <3>2 DEF Fate, Placed
  <2> QED BY <2>4, <2>5, <2>6
<1>4. ASSUME NEW q \in Producers, NEW r \in Subscribers, Enqueue(q, r)
      PROVE  Fate(s, e)'
  <2>1. /\ lost' = lost /\ sent' = sent /\ publishing' = publishing
        /\ joinedAt' = joinedAt /\ Channels' = Channels
        /\ q \in publishing /\ r \in todo[q]
    BY <1>4 DEF Enqueue, Channels
  <2>2. /\ todo'[q] = todo[q] \ {r}
        /\ \A x \in Producers : x # q => todo'[x] = todo[x]
    BY <1>4 DEF Enqueue, BusInv, BusTypeOK
  <2>3. Fate(s, e)
    BY <1>a, <2>1
  <2>4. CASE s = r /\ p = q /\ n = sent[q]
    <3>1. <<s, e>> \notin lost
      BY <1>s, <1>n, <2>1, <2>4, AwaitedFresh
    <3>2. Placed(s, e)'
      <4>1. /\ Len(log[s]) \in Nat /\ Len(log'[s]) = Len(log[s]) + 1
            /\ log'[s][Len(log[s]) + 1] = <<q, sent[q]>>
        BY <1>4, <2>4, EnqueueLog DEF BusInv
      <4>2. Len(log[s]) + 1 \in 1..Len(log'[s])
        BY <4>1
      <4> QED BY <2>4, <4>1, <4>2 DEF Placed
    <3>3. ~Awaited(s, e)'
      BY <2>2, <2>4 DEF Awaited
    <3> QED BY <2>1, <3>1, <3>2, <3>3 DEF Fate
  <2>5. CASE ~(s = r /\ p = q /\ n = sent[q])
    <3>1. Placed(s, e)' <=> Placed(s, e)
      <4>1. CASE s # r
        <5>1. log'[s] = log[s]
          BY <1>4, <1>s, <4>1, EnqueueLog DEF BusInv
        <5> QED BY <5>1 DEF Placed
      <4>2. CASE s = r
        <5>1. /\ Len(log[s]) \in Nat /\ Len(log'[s]) = Len(log[s]) + 1
              /\ \A i \in 1..Len(log[s]) : log'[s][i] = log[s][i]
              /\ log'[s][Len(log[s]) + 1] = <<q, sent[q]>>
          BY <1>4, <4>2, EnqueueLog DEF BusInv
        <5>2. <<q, sent[q]>> # e
          BY <2>5, <4>2
        <5>3. \A i \in 1..Len(log'[s]) : i \in 1..Len(log[s]) \/ i = Len(log[s]) + 1
          BY <5>1
        <5>4. \A i \in 1..Len(log[s]) : i \in 1..Len(log'[s])
          BY <5>1
        <5> QED BY <5>1, <5>2, <5>3, <5>4 DEF Placed
      <4> QED BY <4>1, <4>2
    <3>2. Awaited(s, e)' <=> Awaited(s, e)
      BY <2>1, <2>2, <2>5 DEF Awaited
    <3> QED BY <2>1, <2>3, <3>1, <3>2 DEF Fate
  <2> QED BY <2>4, <2>5
<1>5. ASSUME NEW q \in Producers, NEW r \in Subscribers, Drop(q, r)
      PROVE  Fate(s, e)'
  <2>1. /\ log' = log /\ sent' = sent /\ publishing' = publishing
        /\ joinedAt' = joinedAt /\ Channels' = Channels
        /\ q \in publishing /\ r \in todo[q]
        /\ lost' = lost \union {<<r, <<q, sent[q]>>>>}
    BY <1>5 DEF Drop, Channels
  <2>2. /\ todo'[q] = todo[q] \ {r}
        /\ \A x \in Producers : x # q => todo'[x] = todo[x]
    BY <1>5 DEF Drop, BusInv, BusTypeOK
  <2>3. Fate(s, e)
    BY <1>a, <2>1
  <2>4. CASE s = r /\ p = q /\ n = sent[q]
    <3>1. ~Placed(s, e)
      BY <1>s, <1>n, <2>1, <2>4, AwaitedFresh
    <3>2. <<s, e>> \in lost' /\ ~Placed(s, e)'
      BY <2>1, <2>4, <3>1 DEF Placed
    <3>3. ~Awaited(s, e)'
      BY <2>2, <2>4 DEF Awaited
    <3> QED BY <3>2, <3>3 DEF Fate
  <2>5. CASE ~(s = r /\ p = q /\ n = sent[q])
    <3>1. <<s, e>> \in lost' <=> <<s, e>> \in lost
      BY <2>1, <2>5
    <3>2. Awaited(s, e)' <=> Awaited(s, e)
      BY <2>1, <2>2, <2>5 DEF Awaited
    <3>3. Placed(s, e)' <=> Placed(s, e)
      BY <2>1 DEF Placed
    <3> QED BY <2>3, <3>1, <3>2, <3>3 DEF Fate
  <2> QED BY <2>4, <2>5
<1>6. ASSUME NEW q \in Producers, EndPublish(q)
      PROVE  Fate(s, e)'
  <2>1. /\ log' = log /\ lost' = lost /\ sent' = sent /\ todo' = todo
        /\ joinedAt' = joinedAt /\ Channels' = Channels
        /\ publishing' = publishing \ {q} /\ todo[q] = {}
    BY <1>6 DEF EndPublish, Channels
  <2>2. Fate(s, e)
    BY <1>a, <2>1
  <2>3. Awaited(s, e)' <=> Awaited(s, e)
    BY <2>1 DEF Awaited
  <2> QED BY <2>1, <2>2, <2>3 DEF Fate, Placed
<1>7. CASE UNCHANGED busVars
  BY <1>7, <1>a DEF busVars, Channels, Fate, Placed, Awaited
<1> QED
  BY <1>1, <1>2, <1>3, <1>4, <1>5, <1>6, <1>7 DEF BusNext, PublishStep

\* Publish skips no channel: each event published after s subscribed is in its channel,
\* counted as dropped there, or about to be sent to it.
THEOREM NoSilentLoss == BusSpec => []NothingSkipped
<1>1. BusInit => NothingSkipped
  BY DEF BusInit, NothingSkipped, Channels
<1>2. BusInv /\ BusInv' /\ NothingSkipped /\ [BusNext]_busVars => NothingSkipped'
  BY StepFate
<1> QED
  BY <1>1, <1>2, BusInvariant, PTL DEF BusSpec

\* Both: every refused send is counted, and no other event is missing.
THEOREM SendsAreAccounted == BusSpec => []SendsAccounted
  BY NoSilentLoss, DropsExact, PTL DEF SendsAccounted


------------------------------------------------------------------------------
(***************************************************************************)
(* The composition of store, main and publishers implements the bus.       *)
(***************************************************************************)
LEMMA StepBus == [Next]_vars => [BusNext]_busVars
<1> SUFFICES ASSUME [Next]_vars PROVE [BusNext]_busVars
  OBVIOUS
<1> USE StoreAssumption
<1>1. CASE StartRun \/ Subscribed \/ LeaveBus \/ Return
  BY <1>1 DEF StartRun, Subscribed, LeaveBus, Return, BusNext
<1>2. CASE TakeEvent \/ DrainEvent
  BY <1>2 DEF TakeEvent, DrainEvent, BusNext
<1>3. CASE Tick \/ SeeCancel \/ Drained \/ TransactionLost \/ FlushNothing
  BY <1>3 DEF Tick, SeeCancel, Drained, TransactionLost, FlushNothing
<1>4. CASE \/ \E ok \in BOOLEAN : WriteLine(ok)
           \/ \E failed \in SUBSET ToSet(Pending) : Commit(failed)
  BY <1>4 DEF WriteLine, Commit
<1>5. CASE MainStep \/ Signal
  BY <1>5 DEF MainStep, WaitRun, CloseHandles, Exit, Signal
<1>6. ASSUME NEW p \in Producers, GoroutineStep(p)
      PROVE  BusNext
  BY <1>6 DEF GoroutineStep, BusNext
<1>7. CASE UNCHANGED vars
  BY <1>7 DEF vars
<1> QED
  BY <1>1, <1>2, <1>3, <1>4, <1>5, <1>6, <1>7 DEF Next, RunStep

\* The store, main and all that publish use the bus as it is meant to be used: every theorem
\* about the bus holds of the whole.
THEOREM StoreImplementsBus == Spec => BusSpec
<1>1. Init => BusInit
  BY DEF Init
<1> QED
  BY <1>1, StepBus, PTL DEF Spec, BusSpec

------------------------------------------------------------------------------
(***************************************************************************)
(* The channel: the first event of a producer precedes those of the        *)
(* producers that it starts.                                               *)
(***************************************************************************)
\* What has published was started: its starter has returned from its first Publish.
StartedInv ==
  \A p \in Producers : sent[p] >= 1 => Started(p)

\* In the channel of the store.
FirstFirst ==
  \A i, j \in 1..Len(log[store]) :
    LET p == log[store][j][1]
    IN Starter[p] # p /\ log[store][i] = <<Starter[p], 1>> => i < j

StartInv == StartedInv /\ FirstFirst

\* Whoever was started stays so.
LEMMA StaysStarted ==
  ASSUME BusTypeOK, [Next]_vars, NEW p \in Producers, Started(p)
  PROVE  Started(p)'
<1> USE StoreAssumption, BusAssumption DEF Started
<1>1. Starter[p] \in Producers /\ \A q \in Producers : sent[q] \in Nat
  BY DEF BusTypeOK
<1>2. [BusNext]_busVars
  BY StepBus
<1>3. CASE Starter[p] = p
  BY <1>3
<1>4. ASSUME NEW q \in Producers, BeginPublish(q), Starter[p] # p
      PROVE  Started(p)'
  <2>1. /\ sent' = [sent EXCEPT ![q] = @ + 1] /\ publishing' = publishing \union {q}
        /\ sent \in [Producers -> 0..MaxEvents]
    BY <1>4 DEF BeginPublish, BusTypeOK
  <2>2. CASE q = Starter[p]
    <3>1. sent'[Starter[p]] = sent[Starter[p]] + 1 /\ sent[Starter[p]] >= 1
      BY <1>1, <1>4, <2>1, <2>2
    <3> QED BY <1>1, <3>1
  <2>3. CASE q # Starter[p]
    BY <1>1, <1>4, <2>1, <2>3
  <2> QED BY <2>2, <2>3
<1>5. ASSUME sent' = sent, publishing' \subseteq publishing
      PROVE  Started(p)'
  BY <1>5
<1>6. ASSUME NEW q \in Producers, PublishStep(q)
      PROVE  sent' = sent /\ publishing' \subseteq publishing
  BY <1>6 DEF PublishStep, Enqueue, Drop, EndPublish
<1>7. ASSUME NEW s \in Subscribers,
             \/ Receive(s) \/ CallSubscribe(s) \/ Subscribe(s) \/ CallUnsubscribe(s)
             \/ Unsubscribe(s)
      PROVE  sent' = sent /\ publishing' \subseteq publishing
  BY <1>7 DEF Receive, CallSubscribe, Subscribe, CallUnsubscribe, Unsubscribe
<1>8. CASE UNCHANGED busVars
  BY <1>5, <1>8 DEF busVars
<1> QED
  BY <1>2, <1>3, <1>4, <1>5, <1>6, <1>7, <1>8 DEF BusNext

\* Only a goroutine that was started begins a Publish.
LEMMA Begins ==
  ASSUME [Next]_vars, NEW p \in Producers, BusTypeOK, sent'[p] # sent[p]
  PROVE  Started(p)
<1> USE StoreAssumption
<1>1. CASE StartRun \/ Subscribed \/ LeaveBus \/ Return
  BY <1>1 DEF StartRun, Subscribed, LeaveBus, Return, CallSubscribe, Subscribe, CallUnsubscribe,
     Unsubscribe
<1>2. CASE TakeEvent \/ DrainEvent
  BY <1>2 DEF TakeEvent, DrainEvent, Receive
<1>3. CASE Tick \/ SeeCancel \/ Drained \/ TransactionLost \/ FlushNothing
  BY <1>3 DEF Tick, SeeCancel, Drained, TransactionLost, FlushNothing, busVars
<1>4. CASE \/ \E ok \in BOOLEAN : WriteLine(ok)
           \/ \E failed \in SUBSET ToSet(Pending) : Commit(failed)
  BY <1>4 DEF WriteLine, Commit, busVars
<1>5. CASE MainStep \/ Signal
  BY <1>5 DEF MainStep, WaitRun, CloseHandles, Exit, Signal, busVars
<1>6. ASSUME NEW q \in Producers, GoroutineStep(q)
      PROVE  Started(p)
  <2>1. CASE PublishStep(q)
    BY <2>1 DEF PublishStep, Enqueue, Drop, EndPublish
  <2>2. CASE Started(q) /\ BeginPublish(q)
    <3>1. q = p
      BY <2>2 DEF BeginPublish, BusTypeOK
    <3> QED BY <2>2, <3>1
  <2> QED BY <1>6, <2>1, <2>2 DEF GoroutineStep
<1>7. CASE UNCHANGED vars
  BY <1>7 DEF vars, busVars
<1> QED
  BY <1>1, <1>2, <1>3, <1>4, <1>5, <1>6, <1>7 DEF Next, RunStep

LEMMA StepStarted ==
  ASSUME BusInv, StartedInv, [Next]_vars
  PROVE  StartedInv'
<1> SUFFICES ASSUME NEW p \in Producers, sent'[p] >= 1
             PROVE  Started(p)'
  BY DEF StartedInv
<1>1. BusTypeOK
  BY DEF BusInv
<1>2. Started(p)
  BY <1>1, Begins DEF StartedInv
<1> QED
  BY <1>1, <1>2, StaysStarted

\* A first event that arrives comes before everything of the producers started after it:
\* while it is being published they have not begun.
LEMMA FirstArrives ==
  ASSUME BusInv, StartInv, NEW p \in Producers, Enqueue(p, store)
  PROVE  FirstFirst'
<1> USE StoreAssumption, BusAssumption
<1> DEFINE l == Len(log[store])
<1>1. BusTypeOK
  BY DEF BusInv
<1>2. /\ l \in Nat /\ Len(log'[store]) = l + 1
      /\ \A i \in 1..l : log'[store][i] = log[store][i]
      /\ log'[store][l + 1] = <<p, sent[p]>>
  BY <1>1, EnqueueLog
<1>3. \A i \in 1..l : log[store][i][1] \in Producers
  BY <1>1, LogEvents
<1> SUFFICES ASSUME NEW i \in 1..(l + 1), NEW j \in 1..(l + 1),
                    Starter[log'[store][j][1]] # log'[store][j][1],
                    log'[store][i] = <<Starter[log'[store][j][1]], 1>>
             PROVE  i < j
  BY <1>2 DEF FirstFirst
<1>4. CASE i \in 1..l /\ j \in 1..l
  BY <1>2, <1>4 DEF StartInv, FirstFirst
<1>5. CASE i \in 1..l /\ j = l + 1
  BY <1>2, <1>5
<1>6. CASE i = l + 1 /\ j = l + 1
  BY <1>2, <1>6
<1>7. CASE i = l + 1 /\ j \in 1..l
  <2> DEFINE q == log[store][j][1]
  <2>1. q \in Producers /\ log'[store][j] = log[store][j]
    BY <1>2, <1>3, <1>7
  <2>2. p = Starter[q] /\ sent[p] = 1 /\ Starter[q] # q
    BY <1>2, <1>7, <2>1
  <2>3. sent[q] >= 1
    <3>1. log[store][j][2] <= sent[q] /\ sent[q] \in Nat
      BY <1>1, <1>7, <2>1 DEF BusInv, BehindInv, BusTypeOK
    <3>2. log[store][j] \in Event
      BY <1>1, <1>7 DEF BusTypeOK
    <3> QED BY <3>1, <3>2 DEF Event
  <2>4. p \in publishing
    BY DEF Enqueue
  <2> QED BY <2>1, <2>2, <2>3, <2>4 DEF StartInv, StartedInv, Started
<1> QED
  BY <1>2, <1>4, <1>5, <1>6, <1>7

LEMMA StepFirst ==
  ASSUME BusInv, StartInv, [BusNext]_busVars
  PROVE  FirstFirst'
<1> USE StoreAssumption
<1>1. ASSUME log'[store] = log[store]
      PROVE  FirstFirst'
  BY <1>1 DEF StartInv, FirstFirst
<1>2. ASSUME NEW p \in Producers, NEW s \in Subscribers, Enqueue(p, s)
      PROVE  FirstFirst'
  <2>1. CASE s = store
    BY <1>2, <2>1, FirstArrives
  <2>2. CASE s # store
    BY <1>1, <1>2, <2>2, EnqueueLog DEF BusInv
  <2> QED BY <2>1, <2>2
<1>3. ASSUME ~ \E p \in Producers, s \in Subscribers : Enqueue(p, s)
      PROVE  log' = log
  BY <1>3 DEF BusNext, PublishStep, busVars, CallSubscribe, Subscribe, CallUnsubscribe, Unsubscribe,
              Receive, BeginPublish, Drop, EndPublish
<1> QED
  BY <1>1, <1>2, <1>3

LEMMA StartInvariant == Spec => [](BusInv /\ StartInv)
<1>1. Init => StartInv
  BY StoreAssumption DEF Init, BusInit, StartInv, StartedInv, FirstFirst
<1>2. BusInv /\ StartInv /\ [Next]_vars => StartInv'
  BY StepBus, StepStarted, StepFirst DEF StartInv
<1> QED
  BY <1>1, <1>2, StoreImplementsBus, BusInvariant, PTL DEF Spec

------------------------------------------------------------------------------
(***************************************************************************)
(* The file.                                                               *)
(***************************************************************************)
\* How far the file has come in the channel.
Reached == flushed + written

CountsInv ==
  /\ flushed \in Nat /\ written \in Nat
  /\ Reached <= taken[store]

\* Pending is a piece of the channel.
LEMMA SliceAt ==
  ASSUME NEW S, NEW q \in Seq(S), NEW m \in Nat, NEW n \in Nat, m <= n, n <= Len(q)
  PROVE  /\ SubSeq(q, m + 1, n) \in Seq(S)
         /\ Len(SubSeq(q, m + 1, n)) = n - m
         /\ \A i \in 1..(n - m) : SubSeq(q, m + 1, n)[i] = q[m + i]
OBVIOUS

LEMMA PendingSlice ==
  ASSUME BusInv, CountsInv
  PROVE  /\ log[store] \in Seq(Event)
         /\ taken[store] \in Nat /\ taken[store] <= Len(log[store])
         /\ flushed \in Nat /\ written \in Nat /\ flushed + written <= taken[store]
         /\ Pending \in Seq(Event) /\ Len(Pending) \in Nat
         /\ Len(Pending) = taken[store] - flushed
         /\ DOMAIN Pending = 1..Len(Pending)
         /\ \A i \in 1..Len(Pending) : Pending[i] = log[store][flushed + i]
<1>1. /\ log[store] \in Seq(Event)
      /\ taken[store] \in Nat /\ taken[store] <= Len(log[store])
  BY StoreAssumption, BusAssumption DEF BusInv, BusTypeOK, Backlog
<1>2. /\ flushed \in Nat /\ written \in Nat /\ flushed + written <= taken[store]
      /\ flushed <= taken[store]
  BY <1>1 DEF CountsInv, Reached
<1>3. /\ Pending \in Seq(Event) /\ Len(Pending) = taken[store] - flushed
      /\ \A i \in 1..(taken[store] - flushed) : Pending[i] = log[store][flushed + i]
  <2> DEFINE q == log[store]
             n == taken[store]
  <2>1. q \in Seq(Event) /\ flushed \in Nat /\ n \in Nat /\ flushed <= n /\ n <= Len(q)
    BY <1>1, <1>2
  <2>2. Pending = SubSeq(q, flushed + 1, n)
    BY DEF Pending
  <2> HIDE DEF q, n
  <2>3. /\ SubSeq(q, flushed + 1, n) \in Seq(Event) /\ Len(SubSeq(q, flushed + 1, n)) = n - flushed
        /\ \A i \in 1..(n - flushed) : SubSeq(q, flushed + 1, n)[i] = q[flushed + i]
    BY <2>1, SliceAt
  <2> QED
    BY <2>2, <2>3, Zenon DEF q, n
<1> QED
  BY <1>1, <1>2, <1>3

\* Every line is an event of the channel up to there, and every event up to there is a line
\* or counted as unwritten.
LinesInv ==
  /\ jsonl \in Seq(Event)
  /\ \A i \in 1..Len(jsonl) : \E k \in 1..Reached : jsonl[i] = log[store][k]
  /\ \A k \in 1..Reached : log[store][k] \in ToSet(jsonl) \union unwritten

StoreInv == CountsInv /\ LinesInv /\ FileOrder /\ TablesBehindFile

\* The channel as far as it was received does not change.
LEMMA ReceivedStays ==
  ASSUME BusInv, [BusNext]_busVars
  PROVE  /\ taken[store] \in Nat /\ taken'[store] \in Nat
         /\ taken[store] <= Len(log[store])
         /\ taken[store] <= taken'[store]
         /\ \A k \in 1..taken[store] : log'[store][k] = log[store][k]
<1> USE StoreAssumption, BusAssumption
<1>1. taken[store] \in Nat /\ log[store] \in Seq(Event) /\ taken[store] <= Len(log[store])
  BY DEF BusInv, BusTypeOK, Backlog
<1>2. ASSUME NEW p \in Producers, NEW s \in Subscribers, Enqueue(p, s)
      PROVE  taken' = taken /\ \A k \in 1..Len(log[store]) : log'[store][k] = log[store][k]
  <2>1. BusTypeOK
    BY DEF BusInv
  <2> QED
    BY <1>2, <2>1, EnqueueLog DEF Enqueue
<1>3. ASSUME NEW s \in Subscribers, Receive(s)
      PROVE  log' = log /\ taken'[store] \in Nat /\ taken[store] <= taken'[store]
  BY <1>1, <1>3 DEF Receive, BusInv, BusTypeOK
<1>4. ASSUME NEW s \in Subscribers, CallSubscribe(s) \/ Subscribe(s) \/ CallUnsubscribe(s) \/ Unsubscribe(s)
      PROVE  log' = log /\ taken' = taken
  BY <1>4 DEF CallSubscribe, Subscribe, CallUnsubscribe, Unsubscribe
<1>5. ASSUME NEW p \in Producers, BeginPublish(p) \/ EndPublish(p) \/ \E s \in Subscribers : Drop(p, s)
      PROVE  log' = log /\ taken' = taken
  BY <1>5 DEF BeginPublish, EndPublish, Drop
<1>6. CASE UNCHANGED busVars
  BY <1>1, <1>6 DEF busVars
<1> QED
  BY <1>1, <1>2, <1>3, <1>4, <1>5, <1>6 DEF BusNext, PublishStep

\* A step that leaves the store's files and counters alone.
LEMMA FrameInv ==
  ASSUME BusInv, StoreInv, [BusNext]_busVars,
         UNCHANGED <<flushed, written, jsonl, unwritten, applied>>
  PROVE  StoreInv'
<1> USE DEF StoreInv
<1>1. CountsInv'
  BY ReceivedStays DEF CountsInv, Reached
<1>2. Reached' = Reached /\ Reached \in Nat /\ Reached <= taken[store]
  BY DEF CountsInv, Reached
<1>3. \A k \in 1..Reached : log'[store][k] = log[store][k]
  BY <1>2, ReceivedStays
<1>4. LinesInv'
  BY <1>2, <1>3 DEF LinesInv
<1>5. FileOrder' /\ TablesBehindFile'
  BY DEF FileOrder, EachInOrder, StarterFirst, TablesBehindFile
<1> QED
  BY <1>1, <1>4, <1>5

LEMMA LineInv ==
  ASSUME BusInv, FirstFirst, StoreInv, NEW ok \in BOOLEAN, WriteLine(ok)
  PROVE  StoreInv'
<1> USE DEF StoreInv
<1> DEFINE e == log[store][Reached + 1]
<1>1. flushed' = flushed /\ written' = written + 1 /\ UNCHANGED busVars /\ applied' = applied
  BY DEF WriteLine, tableVars
<1>2. Reached \in Nat /\ Reached' = Reached + 1 /\ Reached < taken[store] /\ taken[store] \in Nat
  <2>1. taken[store] \in Nat
    BY StoreAssumption DEF BusInv, BusTypeOK
  <2>2. written # taken[store] - flushed
    BY DEF WriteLine, WriteDone
  <2> QED
    BY <1>1, <2>1, <2>2 DEF CountsInv, Reached
<1>3. log' = log /\ taken' = taken
  BY <1>1 DEF busVars
<1>4. CountsInv'
  BY <1>1, <1>2, <1>3 DEF CountsInv, Reached
<1>5. Reached + 1 \in 1..Len(log[store]) /\ e \in Event
  <2>1. log[store] \in Seq(Event) /\ taken[store] \in Nat /\ taken[store] <= Len(log[store])
    BY StoreAssumption, BusAssumption DEF BusInv, BusTypeOK, Backlog
  <2> QED
    BY <1>2, <2>1
<1>6. CASE ok
  <2>1. jsonl' = Append(jsonl, e) /\ unwritten' = unwritten
    BY <1>6 DEF WriteLine, Reached
  <2>2. jsonl' \in Seq(Event) /\ Len(jsonl) \in Nat /\ Len(jsonl') = Len(jsonl) + 1
    BY <1>5, <2>1 DEF LinesInv
  <2>3. jsonl'[Len(jsonl) + 1] = e /\ \A i \in 1..Len(jsonl) : jsonl'[i] = jsonl[i]
    BY <1>5, <2>1 DEF LinesInv
  <2>4. ToSet(jsonl') = ToSet(jsonl) \union {e}
    <3>1. DOMAIN jsonl = 1..Len(jsonl) /\ DOMAIN jsonl' = 1..(Len(jsonl) + 1)
      BY <2>2 DEF LinesInv
    <3>2. 1..(Len(jsonl) + 1) = 1..Len(jsonl) \union {Len(jsonl) + 1}
      BY <2>2
    <3> QED
      BY <2>3, <3>1, <3>2 DEF ToSet
  <2>5. ASSUME NEW i \in 1..Len(jsonl')
        PROVE  \E k \in 1..Reached' : jsonl'[i] = log'[store][k]
    <3>1. CASE i = Len(jsonl) + 1
      <4>1. Reached + 1 \in 1..Reached'
        BY <1>2
      <4>2. jsonl'[i] = log'[store][Reached + 1]
        BY <1>3, <2>3, <3>1
      <4> QED
        BY <4>1, <4>2
    <3>2. CASE i \in 1..Len(jsonl)
      <4>1. PICK k \in 1..Reached : jsonl[i] = log[store][k]
        BY <3>2 DEF LinesInv
      <4>2. k \in 1..Reached'
        BY <1>2
      <4>3. jsonl'[i] = log'[store][k]
        BY <1>3, <2>3, <3>2, <4>1
      <4> QED
        BY <4>2, <4>3
    <3> QED
      BY <2>2, <3>1, <3>2
  <2>6. ASSUME NEW k \in 1..Reached'
        PROVE  log'[store][k] \in ToSet(jsonl') \union unwritten'
    <3>1. k = Reached + 1 \/ k \in 1..Reached
      BY <1>2
    <3> QED
      BY <1>3, <2>1, <2>4, <3>1 DEF LinesInv
  <2>7. ASSUME NEW i \in 1..Len(jsonl'), NEW j \in 1..Len(jsonl'), i < j,
               jsonl'[i][1] = jsonl'[j][1]
        PROVE  jsonl'[i][2] < jsonl'[j][2]
    <3>1. i \in 1..Len(jsonl)
      BY <2>2, <2>7
    <3>2. CASE j \in 1..Len(jsonl)
      BY <2>3, <2>7, <3>1, <3>2 DEF FileOrder, EachInOrder
    <3>3. CASE j = Len(jsonl) + 1
      <4>1. PICK k \in 1..Reached : jsonl[i] = log[store][k]
        BY <3>1 DEF LinesInv
      <4>2. k \in 1..Len(log[store]) /\ k < Reached + 1
        BY <1>2, <1>5
      <4>3. log[store][k][1] = e[1]
        BY <2>3, <2>7, <3>1, <3>3, <4>1
      <4>4. log[store][k][2] < e[2]
        BY <1>5, <4>2, <4>3, StoreAssumption DEF BusInv, ProducerOrder
      <4> QED
        BY <2>3, <3>1, <3>3, <4>1, <4>4
    <3> QED
      BY <2>2, <3>2, <3>3
  <2>8. ASSUME NEW i \in 1..Len(jsonl'), NEW j \in 1..Len(jsonl'),
               Starter[jsonl'[j][1]] # jsonl'[j][1], jsonl'[i] = <<Starter[jsonl'[j][1]], 1>>
        PROVE  i < j
    <3>1. CASE i \in 1..Len(jsonl) /\ j \in 1..Len(jsonl)
      BY <2>3, <2>8, <3>1 DEF FileOrder, StarterFirst
    <3>2. CASE i \in 1..Len(jsonl) /\ j = Len(jsonl) + 1
      BY <2>2, <3>2
    <3>3. CASE i = Len(jsonl) + 1 /\ j = Len(jsonl) + 1
      BY <2>3, <2>8, <3>3
    <3>4. CASE i = Len(jsonl) + 1 /\ j \in 1..Len(jsonl)
      <4>1. PICK k \in 1..Reached : jsonl[j] = log[store][k]
        BY <3>4 DEF LinesInv
      <4>2. k \in 1..Len(log[store]) /\ k < Reached + 1
        BY <1>2, <1>5
      <4>3. jsonl'[j] = log[store][k] /\ jsonl'[i] = log[store][Reached + 1]
        BY <2>3, <3>4, <4>1
      <4>4. Reached + 1 < k
        BY <1>5, <2>8, <4>2, <4>3 DEF FirstFirst
      <4> QED
        BY <1>2, <4>2, <4>4
    <3> QED
      BY <2>2, <3>1, <3>2, <3>3, <3>4
  <2>9. FileOrder'
    BY <2>7, <2>8 DEF FileOrder, EachInOrder, StarterFirst
  <2> QED
    BY <1>1, <1>4, <2>1, <2>2, <2>4, <2>5, <2>6, <2>9 DEF LinesInv, TablesBehindFile
<1>7. CASE ~ok
  <2>1. jsonl' = jsonl /\ unwritten' = unwritten \union {e}
    BY <1>7 DEF WriteLine, Reached
  <2>2. ASSUME NEW k \in 1..Reached'
        PROVE  log'[store][k] \in ToSet(jsonl') \union unwritten'
    <3>1. k = Reached + 1 \/ k \in 1..Reached
      BY <1>2
    <3> QED
      BY <1>3, <2>1, <3>1 DEF LinesInv
  <2>3. \A k \in 1..Reached : k \in 1..Reached'
    BY <1>2
  <2>4. LinesInv'
    BY <1>3, <2>1, <2>2, <2>3 DEF LinesInv
  <2> QED
    BY <1>1, <1>4, <2>1, <2>4 DEF FileOrder, EachInOrder, StarterFirst, TablesBehindFile
<1> QED
  BY <1>6, <1>7

\* A flush ends: pending is empty, and the file has come as far as the channel was received.
LEMMA FlushEndInv ==
  ASSUME BusInv, StoreInv, UNCHANGED <<jsonl, unwritten, busVars>>, WriteDone, EndFlush,
         applied' \subseteq applied \union ToSet(Pending)
  PROVE  StoreInv'
<1> USE DEF StoreInv
<1>1. log' = log /\ taken' = taken
  BY DEF busVars
<1>2. taken[store] \in Nat /\ log[store] \in Seq(Event) /\ taken[store] <= Len(log[store])
  BY StoreAssumption, BusAssumption DEF BusInv, BusTypeOK, Backlog
<1>3. Reached = taken[store] /\ Reached' = Reached
  BY <1>1, <1>2 DEF CountsInv, Reached, EndFlush, WriteDone
<1>4. CountsInv'
  BY <1>1, <1>2, <1>3 DEF CountsInv, EndFlush
<1>5. LinesInv' /\ FileOrder'
  BY <1>1, <1>3 DEF LinesInv, FileOrder, EachInOrder, StarterFirst
<1>6. ToSet(Pending) \subseteq ToSet(jsonl) \union unwritten
  <2>1. ASSUME NEW x \in ToSet(Pending)
        PROVE  \E k \in 1..Reached : x = log[store][k]
    <3>1. /\ Len(Pending) = taken[store] - flushed
          /\ Len(Pending) \in Nat
          /\ DOMAIN Pending = 1..Len(Pending)
          /\ \A i \in 1..Len(Pending) : Pending[i] = log[store][flushed + i]
      BY PendingSlice
    <3>2. PICK i \in 1..Len(Pending) : x = Pending[i]
      BY <2>1, <3>1 DEF ToSet
    <3>3. flushed + i \in 1..Reached
      BY <1>2, <1>3, <3>1 DEF CountsInv
    <3> QED
      BY <3>1, <3>2, <3>3
  <2> QED
    BY <2>1 DEF LinesInv
<1>7. TablesBehindFile'
  BY <1>6 DEF TablesBehindFile
<1> QED
  BY <1>4, <1>5, <1>7

LEMMA StepStore ==
  ASSUME BusInv, FirstFirst, StoreInv, [Next]_vars
  PROVE  StoreInv'
<1>1. [BusNext]_busVars
  BY StepBus
<1>2. ASSUME NEW ok \in BOOLEAN, WriteLine(ok)
      PROVE  StoreInv'
  BY <1>2, LineInv
<1>3. ASSUME NEW failed \in SUBSET ToSet(Pending), Commit(failed)
      PROVE  StoreInv'
  <2>1. applied' = applied \union (ToSet(Pending) \ failed)
    BY <1>3 DEF Commit
  <2>2. WriteDone /\ EndFlush /\ UNCHANGED <<jsonl, unwritten, busVars>>
    BY <1>3 DEF Commit, fileVars
  <2> QED
    BY <2>1, <2>2, FlushEndInv
<1>4. ASSUME TransactionLost
      PROVE  StoreInv'
  <2>1. WriteDone /\ EndFlush /\ UNCHANGED <<jsonl, unwritten, applied, busVars>>
    BY <1>4 DEF TransactionLost, fileVars
  <2> QED
    BY <2>1, FlushEndInv
<1>5. ASSUME UNCHANGED <<flushed, written, jsonl, unwritten, applied>>
      PROVE  StoreInv'
  BY <1>1, <1>5, FrameInv
<1>6. CASE \/ StartRun \/ Subscribed \/ TakeEvent \/ Tick \/ SeeCancel \/ DrainEvent \/ Drained
           \/ FlushNothing \/ LeaveBus \/ Return
  BY <1>5, <1>6 DEF StartRun, Subscribed, TakeEvent, Tick, SeeCancel, DrainEvent, Drained,
     FlushNothing, LeaveBus, Return, storeVars, batchVars, fileVars, tableVars
<1>7. CASE MainStep \/ Signal
  BY <1>5, <1>7 DEF MainStep, WaitRun, CloseHandles, Exit, Signal, batchVars, fileVars, tableVars
<1>8. CASE \/ \E p \in Producers : GoroutineStep(p)
           \/ UNCHANGED vars
  BY <1>5, <1>8 DEF GoroutineStep, vars, storeVars, batchVars, fileVars, tableVars
<1> QED
  BY <1>2, <1>3, <1>4, <1>6, <1>7, <1>8 DEF Next, RunStep

LEMMA StoreInvariant == Spec => []StoreInv
<1>1. Init => StoreInv
  <2> SUFFICES ASSUME Init PROVE StoreInv
    OBVIOUS
  <2>1. CountsInv
    BY StoreAssumption DEF Init, BusInit, CountsInv, Reached
  <2>2. LinesInv
    BY DEF Init, LinesInv, Reached
  <2>3. FileOrder /\ TablesBehindFile
    BY DEF Init, FileOrder, EachInOrder, StarterFirst, TablesBehindFile
  <2> QED
    BY <2>1, <2>2, <2>3 DEF StoreInv
<1>2. BusInv /\ StartInv /\ StoreInv /\ [Next]_vars => StoreInv'
  BY StepStore DEF StartInv
<1> QED
  BY <1>1, <1>2, StartInvariant, PTL DEF Spec

------------------------------------------------------------------------------
\* The JSONL files hold the events of each goroutine in their order and none twice, and the
\* first of each before those of the goroutines that it starts, whatever the batches, the
\* failures and the moment of the shutdown.
THEOREM FileInOrder == Spec => []FileOrder
<1>1. StoreInv => FileOrder
  BY DEF StoreInv
<1> QED
  BY <1>1, StoreInvariant, PTL

\* Whenever the process is killed, what is in the tables has its line in the file, or the
\* writing of that line had failed.
THEOREM FileBeforeTables == Spec => []TablesBehindFile
<1>1. StoreInv => TablesBehindFile
  BY DEF StoreInv
<1> QED
  BY <1>1, StoreInvariant, PTL

------------------------------------------------------------------------------
(***************************************************************************)
(* The shutdown.  Run leaves its loop only when it has taken, and then     *)
(* flushed, what was in the channel when it saw the cancellation.          *)
(***************************************************************************)
Leaving == run \in {"leave", "unsubscribe", "returned"}

\* What has left pending went through a transaction, which took it or failed.
AppliedInv == \A k \in 1..flushed : log[store][k] \in applied \union skipped

DueInv ==
  /\ due \in Nat /\ due <= Len(log[store])
  /\ run = "flush" /\ back = "leave" => due <= taken[store]
  /\ Leaving => due <= flushed

WaitInv ==
  /\ run \in {"start", "subscribe", "select", "flush", "drain"} \/ Leaving
  /\ back \in {"select", "leave"}
  /\ wg = IF run \in {"start", "returned"} THEN 0 ELSE 1
  /\ raced \in BOOLEAN
  /\ main \in {"waited", "closed", "exited"} /\ ~raced => run = "returned"
  /\ main \in {"serving", "cancelled", "waited", "closed", "exited"}

DrainInv == AppliedInv /\ DueInv /\ WaitInv

\* The channel only grows.
LEMMA LogGrows ==
  ASSUME BusInv, [BusNext]_busVars
  PROVE  /\ Len(log[store]) \in Nat /\ Len(log'[store]) \in Nat
         /\ Len(log[store]) <= Len(log'[store])
<1> USE StoreAssumption, BusAssumption
<1>1. log[store] \in Seq(Event) /\ Len(log[store]) \in Nat
  BY DEF BusInv, BusTypeOK
<1>2. ASSUME NEW p \in Producers, NEW s \in Subscribers, Enqueue(p, s)
      PROVE  log'[store] = log[store] \/ Len(log'[store]) = Len(log[store]) + 1
  <2>1. BusTypeOK
    BY DEF BusInv
  <2>2. log' = [log EXCEPT ![s] = Append(@, <<p, sent[p]>>)]
    BY <1>2 DEF Enqueue
  <2>3. CASE s # store
    BY <2>1, <2>2, <2>3 DEF BusTypeOK
  <2>4. CASE s = store
    <3>1. log'[store] = Append(log[store], <<p, sent[p]>>)
      BY <2>1, <2>2, <2>4 DEF BusTypeOK
    <3> QED
      BY <1>1, <3>1
  <2> QED
    BY <2>3, <2>4
<1>3. ASSUME NEW s \in Subscribers,
             \/ Receive(s) \/ CallSubscribe(s) \/ Subscribe(s) \/ CallUnsubscribe(s)
             \/ Unsubscribe(s)
      PROVE  log' = log
  BY <1>3 DEF Receive, CallSubscribe, Subscribe, CallUnsubscribe, Unsubscribe
<1>4. ASSUME NEW p \in Producers, BeginPublish(p) \/ EndPublish(p) \/ \E s \in Subscribers : Drop(p, s)
      PROVE  log' = log
  BY <1>4 DEF BeginPublish, EndPublish, Drop
<1>5. CASE UNCHANGED busVars
  BY <1>1, <1>5 DEF busVars
<1> QED
  BY <1>1, <1>2, <1>3, <1>4, <1>5 DEF BusNext, PublishStep

\* A step that ends no flush.
LEMMA AppliedFrame ==
  ASSUME BusInv, StoreInv, AppliedInv, [BusNext]_busVars, UNCHANGED <<flushed, applied, skipped>>
  PROVE  AppliedInv'
<1>1. flushed \in Nat /\ written \in Nat /\ flushed + written <= taken[store]
  BY DEF StoreInv, CountsInv, Reached
<1>2. taken[store] \in Nat /\ \A k \in 1..taken[store] : log'[store][k] = log[store][k]
  BY ReceivedStays
<1>3. \A k \in 1..flushed : k \in 1..taken[store]
  BY <1>1, <1>2
<1> QED
  BY <1>2, <1>3 DEF AppliedInv

\* The end of a flush.
LEMMA AppliedFlush ==
  ASSUME BusInv, StoreInv, AppliedInv, UNCHANGED busVars, EndFlush,
         applied \union skipped \union ToSet(Pending) \subseteq applied' \union skipped'
  PROVE  AppliedInv'
<1>1. log' = log
  BY DEF busVars
<1>2. /\ taken[store] \in Nat /\ log[store] \in Seq(Event) /\ taken[store] <= Len(log[store])
  BY StoreAssumption, BusAssumption DEF BusInv, BusTypeOK, Backlog
<1>3. flushed \in Nat /\ flushed <= taken[store] /\ flushed' = taken[store]
  BY <1>2 DEF StoreInv, CountsInv, Reached, EndFlush
<1> SUFFICES ASSUME NEW k \in 1..taken[store]
             PROVE  log[store][k] \in applied' \union skipped'
  BY <1>1, <1>3 DEF AppliedInv
<1>4. CASE k <= flushed
  BY <1>3, <1>4 DEF AppliedInv
<1>5. CASE k > flushed
  <2>1. /\ Len(Pending) = taken[store] - flushed
        /\ DOMAIN Pending = 1..Len(Pending)
        /\ \A i \in 1..Len(Pending) : Pending[i] = log[store][flushed + i]
    BY PendingSlice DEF StoreInv
  <2>2. k - flushed \in 1..Len(Pending) /\ flushed + (k - flushed) = k
    BY <1>2, <1>3, <1>5, <2>1
  <2>3. log[store][k] \in ToSet(Pending)
    BY <2>1, <2>2 DEF ToSet
  <2> QED
    BY <2>3
<1> QED
  BY <1>2, <1>3, <1>4, <1>5

LEMMA StepApplied ==
  ASSUME BusInv, StoreInv, AppliedInv, [Next]_vars
  PROVE  AppliedInv'
<1>1. [BusNext]_busVars
  BY StepBus
<1>2. ASSUME NEW failed \in SUBSET ToSet(Pending), Commit(failed)
      PROVE  AppliedInv'
  <2>1. /\ applied' = applied \union (ToSet(Pending) \ failed)
        /\ skipped' = skipped \union failed /\ EndFlush /\ UNCHANGED busVars
    BY <1>2 DEF Commit
  <2> QED
    BY <2>1, AppliedFlush
<1>3. ASSUME TransactionLost
      PROVE  AppliedInv'
  <2>1. /\ applied' = applied /\ skipped' = skipped \union ToSet(Pending)
        /\ EndFlush /\ UNCHANGED busVars
    BY <1>3 DEF TransactionLost
  <2> QED
    BY <2>1, AppliedFlush
<1>4. ASSUME UNCHANGED <<flushed, applied, skipped>>
      PROVE  AppliedInv'
  BY <1>1, <1>4, AppliedFrame
<1>5. CASE \/ StartRun \/ Subscribed \/ TakeEvent \/ Tick \/ SeeCancel \/ DrainEvent \/ Drained
           \/ FlushNothing \/ LeaveBus \/ Return \/ \E ok \in BOOLEAN : WriteLine(ok)
  BY <1>4, <1>5 DEF StartRun, Subscribed, TakeEvent, Tick, SeeCancel, DrainEvent, Drained,
     FlushNothing, LeaveBus, Return, WriteLine, storeVars, batchVars, tableVars
<1>6. CASE MainStep \/ Signal
  BY <1>4, <1>6 DEF MainStep, WaitRun, CloseHandles, Exit, Signal, batchVars, tableVars
<1>7. CASE \/ \E p \in Producers : GoroutineStep(p)
           \/ UNCHANGED vars
  BY <1>4, <1>7 DEF GoroutineStep, vars, storeVars, batchVars, tableVars
<1> QED
  BY <1>2, <1>3, <1>5, <1>6, <1>7 DEF Next, RunStep

LEMMA StepWait ==
  ASSUME WaitInv, [Next]_vars
  PROVE  WaitInv'
<1> USE DEF WaitInv, Leaving
<1>1. CASE StartRun \/ Subscribed \/ Tick \/ SeeCancel \/ DrainEvent \/ Drained \/ FlushNothing
  BY <1>1 DEF StartRun, Subscribed, Tick, SeeCancel, DrainEvent, Drained, FlushNothing,
     mainVars, storeVars
<1>2. CASE TakeEvent
  BY <1>2 DEF TakeEvent, mainVars
<1>3. CASE LeaveBus \/ Return
  BY <1>3 DEF LeaveBus, Return, mainVars
<1>4. CASE \/ \E ok \in BOOLEAN : WriteLine(ok)
           \/ \E failed \in SUBSET ToSet(Pending) : Commit(failed)
           \/ TransactionLost
  BY <1>4 DEF WriteLine, Commit, TransactionLost, EndFlush, mainVars
<1>5. CASE WaitRun
  <2>1. UNCHANGED <<run, back, wg>> /\ wg = 0 /\ main' = "waited" /\ raced' = (run = "start")
    BY <1>5 DEF WaitRun
  <2>2. raced' \in BOOLEAN
    BY <2>1
  <2>3. ~raced' => run # "start"
    BY <2>1
  <2>4. run = "start" \/ run = "returned"
    BY <2>1
  <2> QED
    BY <2>1, <2>2, <2>3, <2>4
<1>6. CASE \/ CloseHandles \/ Exit \/ Signal \/ \E p \in Producers : GoroutineStep(p)
           \/ UNCHANGED vars
  BY <1>6 DEF CloseHandles, Exit, Signal, GoroutineStep, vars, storeVars, mainVars
<1> QED
  BY <1>1, <1>2, <1>3, <1>4, <1>5, <1>6 DEF Next, RunStep, MainStep

LEMMA StepDue ==
  ASSUME BusInv, StoreInv, DueInv, WaitInv, [Next]_vars
  PROVE  DueInv'
<1>1. [BusNext]_busVars
  BY StepBus
<1>2. /\ Len(log[store]) \in Nat /\ Len(log'[store]) \in Nat
      /\ Len(log[store]) <= Len(log'[store])
  BY <1>1, LogGrows
<1>3. /\ taken[store] \in Nat /\ taken'[store] \in Nat
      /\ taken[store] <= Len(log[store]) /\ taken[store] <= taken'[store]
  BY <1>1, ReceivedStays
<1>4. flushed \in Nat /\ flushed <= taken[store]
  BY <1>3 DEF StoreInv, CountsInv, Reached
<1> USE <1>2, <1>3, <1>4 DEF DueInv, Leaving
<1>5. CASE SeeCancel
  <2>1. due' = Len(log[store]) /\ run' = "drain"
    BY <1>5 DEF SeeCancel
  <2> QED
    BY <2>1
<1>6. CASE Drained
  <2>1. Len(log[store]) = taken[store] /\ due' = due /\ run' = "flush"
    BY <1>6 DEF Drained, Backlog
  <2> QED
    BY <2>1
<1>7. CASE \/ \E failed \in SUBSET ToSet(Pending) : Commit(failed)
           \/ TransactionLost
  <2>1. flushed' = taken[store] /\ due' = due /\ run = "flush" /\ run' = back /\ back' = back
    BY <1>7 DEF Commit, TransactionLost, EndFlush
  <2> QED
    BY <2>1 DEF WaitInv
<1>8. CASE FlushNothing
  <2>1. UNCHANGED <<flushed, due, back>> /\ run = "flush" /\ run' = back
    BY <1>8 DEF FlushNothing, batchVars
  <2>2. flushed = taken[store]
    <3>1. log[store] \in Seq(Event)
      BY StoreAssumption, BusAssumption DEF BusInv, BusTypeOK
    <3>2. Len(Pending) = taken[store] - flushed
      BY <3>1 DEF Pending
    <3>3. Pending = <<>>
      BY <1>8 DEF FlushNothing
    <3> QED
      BY <3>2, <3>3
  <2> QED
    BY <2>1, <2>2 DEF WaitInv
<1>9. CASE \/ StartRun \/ Subscribed \/ TakeEvent \/ Tick \/ DrainEvent
           \/ LeaveBus \/ Return \/ \E ok \in BOOLEAN : WriteLine(ok)
  <2>1. UNCHANGED <<flushed, due>>
    BY <1>9 DEF StartRun, Subscribed, TakeEvent, Tick, DrainEvent, LeaveBus, Return, WriteLine,
       batchVars, storeVars
  <2>2. \/ UNCHANGED <<run, back>>
        \/ run' \notin {"leave", "unsubscribe", "returned"} /\ ~(run' = "flush" /\ back' = "leave")
        \/ Leaving /\ run' # "flush"
    BY <1>9 DEF StartRun, Subscribed, TakeEvent, Tick, DrainEvent, LeaveBus, Return, WriteLine,
       storeVars
  <2> QED
    BY <2>1, <2>2
<1>10. CASE \/ MainStep \/ Signal \/ \E p \in Producers : GoroutineStep(p)
            \/ UNCHANGED vars
  <2>1. UNCHANGED <<flushed, due, run, back>>
    BY <1>10 DEF MainStep, WaitRun, CloseHandles, Exit, Signal, GoroutineStep, vars, storeVars,
       batchVars
  <2> QED
    BY <2>1
<1> QED
  BY <1>5, <1>6, <1>7, <1>8, <1>9, <1>10 DEF Next, RunStep

LEMMA DrainInvariant == Spec => [](StoreInv /\ DrainInv)
<1>1. Init => DrainInv
  <2> SUFFICES ASSUME Init PROVE DrainInv
    OBVIOUS
  <2>1. log[store] = <<>>
    BY StoreAssumption DEF Init, BusInit
  <2>2. raced \in BOOLEAN /\ main = "serving" /\ run = "start" /\ back = "select" /\ wg = 0
        /\ due = 0 /\ flushed = 0
    BY DEF Init
  <2> QED
    BY <2>1, <2>2 DEF DrainInv, AppliedInv, DueInv, WaitInv, Leaving
<1>2. BusInv /\ StoreInv /\ DrainInv /\ [Next]_vars => DrainInv'
  BY StepApplied, StepDue, StepWait DEF DrainInv
<1> QED
  BY <1>1, <1>2, StoreInvariant, StoreImplementsBus, BusInvariant, PTL DEF Spec

\* When st.Close has stopped waiting, Run has returned and every event that was in the
\* channel when it saw the cancellation is in the file and in the tables, or its writing had
\* failed there; unless the shutdown came before Run had registered.
THEOREM ShutdownSaves == Spec => []ShutdownDrains
<1>1. ASSUME StoreInv, DrainInv PROVE ShutdownDrains
  <2> SUFFICES ASSUME main \in {"waited", "closed", "exited"}, ~raced
               PROVE  run = "returned" /\ \A i \in 1..due : Settled(log[store][i])
    BY DEF ShutdownDrains
  <2>1. run = "returned"
    BY <1>1 DEF DrainInv, WaitInv
  <2>2. due \in Nat /\ due <= flushed /\ flushed \in Nat /\ written \in Nat
    BY <1>1, <2>1 DEF DrainInv, DueInv, Leaving, StoreInv, CountsInv
  <2>3. ASSUME NEW i \in 1..due PROVE Settled(log[store][i])
    <3>1. i \in 1..flushed /\ i \in 1..Reached
      BY <2>2 DEF Reached
    <3> QED
      BY <1>1, <3>1 DEF DrainInv, AppliedInv, StoreInv, LinesInv, Settled
  <2> QED
    BY <2>1, <2>3
<1>2. StoreInv /\ DrainInv => ShutdownDrains
  BY <1>1
<1> QED
  BY <1>2, DrainInvariant, PTL

------------------------------------------------------------------------------
(***************************************************************************)
(* The tables.  A batch is applied event by event, and what has gone into  *)
(* the tables lies before it in the channel.                               *)
(***************************************************************************)
\* Induction on the naturals, for a set.
LEMMA Induction ==
  ASSUME NEW X, 0 \in X, \A i \in Nat : i \in X => i + 1 \in X
  PROVE  \A i \in Nat : i \in X
<1> DEFINE Y == Nat \ X
<1> SUFFICES ASSUME Y # {} PROVE FALSE
  OBVIOUS
<1>1. PICK m \in Y : \A y \in Y : ~ <<y, m>> \in OpToRel(<, Nat)
  <2>1. Y \subseteq Nat
    OBVIOUS
  <2> HIDE DEF Y
  <2> QED BY <2>1, NatLessThanWellFounded, WFMin
<1>2. \A y \in Y : ~ y < m
  BY <1>1 DEF OpToRel
<1>3. m - 1 \in Nat /\ m - 1 \in X /\ (m - 1) + 1 = m
  BY <1>2
<1> QED BY <1>3

Execute(batch, failed, t, i) ==
  IF batch[i] \in failed THEN t ELSE Statement(t, batch[i])

\* The loop over a batch as an iteration.
LEMMA ExecutedLoop ==
  ASSUME NEW batch \in Seq(Event), NEW failed
  PROVE  \E tables : /\ tables[0] = Tables
                     /\ \A i \in 1..Len(batch) : tables[i] = Execute(batch, failed, tables[i - 1], i)
                     /\ Executed(batch, failed) = tables[Len(batch)]
<1> DEFINE F(f, n) == [i \in 0..n |->
                         IF i = 0 THEN Tables
                         ELSE IF batch[i] \in failed THEN f[i - 1]
                         ELSE Statement(f[i - 1], batch[i])]
           X == {n \in Nat : \E f : f = F(f, n)}
<1>1. 0 \in X
  <2>1. [i \in 0..0 |-> Tables] = F([i \in 0..0 |-> Tables], 0)
    OBVIOUS
  <2> QED BY <2>1
<1>2. ASSUME NEW n \in Nat, n \in X PROVE n + 1 \in X
  <2>1. PICK f : f = F(f, n)
    BY <1>2
  <2> DEFINE last == IF batch[n + 1] \in failed THEN f[n] ELSE Statement(f[n], batch[n + 1])
             g == [i \in 0..(n + 1) |-> IF i = n + 1 THEN last ELSE f[i]]
  <2>2. \A i \in 0..n : g[i] = f[i]
    OBVIOUS
  <2>3. g[n + 1] = last
    OBVIOUS
  <2>4. ASSUME NEW i \in 0..(n + 1) PROVE g[i] = F(g, n + 1)[i]
    <3> HIDE DEF last, g
    <3>1. CASE i = 0
      <4>1. g[0] = f[0] /\ f[0] = F(f, n)[0]
        BY <2>1, <2>2
      <4> QED BY <3>1, <4>1
    <3>2. CASE i \in 1..n
      <4>1. g[i] = f[i] /\ f[i] = F(f, n)[i] /\ g[i - 1] = f[i - 1]
        BY <2>1, <2>2, <3>2
      <4> QED BY <3>2, <4>1
    <3>3. CASE i = n + 1
      <4>1. g[(n + 1) - 1] = f[n]
        BY <2>2
      <4> QED BY <2>3, <3>3, <4>1 DEF last
    <3> QED BY <3>1, <3>2, <3>3
  <2>5. g = F(g, n + 1)
    <3>1. g = [i \in 0..(n + 1) |-> g[i]]
      OBVIOUS
    <3>2. F(g, n + 1) = [i \in 0..(n + 1) |-> F(g, n + 1)[i]]
      OBVIOUS
    <3>3. \A i \in 0..(n + 1) : g[i] = F(g, n + 1)[i]
      BY <2>4
    <3> DEFINE h == F(g, n + 1)
    <3> HIDE DEF h
    <3>4. h = [i \in 0..(n + 1) |-> h[i]] /\ \A i \in 0..(n + 1) : g[i] = h[i]
      BY <3>2, <3>3 DEF h
    <3> HIDE DEF g
    <3>5. g = h
      BY <3>1, <3>4
    <3> HIDE DEF F
    <3> QED BY <3>5 DEF h
  <2> HIDE DEF g
  <2>6. \E x : x = F(x, n + 1)
    BY <2>5
  <2> QED BY <2>6
<1>3. Len(batch) \in X
  <2>1. Len(batch) \in Nat
    OBVIOUS
  <2> HIDE DEF X
  <2> QED BY <1>1, <1>2, <2>1, Induction
<1> DEFINE t == CHOOSE f : f = F(f, Len(batch))
<1>4. t = F(t, Len(batch))
  BY <1>3
<1>5. Executed(batch, failed) = t[Len(batch)]
  BY DEF Executed
<1> HIDE DEF t
<1>6. t[0] = Tables
  BY <1>4
<1>7. \A i \in 1..Len(batch) : t[i] = Execute(batch, failed, t[i - 1], i)
  BY <1>4 DEF Execute
<1> QED BY <1>5, <1>6, <1>7

\* The tables the statements of a set of events lead to.
Follows(t, E) ==
  /\ t.rows = {p \in Owners : <<p, 1>> \in E}
  /\ t.closed = {p \in Owners : <<p, 1>> \in E /\ <<p, MaxEvents>> \in E}

IsTables(t) == t = [rows |-> t.rows, closed |-> t.closed]

\* One statement, when no later event of the same producer has been applied.
LEMMA StatementFollows ==
  ASSUME NEW t, IsTables(t), NEW E \in SUBSET Event, Follows(t, E), NEW e \in Event,
         \A x \in E : x[1] = e[1] => x[2] < e[2]
  PROVE  IsTables(Statement(t, e)) /\ Follows(Statement(t, e), E \union {e})
<1> USE StoreAssumption, BusAssumption
<1>1. PICK p \in Producers, n \in 1..MaxEvents : e = <<p, n>>
  BY DEF Event
<1>2. MaxEvents \in Nat /\ MaxEvents > 1
  OBVIOUS
<1>3. \A q \in Producers, m \in Nat : <<q, m>> \in E \union {e} <=> <<q, m>> \in E \/ (q = p /\ m = n)
  BY <1>1
<1>4. \A q \in Producers, m \in Nat : <<q, m>> \in E /\ q = p => m < n
  BY <1>1
<1>5. CASE p \in Owners /\ n = 1
  <2>1. Statement(t, e) = [rows |-> t.rows \union {p}, closed |-> t.closed]
    BY <1>1, <1>5 DEF Statement, IsTables
  <2>2. t.rows \union {p} = {q \in Owners : <<q, 1>> \in E \union {e}}
    BY <1>3, <1>5 DEF Follows
  <2>3. t.closed = {q \in Owners : <<q, 1>> \in E \union {e} /\ <<q, MaxEvents>> \in E \union {e}}
    <3>1. <<p, MaxEvents>> \notin E
      BY <1>2, <1>4, <1>5
    <3> QED BY <1>2, <1>3, <1>5, <3>1 DEF Follows
  <2> QED BY <2>1, <2>2, <2>3 DEF Follows, IsTables
<1>6. CASE p \in Owners /\ n # 1 /\ n = MaxEvents /\ p \in t.rows
  <2>1. Statement(t, e) = [rows |-> t.rows, closed |-> t.closed \union {p}]
    BY <1>1, <1>6 DEF Statement, IsTables
  <2>2. t.rows = {q \in Owners : <<q, 1>> \in E \union {e}}
    BY <1>3, <1>6 DEF Follows
  <2>3. t.closed \union {p} = {q \in Owners : <<q, 1>> \in E \union {e} /\ <<q, MaxEvents>> \in E \union {e}}
    BY <1>2, <1>3, <1>6 DEF Follows
  <2> QED BY <2>1, <2>2, <2>3 DEF Follows, IsTables
<1>7. CASE p \in Owners /\ n # 1 /\ ~(n = MaxEvents /\ p \in t.rows)
  <2>1. Statement(t, e) = t
    BY <1>1, <1>7 DEF Statement
  <2>2. t.rows = {q \in Owners : <<q, 1>> \in E \union {e}}
    BY <1>3, <1>7 DEF Follows
  <2>3. t.closed = {q \in Owners : <<q, 1>> \in E \union {e} /\ <<q, MaxEvents>> \in E \union {e}}
    BY <1>2, <1>3, <1>7 DEF Follows
  <2> QED BY <2>1, <2>2, <2>3 DEF Follows
<1>8. CASE p \notin Owners
  <2>1. Statement(t, e) = t
    BY <1>1, <1>8 DEF Statement
  <2> QED BY <1>2, <1>3, <1>8, <2>1 DEF Follows
<1> QED BY <1>5, <1>6, <1>7, <1>8

\* What has gone into the tables had been flushed.
TableInv ==
  /\ \A e \in applied : \E k \in 1..flushed : e = log[store][k]
  /\ RowsFollowStatements

\* A batch, applied in the order of the channel, whatever statements of it fail.
LEMMA ExecutedFollows ==
  ASSUME BusInv, StoreInv, TableInv, NEW failed
  PROVE  Follows(Executed(Pending, failed), applied \union (ToSet(Pending) \ failed))
<1> USE StoreAssumption, BusAssumption
<1> DEFINE N == Len(Pending)
           E(i) == applied \union ({Pending[k] : k \in 1..i} \ failed)
<1>1. /\ log[store] \in Seq(Event) /\ taken[store] \in Nat /\ taken[store] <= Len(log[store])
      /\ flushed \in Nat /\ flushed <= taken[store]
  BY DEF BusInv, BusTypeOK, Backlog, StoreInv, CountsInv, Reached
<1>2. /\ Pending \in Seq(Event) /\ N = taken[store] - flushed /\ N \in Nat
      /\ DOMAIN Pending = 1..N
      /\ \A i \in 1..N : Pending[i] = log[store][flushed + i]
  BY PendingSlice DEF StoreInv
<1>3. PICK t : /\ t[0] = Tables
               /\ \A i \in 1..N : t[i] = Execute(Pending, failed, t[i - 1], i)
               /\ Executed(Pending, failed) = t[N]
  BY <1>2, ExecutedLoop
<1>4. ASSUME NEW i \in 1..N
      PROVE  /\ Pending[i] \in Event /\ E(i - 1) \in SUBSET Event
             /\ \A x \in E(i - 1) : x[1] = Pending[i][1] => x[2] < Pending[i][2]
  <2>1. ASSUME NEW x \in E(i - 1)
        PROVE  \E k \in 1..Len(log[store]) : k < flushed + i /\ x = log[store][k]
    <3>1. CASE x \in applied
      <4>1. PICK k \in 1..flushed : x = log[store][k]
        BY <3>1 DEF TableInv
      <4>2. k \in 1..Len(log[store]) /\ k < flushed + i
        BY <1>1, <4>1
      <4> QED BY <4>1, <4>2
    <3>2. CASE x \notin applied
      <4>1. PICK k \in 1..(i - 1) : x = Pending[k]
        BY <3>2
      <4>2. /\ k \in 1..N /\ flushed + k \in 1..Len(log[store]) /\ flushed + k < flushed + i
        BY <1>1, <1>2, <4>1
      <4> QED BY <1>2, <4>1, <4>2
    <3> QED BY <3>1, <3>2
  <2>2. flushed + i \in 1..Len(log[store]) /\ Pending[i] = log[store][flushed + i]
    BY <1>1, <1>2
  <2> HIDE DEF E
  <2>3. \A x \in E(i - 1) : x \in Event
    BY <1>1, <2>1
  <2>4. ASSUME NEW x \in E(i - 1), x[1] = Pending[i][1]
        PROVE  x[2] < Pending[i][2]
    <3>1. PICK k \in 1..Len(log[store]) : k < flushed + i /\ x = log[store][k]
      BY <2>1
    <3> QED BY <2>2, <2>4, <3>1 DEF BusInv, ProducerOrder
  <2> QED BY <1>1, <2>2, <2>3, <2>4
<1> DEFINE X == {i \in Nat : i <= N => IsTables(t[i]) /\ Follows(t[i], E(i))}
<1>5. 0 \in X
  <2>1. E(0) = applied
    OBVIOUS
  <2>2. IsTables(Tables) /\ Follows(Tables, applied)
    BY DEF IsTables, Tables, Follows, TableInv, RowsFollowStatements
  <2> HIDE DEF E
  <2> QED BY <1>3, <2>1, <2>2
<1>6. ASSUME NEW i \in Nat, i \in X PROVE i + 1 \in X
  <2> SUFFICES ASSUME i + 1 <= N
               PROVE  IsTables(t[i + 1]) /\ Follows(t[i + 1], E(i + 1))
    OBVIOUS
  <2>1. i + 1 \in 1..N /\ (i + 1) - 1 = i /\ i <= N
    BY <1>2
  <2>2. t[i + 1] = Execute(Pending, failed, t[i], i + 1)
    BY <1>3, <2>1
  <2>3. IsTables(t[i]) /\ Follows(t[i], E(i))
    BY <1>6, <2>1
  <2>4. /\ Pending[i + 1] \in Event /\ E(i) \in SUBSET Event
        /\ \A x \in E(i) : x[1] = Pending[i + 1][1] => x[2] < Pending[i + 1][2]
    BY <1>4, <2>1
  <2>5. E(i + 1) = IF Pending[i + 1] \in failed THEN E(i) ELSE E(i) \union {Pending[i + 1]}
    <3>1. {Pending[k] : k \in 1..(i + 1)} = {Pending[k] : k \in 1..i} \union {Pending[i + 1]}
      OBVIOUS
    <3> QED BY <3>1
  <2> HIDE DEF E
  <2>6. CASE Pending[i + 1] \in failed
    BY <2>2, <2>3, <2>5, <2>6 DEF Execute
  <2>7. CASE Pending[i + 1] \notin failed
    BY <2>2, <2>3, <2>4, <2>5, <2>7, StatementFollows DEF Execute
  <2> QED BY <2>6, <2>7
<1>7. N \in X
  <2> HIDE DEF X
  <2> QED BY <1>2, <1>5, <1>6, Induction
<1>8. E(N) = applied \union (ToSet(Pending) \ failed)
  BY <1>2 DEF ToSet
<1> HIDE DEF E
<1>9. Follows(t[N], E(N))
  BY <1>2, <1>7
<1> QED BY <1>3, <1>8, <1>9

LEMMA StepTable ==
  ASSUME BusInv, StoreInv, TableInv, [Next]_vars
  PROVE  TableInv'
<1>1. [BusNext]_busVars
  BY StepBus
<1>2. /\ flushed \in Nat /\ flushed <= taken[store] /\ taken[store] \in Nat
      /\ \A k \in 1..taken[store] : log'[store][k] = log[store][k]
  BY <1>1, ReceivedStays DEF StoreInv, CountsInv, Reached
<1>3. ASSUME UNCHANGED <<rows, closedRows, applied>>,
             flushed' \in {flushed, taken[store]}
      PROVE  TableInv'
  <2>1. ASSUME NEW e \in applied
        PROVE  \E k \in 1..flushed' : e = log'[store][k]
    <3>1. PICK k \in 1..flushed : e = log[store][k]
      BY DEF TableInv
    <3> QED BY <1>2, <1>3, <3>1
  <2> QED BY <1>3, <2>1 DEF TableInv, RowsFollowStatements
<1>4. ASSUME NEW failed \in SUBSET ToSet(Pending), Commit(failed)
      PROVE  TableInv'
  <2>1. /\ rows' = Executed(Pending, failed).rows
        /\ closedRows' = Executed(Pending, failed).closed
        /\ applied' = applied \union (ToSet(Pending) \ failed)
        /\ flushed' = taken[store] /\ log' = log
    BY <1>4 DEF Commit, EndFlush, busVars
  <2>2. RowsFollowStatements'
    BY <2>1, ExecutedFollows DEF Follows, RowsFollowStatements
  <2>3. ASSUME NEW e \in applied'
        PROVE  \E k \in 1..flushed' : e = log'[store][k]
    <3>1. CASE e \in applied
      <4>1. PICK k \in 1..flushed : e = log[store][k]
        BY <3>1 DEF TableInv
      <4> QED BY <1>2, <2>1, <4>1
    <3>2. CASE e \in ToSet(Pending)
      <4>1. /\ Len(Pending) = taken[store] - flushed
            /\ DOMAIN Pending = 1..Len(Pending)
            /\ \A i \in 1..Len(Pending) : Pending[i] = log[store][flushed + i]
        BY PendingSlice DEF StoreInv
      <4>2. PICK i \in 1..Len(Pending) : e = Pending[i]
        BY <3>2, <4>1 DEF ToSet
      <4>3. flushed + i \in 1..taken[store]
        BY <1>2, <4>1, <4>2
      <4> QED BY <2>1, <4>1, <4>2, <4>3
    <3> QED BY <2>1, <3>1, <3>2
  <2> QED BY <2>2, <2>3 DEF TableInv
<1>5. CASE TransactionLost
  BY <1>3, <1>5 DEF TransactionLost, EndFlush
<1>6. CASE \/ StartRun \/ Subscribed \/ TakeEvent \/ Tick \/ SeeCancel \/ DrainEvent \/ Drained
           \/ FlushNothing \/ LeaveBus \/ Return \/ \E ok \in BOOLEAN : WriteLine(ok)
  BY <1>3, <1>6 DEF StartRun, Subscribed, TakeEvent, Tick, SeeCancel, DrainEvent, Drained,
     FlushNothing, LeaveBus, Return, WriteLine, storeVars, batchVars, tableVars
<1>7. CASE \/ MainStep \/ Signal \/ \E p \in Producers : GoroutineStep(p)
           \/ UNCHANGED vars
  BY <1>3, <1>7 DEF MainStep, WaitRun, CloseHandles, Exit, Signal, GoroutineStep, vars, storeVars,
     batchVars, tableVars
<1> QED
  BY <1>4, <1>5, <1>6, <1>7 DEF Next, RunStep

\* The tables hold what the statements that took effect have said, in whatever batches, lost
\* transactions and failed statements: no UPDATE runs before the INSERT of its connection or
\* session.
THEOREM TablesFollow == Spec => []RowsFollowStatements
<1>1. Init => TableInv
  BY DEF Init, TableInv, RowsFollowStatements
<1>2. BusInv /\ StoreInv /\ TableInv /\ [Next]_vars => TableInv'
  BY StepTable
<1>3. TableInv => RowsFollowStatements
  BY DEF TableInv
<1> QED
  BY <1>1, <1>2, <1>3, StoreInvariant, StoreImplementsBus, BusInvariant, PTL DEF Spec

------------------------------------------------------------------------------
(***************************************************************************)
(* The store keeps its promise: each step is one of SavedEvents or changes *)
(* nothing that it is about.                                               *)
(***************************************************************************)
\* A step of the bus alone: an event arrives, or none.
LEMMA BusArrives ==
  ASSUME BusInv, [BusNext]_busVars,
         UNCHANGED <<flushed, written, jsonl, unwritten, applied, skipped>>
  PROVE  [Promise!SavedNext]_Promise!savedVars
<1> USE StoreAssumption, BusAssumption
<1>1. CASE log'[store] = log[store]
  BY <1>1 DEF Promise!savedVars, Promise!lineVars, Promise!tableEffects
<1>2. ASSUME NEW p \in Producers, NEW s \in Subscribers, Enqueue(p, s)
      PROVE  \/ log'[store] = log[store]
             \/ \E e \in Event : log'[store] = Append(log[store], e)
  <2>1. <<p, sent[p]>> \in Event
    BY <1>2 DEF BusInv, BusTypeOK, LockInv, Enqueue, Event
  <2>2. log' = [log EXCEPT ![s] = Append(@, <<p, sent[p]>>)] /\ log \in [Subscribers -> Seq(Event)]
    BY <1>2 DEF Enqueue, BusInv, BusTypeOK
  <2> QED
    BY <2>1, <2>2
<1>3. ASSUME NEW e \in Event, log'[store] = Append(log[store], e)
      PROVE  Promise!Arrives
  BY <1>3 DEF Promise!Arrives, Promise!lineVars, Promise!tableEffects
<1>4. ASSUME NEW s \in Subscribers,
             \/ Receive(s) \/ CallSubscribe(s) \/ Subscribe(s) \/ CallUnsubscribe(s)
             \/ Unsubscribe(s)
      PROVE  log' = log
  BY <1>4 DEF Receive, CallSubscribe, Subscribe, CallUnsubscribe, Unsubscribe
<1>5. ASSUME NEW p \in Producers, BeginPublish(p) \/ EndPublish(p) \/ \E s \in Subscribers : Drop(p, s)
      PROVE  log' = log
  BY <1>5 DEF BeginPublish, EndPublish, Drop
<1>6. \/ log'[store] = log[store]
      \/ \E e \in Event : log'[store] = Append(log[store], e)
  <2>1. CASE UNCHANGED busVars
    BY <2>1 DEF busVars
  <2> QED
    BY <1>2, <1>4, <1>5, <2>1 DEF BusNext, PublishStep
<1> QED
  BY <1>1, <1>3, <1>6 DEF Promise!SavedNext

LEMMA LineGiven ==
  ASSUME BusInv, StoreInv, NEW ok \in BOOLEAN, WriteLine(ok)
  PROVE  Promise!GetsLine
<1>1. taken[store] \in Nat /\ log[store] \in Seq(Event) /\ taken[store] <= Len(log[store])
  BY StoreAssumption, BusAssumption DEF BusInv, BusTypeOK, Backlog
<1>2. flushed \in Nat /\ written \in Nat /\ flushed + written <= taken[store]
  BY DEF StoreInv, CountsInv, Reached
<1>3. written # taken[store] - flushed
  BY DEF WriteLine, WriteDone
<1>4. flushed + written < Len(log[store])
  BY <1>1, <1>2, <1>3
<1>5. flushed' = flushed /\ written' = written + 1
      /\ log' = log /\ UNCHANGED <<applied, skipped>>
  BY DEF WriteLine, tableVars, busVars
<1>6. flushed' + written' = (flushed + written) + 1
  BY <1>2, <1>5
<1>7. \/ jsonl' = Append(jsonl, log[store][flushed + written + 1]) /\ UNCHANGED unwritten
      \/ unwritten' = unwritten \union {log[store][flushed + written + 1]} /\ UNCHANGED jsonl
  BY DEF WriteLine
<1> QED
  BY <1>4, <1>5, <1>6, <1>7 DEF Promise!GetsLine, Promise!tableEffects

LEMMA BatchGiven ==
  ASSUME BusInv, StoreInv, WriteDone, Pending # <<>>, EndFlush,
         UNCHANGED <<jsonl, unwritten, busVars>>,
         NEW failed \in SUBSET ToSet(Pending),
         applied' = applied \union (ToSet(Pending) \ failed), skipped' = skipped \union failed
  PROVE  Promise!Transaction
<1>1. /\ taken[store] \in Nat /\ flushed \in Nat /\ written \in Nat
      /\ Pending \in Seq(Event)
      /\ Len(Pending) = taken[store] - flushed /\ Len(Pending) \in Nat
      /\ DOMAIN Pending = 1..Len(Pending)
      /\ \A i \in 1..Len(Pending) : Pending[i] = log[store][flushed + i]
  BY PendingSlice DEF StoreInv
<1>2. flushed + written = taken[store]
  BY <1>1 DEF WriteDone
<1>3. Len(Pending) = written /\ written # 0
  BY <1>1, <1>2
<1>4. flushed < flushed + written
  BY <1>1, <1>3
<1>5. flushed' = flushed + written /\ flushed' + written' = flushed + written /\ log' = log
  BY <1>1, <1>2 DEF EndFlush, busVars
<1>6. ToSet(Pending) = Promise!Due
  <2>1. ASSUME NEW i \in 1..Len(Pending)
        PROVE  flushed + i \in (flushed + 1)..(flushed + written)
    BY <1>1, <1>3
  <2>2. ASSUME NEW k \in (flushed + 1)..(flushed + written)
        PROVE  k - flushed \in 1..Len(Pending) /\ flushed + (k - flushed) = k
    BY <1>1, <1>3
  <2>3. ToSet(Pending) \subseteq Promise!Due
    BY <1>1, <2>1 DEF ToSet, Promise!Due
  <2>4. ASSUME NEW k \in (flushed + 1)..(flushed + written)
        PROVE  log[store][k] \in ToSet(Pending)
    <3>1. k - flushed \in DOMAIN Pending /\ Pending[k - flushed] = log[store][k]
      BY <1>1, <2>2
    <3> QED BY <3>1 DEF ToSet
  <2> QED BY <2>3, <2>4 DEF Promise!Due
<1> QED
  BY <1>4, <1>5, <1>6 DEF Promise!Transaction, Promise!lineVars

LEMMA StepGiven ==
  ASSUME BusInv, StoreInv, [Next]_vars
  PROVE  [Promise!SavedNext]_Promise!savedVars
<1>1. [BusNext]_busVars
  BY StepBus
<1>2. ASSUME NEW ok \in BOOLEAN, WriteLine(ok)
      PROVE  Promise!SavedNext
  BY <1>2, LineGiven DEF Promise!SavedNext
<1>3. ASSUME NEW failed \in SUBSET ToSet(Pending), Commit(failed)
      PROVE  Promise!SavedNext
  <2>1. /\ WriteDone /\ Pending # <<>> /\ EndFlush /\ UNCHANGED <<jsonl, unwritten, busVars>>
        /\ applied' = applied \union (ToSet(Pending) \ failed) /\ skipped' = skipped \union failed
    BY <1>3 DEF Commit, fileVars
  <2> QED
    BY <2>1, BatchGiven DEF Promise!SavedNext
<1>4. ASSUME TransactionLost
      PROVE  Promise!SavedNext
  <2>1. /\ WriteDone /\ Pending # <<>> /\ EndFlush /\ UNCHANGED <<jsonl, unwritten, busVars>>
        /\ applied' = applied \union (ToSet(Pending) \ ToSet(Pending))
        /\ skipped' = skipped \union ToSet(Pending)
    BY <1>4 DEF TransactionLost, fileVars
  <2> QED
    BY <2>1, BatchGiven DEF Promise!SavedNext
<1>5. ASSUME UNCHANGED <<flushed, written, jsonl, unwritten, applied, skipped>>
      PROVE  [Promise!SavedNext]_Promise!savedVars
  BY <1>1, <1>5, BusArrives
<1>6. CASE \/ StartRun \/ Subscribed \/ TakeEvent \/ Tick \/ SeeCancel \/ DrainEvent \/ Drained
           \/ FlushNothing \/ LeaveBus \/ Return
  BY <1>5, <1>6 DEF StartRun, Subscribed, TakeEvent, Tick, SeeCancel, DrainEvent, Drained,
     FlushNothing, LeaveBus, Return, storeVars, batchVars, fileVars, tableVars
<1>7. CASE MainStep \/ Signal
  BY <1>5, <1>7 DEF MainStep, WaitRun, CloseHandles, Exit, Signal, batchVars, fileVars, tableVars
<1>8. CASE \/ \E p \in Producers : GoroutineStep(p)
           \/ UNCHANGED vars
  BY <1>5, <1>8 DEF GoroutineStep, vars, storeVars, batchVars, fileVars, tableVars
<1> QED
  BY <1>2, <1>3, <1>4, <1>6, <1>7, <1>8 DEF Next, RunStep

\* The store, with its batches, its ticker, its failures and a shutdown that races with it,
\* implements the plain record of events: line by line in the order they came, each once, and
\* one transaction for each batch whose lines have been written.
THEOREM StoreKeepsPromise == Spec => SavesInOrder
<1>1. Init => Promise!SavedInit
  <2> SUFFICES ASSUME Init PROVE Promise!SavedInit
    OBVIOUS
  <2>1. log[store] = <<>>
    BY StoreAssumption DEF Init, BusInit
  <2>2. flushed = 0 /\ written = 0 /\ flushed + written = 0
    BY DEF Init
  <2> QED
    BY <2>1, <2>2 DEF Init, Promise!SavedInit
<1>2. BusInv /\ StoreInv /\ [Next]_vars => [Promise!SavedNext]_Promise!savedVars
  BY StepGiven
<1> QED
  BY <1>1, <1>2, StoreInvariant, StoreImplementsBus, BusInvariant, PTL
     DEF Spec, SavesInOrder, Promise!SavedSpec
------------------------------------------------------------------------------
(***************************************************************************)
(* The types of the composition, from all of the above.                    *)
(***************************************************************************)
PlacesInv ==
  /\ unwritten \subseteq Event /\ applied \subseteq Event /\ skipped \subseteq Event
  /\ dbOpen \in BOOLEAN

LEMMA StepPlaces ==
  ASSUME BusInv, StoreInv, PlacesInv, [Next]_vars
  PROVE  PlacesInv'
<1> USE StoreAssumption DEF PlacesInv
<1>1. /\ log[store] \in Seq(Event) /\ taken[store] \in Nat /\ taken[store] <= Len(log[store])
      /\ flushed \in Nat /\ written \in Nat /\ flushed + written <= taken[store]
  BY DEF BusInv, BusTypeOK, StoreInv, CountsInv, Reached
<1>2. ASSUME NEW ok \in BOOLEAN, WriteLine(ok)
      PROVE  PlacesInv'
  <2> DEFINE t == taken[store]
             l == Len(log[store])
  <2>1. flushed + written + 1 \in 1..l
    <3>1. t \in Nat /\ l \in Nat /\ t <= l /\ written # t - flushed
      BY <1>1, <1>2 DEF WriteLine, WriteDone
    <3>2. flushed \in Nat /\ written \in Nat /\ flushed + written <= t
      BY <1>1
    <3> HIDE DEF t, l
    <3> QED BY <3>1, <3>2
  <2>2. log[store][flushed + written + 1] \in Event
    BY <1>1, <2>1
  <2>3. unwritten' \subseteq unwritten \union {log[store][flushed + written + 1]}
    BY <1>2 DEF WriteLine
  <2> QED
    BY <1>2, <2>2, <2>3 DEF WriteLine, tableVars, mainVars
<1>3. ToSet(Pending) \subseteq Event
  <2>1. \A k \in 1..Len(Pending) : Pending[k] \in Event
    BY PendingSlice DEF StoreInv
  <2> QED
    BY <2>1 DEF ToSet
<1>4. ASSUME NEW failed \in SUBSET ToSet(Pending), Commit(failed)
      PROVE  PlacesInv'
  BY <1>3, <1>4 DEF Commit, fileVars, mainVars
<1>5. CASE TransactionLost
  BY <1>3, <1>5 DEF TransactionLost, fileVars, mainVars
<1>6. CASE \/ StartRun \/ Subscribed \/ TakeEvent \/ Tick \/ SeeCancel \/ DrainEvent \/ Drained
           \/ FlushNothing \/ LeaveBus \/ Return
  BY <1>6 DEF StartRun, Subscribed, TakeEvent, Tick, SeeCancel, DrainEvent, Drained,
     FlushNothing, LeaveBus, Return, storeVars, fileVars, tableVars, mainVars
<1>7. CASE MainStep \/ Signal
  BY <1>7 DEF MainStep, WaitRun, CloseHandles, Exit, Signal, fileVars, tableVars
<1>8. CASE \/ \E p \in Producers : GoroutineStep(p)
           \/ UNCHANGED vars
  BY <1>8 DEF GoroutineStep, vars, storeVars, fileVars, tableVars, mainVars
<1> QED
  BY <1>2, <1>4, <1>5, <1>6, <1>7, <1>8 DEF Next, RunStep

\* The variables of Run, of the file, of the tables and of main have their types, the counts
\* of a flush stay within what was received, and no row is closed that is not in the table.
THEOREM StoreTypes == Spec => []TypeOK
<1>1. Init => PlacesInv
  BY DEF Init, PlacesInv
<1>2. BusInv /\ StoreInv /\ PlacesInv /\ [Next]_vars => PlacesInv'
  BY StepPlaces
<1>3. ASSUME BusInv, StoreInv, DrainInv, RowsFollowStatements, PlacesInv
      PROVE  TypeOK
  <2>1. BusTypeOK /\ taken[store] \in Nat
    BY <1>3, StoreAssumption DEF BusInv, BusTypeOK
  <2>2. /\ flushed \in Nat /\ flushed <= taken[store]
        /\ written \in Nat /\ written <= taken[store] - flushed
    BY <1>3, <2>1 DEF StoreInv, CountsInv, Reached
  <2>3. rows \subseteq Producers /\ closedRows \subseteq rows
    BY <1>3, StoreAssumption DEF RowsFollowStatements
  <2>4. /\ run \in {"start", "subscribe", "select", "flush", "drain", "leave", "unsubscribe", "returned"}
        /\ back \in {"select", "leave"} /\ wg \in 0..1 /\ due \in Nat /\ raced \in BOOLEAN
        /\ main \in {"serving", "cancelled", "waited", "closed", "exited"}
    BY <1>3 DEF DrainInv, DueInv, WaitInv, Leaving
  <2>5. jsonl \in Seq(Event)
    BY <1>3 DEF StoreInv, LinesInv
  <2> QED
    BY <1>3, <2>1, <2>2, <2>3, <2>4, <2>5 DEF TypeOK, PlacesInv
<1>4. BusInv /\ StoreInv /\ DrainInv /\ RowsFollowStatements /\ PlacesInv => TypeOK
  BY <1>3
<1> QED
  BY <1>1, <1>2, <1>4, StoreInvariant, DrainInvariant, TablesFollow, StoreImplementsBus,
     BusInvariant, PTL DEF Spec
=============================================================================
