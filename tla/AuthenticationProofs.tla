------------------------ MODULE AuthenticationProofs -------------------------
(***************************************************************************)
(* Proofs that the limiter lets no address exceed its rate and refuses     *)
(* nobody without cause, that whoever is let in is accounted for, and that *)
(* no credential goes unrecorded: for any connections, addresses and       *)
(* users, any limits and any window.                                       *)
(***************************************************************************)
EXTENDS Authentication, FiniteSetTheorems, TLAPS

---------------------------------------------------------------------------
(* Types: what a request holds depends on how far it has been handled. *)

Places == {"waiting", "limiting", "asking", "checking", "asking-again",
           "checking-again", "in", "failed"}
Active(place) == place \notin {"in", "failed"}

Fits(place, req, t) ==
  /\ place = "limiting" => req \in [method : Limited, user : Users, clock : 0 .. t]
  /\ place \in {"asking", "asking-again", "checking-again"} =>
       req \in [method : {"keyboard-interactive"}, user : Users]
  /\ place = "checking" => req \in [method : Limited, user : Users]
  /\ place = "in" => req \in [method : Limited \cup {"none"}, user : Users]

ConnsTyped ==
  /\ pc \in [Connections -> Places]
  /\ request \in [Connections -> Request \cup {Nothing}]
  /\ tries \in [Connections -> Nat] /\ failures \in [Connections -> 0 .. MaxAuthTries]
  /\ broken \in [Connections -> BOOLEAN]
  /\ trail \in [Connections -> Seq(Attempt)] /\ bypassed \in [Connections -> SUBSET Nat]
  /\ \A c \in Connections : Fits(pc[c], request[c], now) /\ (Active(pc[c]) => failures[c] < MaxAuthTries)

TableTyped ==
  /\ now \in 0 .. MaxTime
  /\ entries \subseteq Addresses
  /\ seen \in [Addresses -> SUBSET Stamp] /\ through \subseteq Stamp /\ late \subseteq through

Typed == TableTyped /\ ConnsTyped

LEMMA InitTyped == Init => Typed
<1> SUFFICES ASSUME Init PROVE Typed
  OBVIOUS
<1>1. TableTyped
  BY AuthAssumption DEF Init, TableTyped
<1>2. ConnsTyped
  BY AuthAssumption DEF Init, ConnsTyped, Fits, Places, Active, Request
<1> QED BY <1>1, <1>2 DEF Typed

LEMMA TableStep == Typed /\ [Next]_vars => TableTyped'
<1> SUFFICES ASSUME Typed, [Next]_vars PROVE TableTyped'
  OBVIOUS
<1> USE AuthAssumption DEF Typed, TableTyped
<1>1. ASSUME NEW c \in Connections, LetThrough(c) \/ Refuse(c) PROVE TableTyped'
  <2>1. ThisAttempt(c) \in Stamp
    <3>1. tries[c] \in Nat
      BY DEF ConnsTyped
    <3>2. request[c].clock \in 0 .. MaxTime
      <4>1. request[c] \in [method : Limited, user : Users, clock : 0 .. now]
        BY <1>1 DEF ConnsTyped, Fits, LetThrough, Refuse
      <4> QED BY <4>1
    <3> QED BY <3>1, <3>2 DEF ThisAttempt, Stamp
  <2>2. Kept(c) \subseteq Stamp /\ AddressOf[c] \in Addresses
    BY DEF Kept, Remembered
  <2>3. \A a \in Addresses : Remembered(a) \subseteq Stamp
    BY DEF Remembered
  <2> QED BY <1>1, <2>1, <2>2, <2>3 DEF LetThrough, Refuse, Remember
<1>2. CASE Tick
  BY <1>2 DEF Tick, limiterVars
<1>3. CASE UNCHANGED vars
  BY <1>3 DEF vars, limiterVars
<1>4. CASE UNCHANGED <<now, limiterVars>>
  BY <1>4 DEF limiterVars
<1> QED BY <1>1, <1>2, <1>3, <1>4 DEF Next, TakeNone, TakeLimited, TakePublicKey, TakeKeyAgain, TakeUnknown, Answer,
            NoAnswer, NoSecondAnswer, Reject, Accept, Break, GiveUp

\* What has to be shown of a step of one connection.
LEMMA OneConnection ==
  ASSUME ConnsTyped, now' = now, NEW c \in Connections,
         NEW place \in Places, NEW req \in Request \cup {Nothing}, NEW f \in 0 .. MaxAuthTries,
         pc' = [pc EXCEPT ![c] = place], request' = [request EXCEPT ![c] = req],
         failures' = [failures EXCEPT ![c] = f],
         tries' \in [Connections -> Nat], broken' \in [Connections -> BOOLEAN],
         trail' \in [Connections -> Seq(Attempt)], bypassed' \in [Connections -> SUBSET Nat],
         Fits(place, req, now), Active(place) => f < MaxAuthTries
  PROVE  ConnsTyped'
<1>1. ASSUME NEW d \in Connections
      PROVE  Fits(pc'[d], request'[d], now') /\ (Active(pc'[d]) => failures'[d] < MaxAuthTries)
  <2>1. CASE d = c
    BY <2>1 DEF ConnsTyped
  <2>2. CASE d # c
    BY <2>2 DEF ConnsTyped
  <2> QED BY <2>1, <2>2
<1>2. /\ pc' \in [Connections -> Places] /\ request' \in [Connections -> Request \cup {Nothing}]
      /\ failures' \in [Connections -> 0 .. MaxAuthTries]
  BY DEF ConnsTyped
<1> QED BY <1>1, <1>2 DEF ConnsTyped

LEMMA FailTyped ==
  ASSUME ConnsTyped, now' = now, NEW c \in Connections, Active(pc[c]), Fail(c),
         tries' \in [Connections -> Nat], broken' \in [Connections -> BOOLEAN],
         trail' \in [Connections -> Seq(Attempt)], bypassed' \in [Connections -> SUBSET Nat]
  PROVE  ConnsTyped'
<1> DEFINE place == IF failures[c] + 1 < MaxAuthTries THEN "waiting" ELSE "failed"
<1>1. failures[c] \in Nat /\ failures[c] < MaxAuthTries
  BY AuthAssumption DEF ConnsTyped
<1>2. failures[c] + 1 \in 0 .. MaxAuthTries /\ (Active(place) => failures[c] + 1 < MaxAuthTries)
  BY <1>1, AuthAssumption DEF Active
<1>3. place \in Places /\ Fits(place, Nothing, now)
  BY DEF Places, Fits
<1>4. pc' = [pc EXCEPT ![c] = place] /\ request' = [request EXCEPT ![c] = Nothing]
      /\ failures' = [failures EXCEPT ![c] = failures[c] + 1]
  BY DEF Fail, Goto
<1> HIDE DEF place
<1> QED BY <1>2, <1>3, <1>4, OneConnection

\* A step that leaves place, request and failures as they are.
LEMMA NoMove ==
  ASSUME ConnsTyped, now' = now, UNCHANGED <<pc, request, failures>>,
         tries' \in [Connections -> Nat], broken' \in [Connections -> BOOLEAN],
         trail' \in [Connections -> Seq(Attempt)], bypassed' \in [Connections -> SUBSET Nat]
  PROVE  ConnsTyped'
BY DEF ConnsTyped

\* An event of a failed attempt.
LEMMA FailureTyped ==
  ASSUME ConnsTyped, NEW c \in Connections, NEW n \in Nat,
         Record(c, Failure(n)) \/ Record(c, KeyRefused(n))
  PROVE  trail' \in [Connections -> Seq(Attempt)]
<1>1. Failure(n) \in Attempt /\ KeyRefused(n) \in Attempt
  BY DEF Failure, KeyRefused, Attempt
<1>2. ASSUME NEW e \in Attempt, Record(c, e) PROVE trail' \in [Connections -> Seq(Attempt)]
  BY <1>2 DEF ConnsTyped, Record
<1> QED BY <1>1, <1>2

LEMMA TakeTyped ==
  ASSUME ConnsTyped, NEW c \in Connections, Take(c)
  PROVE  tries' \in [Connections -> Nat] /\ Active(pc[c])
BY DEF ConnsTyped, Take, Active

LEMMA BypassTyped ==
  ASSUME ConnsTyped, NEW c \in Connections, Bypass(c)
  PROVE  bypassed' \in [Connections -> SUBSET Nat]
<1>1. tries[c] + 1 \in Nat
  BY DEF ConnsTyped
<1> QED BY <1>1 DEF ConnsTyped, Bypass

LEMMA LimitedTyped ==
  ASSUME Typed, NEW c \in Connections, NEW m \in Limited, NEW u \in Names[c], TakeLimited(c, m, u)
  PROVE  ConnsTyped'
<1> DEFINE req == [method |-> m, user |-> u, clock |-> now]
<1>1. req \in [method : Limited, user : Users, clock : 0 .. now] /\ req \in Request
  BY AuthAssumption DEF Typed, TableTyped, Request
<1>2. Fits("limiting", req, now) /\ "limiting" \in Places /\ Active(pc[c])
  BY <1>1 DEF Fits, Places, TakeLimited, Take, Active
<1>3. /\ pc' = [pc EXCEPT ![c] = "limiting"] /\ request' = [request EXCEPT ![c] = req]
      /\ failures' = [failures EXCEPT ![c] = failures[c]]
      /\ failures[c] \in 0 .. MaxAuthTries /\ failures[c] < MaxAuthTries
  BY <1>2 DEF TakeLimited, Goto, Handle, Typed, ConnsTyped
<1>4. UNCHANGED <<now, broken, trail, bypassed>> /\ Take(c)
  BY DEF TakeLimited
<1> HIDE DEF req
<1> QED BY <1>1, <1>2, <1>3, <1>4, OneConnection, TakeTyped DEF Typed, ConnsTyped

LEMMA ConnsStep == Typed /\ [Next]_vars => ConnsTyped'
<1> SUFFICES ASSUME Typed, [Next]_vars PROVE ConnsTyped'
  OBVIOUS
<1> USE AuthAssumption DEF Typed
<1>1. ASSUME NEW c \in Connections, NEW m \in Limited, NEW u \in Names[c], TakeLimited(c, m, u)
      PROVE  ConnsTyped'
  BY <1>1, LimitedTyped
<1>2. ASSUME NEW c \in Connections, TakeKeyAgain(c) \/ \E m \in AllMethods : TakeUnknown(c, m) PROVE ConnsTyped'
  <2>1. /\ tries' \in [Connections -> Nat] /\ Active(pc[c]) /\ bypassed' \in [Connections -> SUBSET Nat]
        /\ UNCHANGED <<now, broken, trail>> /\ (Unpunished(c) \/ Fail(c))
    BY <1>2, TakeTyped, BypassTyped DEF TakeUnknown, TakeKeyAgain
  <2> QED BY <2>1, FailTyped, NoMove DEF Unpunished, ConnsTyped
<1>3. ASSUME NEW c \in Connections, NEW u \in Names[c], TakeNone(c, u) PROVE ConnsTyped'
  <2> DEFINE req == [method |-> "none", user |-> u]
  <2>1. /\ tries' \in [Connections -> Nat] /\ Active(pc[c]) /\ bypassed' \in [Connections -> SUBSET Nat]
        /\ UNCHANGED <<now, broken, trail>>
    BY <1>3, TakeTyped, BypassTyped DEF TakeNone
  <2>2. CASE u \in Allowed
    <3>1. req \in [method : Limited \cup {"none"}, user : Users]
      BY <2>2
    <3>2. req \in Request /\ Fits("in", req, now) /\ "in" \in Places
      BY <3>1 DEF Request, Fits, Places
    <3>3. /\ pc' = [pc EXCEPT ![c] = "in"] /\ request' = [request EXCEPT ![c] = req]
          /\ failures' = [failures EXCEPT ![c] = failures[c]]
          /\ failures[c] \in 0 .. MaxAuthTries
      BY <1>3, <2>2 DEF TakeNone, Goto, Handle, ConnsTyped
    <3> HIDE DEF req
    <3> QED BY <2>1, <3>2, <3>3, OneConnection DEF Active, ConnsTyped
  <2>3. CASE u \notin Allowed
    BY <1>3, <2>1, <2>3, FailTyped, NoMove DEF TakeNone, Unpunished, ConnsTyped
  <2> QED BY <2>2, <2>3
<1>4. ASSUME NEW c \in Connections, TakePublicKey(c) PROVE ConnsTyped'
  <2>1. tries[c] + 1 \in Nat
    BY DEF ConnsTyped
  <2> QED BY <1>4, <2>1, FailureTyped, TakeTyped, FailTyped DEF TakePublicKey, ConnsTyped
<1>5. ASSUME NEW c \in Connections, LetThrough(c) PROVE ConnsTyped'
  <2> DEFINE req == [method |-> request[c].method, user |-> request[c].user]
             place == IF request[c].method = "password" THEN "checking" ELSE "asking"
  <2>1. request[c] \in [method : Limited, user : Users, clock : 0 .. now]
    BY <1>5 DEF ConnsTyped, Fits, LetThrough
  <2>2. request[c].method \in Limited /\ request[c].user \in Users
    BY <2>1
  <2>3. req \in [method : Limited, user : Users] /\ req \in Request /\ place \in Places
        /\ (place = "asking" => req \in [method : {"keyboard-interactive"}, user : Users])
    BY <2>2 DEF Request, Places, Limited
  <2>4. Fits(place, req, now) /\ Active(place)
    BY <2>3 DEF Fits, Active
  <2>5. /\ pc' = [pc EXCEPT ![c] = place] /\ request' = [request EXCEPT ![c] = req]
        /\ failures' = [failures EXCEPT ![c] = failures[c]]
        /\ failures[c] \in 0 .. MaxAuthTries /\ failures[c] < MaxAuthTries
        /\ UNCHANGED <<now, tries, broken, trail, bypassed>>
    BY <1>5 DEF LetThrough, Goto, Handle, ConnsTyped, Active
  <2> HIDE DEF req, place
  <2> QED BY <2>3, <2>4, <2>5, OneConnection DEF ConnsTyped
<1>6. ASSUME NEW c \in Connections, Refuse(c) PROVE ConnsTyped'
  <2>1. bypassed' \in [Connections -> SUBSET Nat]
    <3>1. tries[c] \in Nat
      BY DEF ConnsTyped
    <3> QED BY <1>6, <3>1 DEF Refuse, ConnsTyped
  <2> QED BY <1>6, <2>1, FailTyped DEF Refuse, ConnsTyped, Active
<1>7. ASSUME NEW c \in Connections, Answer(c) PROVE ConnsTyped'
  <2> DEFINE place == IF pc[c] = "asking" THEN "checking" ELSE "checking-again"
  <2>1. request[c] \in [method : {"keyboard-interactive"}, user : Users]
    BY <1>7 DEF Answer, ConnsTyped, Fits
  <2>2. request[c] \in [method : Limited, user : Users]
    BY <2>1 DEF Limited
  <2>3. Fits(place, request[c], now) /\ place \in Places /\ Active(pc[c])
    BY <1>7, <2>1, <2>2 DEF Answer, Fits, Places, Active
  <2>4. /\ pc' = [pc EXCEPT ![c] = place] /\ request' = [request EXCEPT ![c] = request[c]]
        /\ failures' = [failures EXCEPT ![c] = failures[c]]
        /\ request[c] \in Request \cup {Nothing}
        /\ failures[c] \in 0 .. MaxAuthTries /\ failures[c] < MaxAuthTries
        /\ UNCHANGED <<now, tries, broken, trail, bypassed>>
    BY <1>7, <2>3 DEF Answer, Goto, ConnsTyped
  <2> HIDE DEF place
  <2> QED BY <2>3, <2>4, OneConnection DEF ConnsTyped
<1>8. ASSUME NEW c \in Connections, NoAnswer(c) \/ NoSecondAnswer(c) PROVE ConnsTyped'
  <2>1. tries[c] \in Nat
    BY DEF ConnsTyped
  <2> QED BY <1>8, <2>1, FailureTyped, FailTyped DEF NoAnswer, NoSecondAnswer, ConnsTyped, Active
<1>9. ASSUME NEW c \in Connections, NEW pw \in Passwords, Reject(c, pw) PROVE ConnsTyped'
  <2>1. /\ trail' \in [Connections -> Seq(Attempt)] /\ Active(pc[c])
        /\ UNCHANGED <<now, tries, broken, bypassed>>
    <3>1. tries[c] \in Nat
      BY DEF ConnsTyped
    <3> QED BY <1>9, <3>1, FailureTyped DEF Reject, Active
  <2>2. CASE Fail(c)
    BY <2>1, <2>2, FailTyped DEF ConnsTyped
  <2>3. CASE ~Fail(c)
    <3>1. pc[c] = "checking" /\ request[c].method = "keyboard-interactive" /\ Goto(c, "asking-again")
          /\ UNCHANGED <<failures, request>>
      BY <1>9, <2>3 DEF Reject
    <3>2. request[c] \in [method : {"keyboard-interactive"}, user : Users]
      <4>1. request[c] \in [method : Limited, user : Users]
        BY <3>1 DEF ConnsTyped, Fits
      <4> QED BY <3>1, <4>1
    <3>3. Fits("asking-again", request[c], now) /\ "asking-again" \in Places
      BY <3>2 DEF Fits, Places
    <3>4. /\ pc' = [pc EXCEPT ![c] = "asking-again"] /\ request' = [request EXCEPT ![c] = request[c]]
          /\ failures' = [failures EXCEPT ![c] = failures[c]]
          /\ request[c] \in Request \cup {Nothing}
          /\ failures[c] \in 0 .. MaxAuthTries /\ failures[c] < MaxAuthTries
      BY <2>1, <3>1 DEF Goto, ConnsTyped
    <3> QED BY <2>1, <3>3, <3>4, OneConnection DEF ConnsTyped
  <2> QED BY <2>2, <2>3
<1>10. ASSUME NEW c \in Connections, NEW pw \in Passwords, Accept(c, pw) PROVE ConnsTyped'
  <2>1. request[c] \in [method : Limited \cup {"none"}, user : Users] /\ request[c].user \in Users
    <3>1. request[c] \in [method : Limited, user : Users]
            \/ request[c] \in [method : {"keyboard-interactive"}, user : Users]
      BY <1>10 DEF Accept, ConnsTyped, Fits
    <3> QED BY <3>1 DEF Limited
  <2>2. trail' \in [Connections -> Seq(Attempt)]
    <3>1. tries[c] \in Nat
      BY DEF ConnsTyped
    <3>2. [try |-> tries[c], ok |-> TRUE, user |-> request[c].user, password |-> pw] \in Attempt
      BY <2>1, <3>1 DEF Attempt
    <3> DEFINE e == [try |-> tries[c], ok |-> TRUE, user |-> request[c].user, password |-> pw]
    <3>3. trail' = [trail EXCEPT ![c] = Append(@, e)]
      BY <1>10 DEF Accept, Record
    <3> HIDE DEF e
    <3> QED BY <3>2, <3>3 DEF ConnsTyped, e
  <2>3. /\ Fits("in", request[c], now) /\ Fits("failed", request[c], now)
        /\ {"in", "failed"} \subseteq Places /\ ~Active("in") /\ ~Active("failed")
    BY <2>1 DEF Fits, Places, Active
  <2>4. PICK place \in {"in", "failed"} : pc' = [pc EXCEPT ![c] = place]
    BY <1>10 DEF Accept, Goto
  <2>5. /\ request' = [request EXCEPT ![c] = request[c]]
        /\ failures' = [failures EXCEPT ![c] = failures[c]]
        /\ request[c] \in Request \cup {Nothing} /\ failures[c] \in 0 .. MaxAuthTries
        /\ UNCHANGED <<now, tries, broken, bypassed>>
    BY <1>10 DEF Accept, ConnsTyped
  <2> QED BY <2>2, <2>3, <2>4, <2>5, OneConnection DEF ConnsTyped
<1>11. ASSUME NEW c \in Connections, Break(c) PROVE ConnsTyped'
  BY <1>11, NoMove DEF Break, ConnsTyped
<1>12. ASSUME NEW c \in Connections, GiveUp(c) PROVE ConnsTyped'
  <2>1. "failed" \in Places /\ Fits("failed", request[c], now) /\ ~Active("failed")
    BY DEF Places, Fits, Active
  <2>2. /\ pc' = [pc EXCEPT ![c] = "failed"] /\ request' = [request EXCEPT ![c] = request[c]]
        /\ failures' = [failures EXCEPT ![c] = failures[c]]
        /\ request[c] \in Request \cup {Nothing} /\ failures[c] \in 0 .. MaxAuthTries
        /\ UNCHANGED <<now, tries, broken, trail, bypassed>>
    BY <1>12 DEF GiveUp, Goto, ConnsTyped
  <2> QED BY <2>1, <2>2, OneConnection DEF ConnsTyped
<1>13. CASE Tick
  <2>1. \A r : r \in [method : Limited, user : Users, clock : 0 .. now] =>
               r \in [method : Limited, user : Users, clock : 0 .. now']
    BY <1>13 DEF Tick, TableTyped
  <2>2. \A c \in Connections : Fits(pc[c], request[c], now) => Fits(pc[c], request[c], now')
    BY <2>1 DEF Fits
  <2> QED BY <1>13, <2>2 DEF Tick, connVars, ConnsTyped
<1>14. CASE UNCHANGED vars
  BY <1>14, NoMove DEF vars, connVars, ConnsTyped
<1> QED BY <1>1, <1>2, <1>3, <1>4, <1>5, <1>6, <1>7, <1>8, <1>9, <1>10, <1>11, <1>12, <1>13, <1>14 DEF Next

LEMMA AlwaysTyped == Spec => []Typed
<1>1. Typed /\ [Next]_vars => Typed'
  BY TableStep, ConnsStep DEF Typed
<1> QED BY InitTyped, <1>1, PTL DEF Spec

---------------------------------------------------------------------------
(* The limiter. *)

\* What an entry remembers has really been let through, and of what has been let through
\* within the window it has forgotten nothing.
EntrySound(a) ==
  /\ seen[a] \subseteq {s \in through : AddressOf[s.conn] = a}
  /\ InWindow(a, now) \subseteq seen[a]
  /\ Cardinality(seen[a]) <= MaxPerIP

TableSound ==
  /\ IsFiniteSet(entries) /\ Cardinality(entries) <= MaxEntries /\ IsFiniteSet(through)
  /\ \A a \in Addresses : EntrySound(a)

LEMMA InitSound == Init => TableSound
<1> SUFFICES ASSUME Init PROVE TableSound
  OBVIOUS
<1>1. IsFiniteSet({}) /\ Cardinality({}) = 0
  BY FS_EmptySet
<1> QED BY <1>1, AuthAssumption DEF Init, TableSound, EntrySound, InWindow

LEMMA KeptFacts ==
  ASSUME Typed, TableSound, NEW c \in Connections, pc[c] = "limiting"
  PROVE  /\ request[c].clock \in 0 .. now
         /\ IsFiniteSet(Kept(c)) /\ Cardinality(Kept(c)) \in Nat
         /\ TableFull => Kept(c) = {}
         /\ Kept(c) \subseteq InWindow(AddressOf[c], request[c].clock)
         /\ ~TableFull => InWindow(AddressOf[c], now) \subseteq Kept(c)
<1> DEFINE a == AddressOf[c]
<1>1. a \in Addresses
  BY AuthAssumption
<1>2. request[c].clock \in 0 .. now
  <2>1. request[c] \in [method : Limited, user : Users, clock : 0 .. now]
    BY DEF Typed, ConnsTyped, Fits
  <2> QED BY <2>1
<1>3. EntrySound(a)
  BY <1>1 DEF TableSound
<1>4. TableFull => Kept(c) = {}
  BY DEF Kept, Remembered
<1>5. Kept(c) \subseteq InWindow(a, request[c].clock)
  BY <1>3 DEF Kept, Remembered, InWindow, EntrySound
<1>6. ASSUME ~TableFull PROVE InWindow(a, now) \subseteq Kept(c)
  <2>1. Kept(c) = {s \in seen[a] : s.at + Window > request[c].clock}
    BY <1>6 DEF Kept, Remembered
  <2> SUFFICES ASSUME NEW s \in InWindow(a, now) PROVE s \in Kept(c)
    OBVIOUS
  <2>2. s \in seen[a] /\ s.at + Window > now /\ s \in Stamp
    BY <1>3 DEF InWindow, EntrySound, Typed, TableTyped
  <2>3. s.at \in Nat /\ now \in Nat /\ Window \in Nat /\ request[c].clock \in Nat /\ request[c].clock <= now
    BY <1>2, <2>2, AuthAssumption DEF Stamp, Typed, TableTyped
  <2> QED BY <2>1, <2>2, <2>3
<1>7. Kept(c) \subseteq through /\ IsFiniteSet(through)
  BY <1>5 DEF InWindow, TableSound
<1>8. IsFiniteSet(Kept(c)) /\ Cardinality(Kept(c)) \in Nat
  BY <1>7, FS_Subset, FS_CardinalityType
<1> QED BY <1>2, <1>4, <1>5, <1>6, <1>8

LEMMA SoundLetThrough ==
  ASSUME Typed, TableSound, NEW c \in Connections, LetThrough(c)
  PROVE  TableSound'
<1> DEFINE a == AddressOf[c]
           mark == ThisAttempt(c)
<1>1. /\ a \in Addresses /\ mark.conn = c
      /\ seen' = [b \in Addresses |-> IF b = a THEN Kept(c) \cup {mark} ELSE Remembered(b)]
      /\ entries' = (IF TableFull THEN {} ELSE entries) \cup {a}
      /\ through' = (IF TableFull THEN {} ELSE through) \cup {mark}
      /\ now' = now /\ pc[c] = "limiting" /\ Cardinality(Kept(c)) < MaxPerIP
  BY AuthAssumption DEF LetThrough, Remember, ThisAttempt
<1> HIDE DEF mark
<1>2. IsFiniteSet(entries') /\ Cardinality(entries') <= MaxEntries
  <2>1. CASE TableFull
    <3>1. entries' = {a} /\ IsFiniteSet({a}) /\ Cardinality({a}) = 1
      BY <1>1, <2>1, FS_Singleton
    <3> QED BY <3>1, AuthAssumption
  <2>2. CASE ~TableFull
    <3>1. IsFiniteSet(entries) /\ Cardinality(entries) \in Nat /\ Cardinality(entries) < MaxEntries
      BY <2>2, FS_CardinalityType, AuthAssumption DEF TableFull, TableSound
    <3>2. IsFiniteSet(entries \cup {a})
          /\ Cardinality(entries \cup {a}) = IF a \in entries THEN Cardinality(entries) ELSE Cardinality(entries) + 1
      BY <3>1, FS_AddElement
    <3> QED BY <1>1, <2>2, <3>1, <3>2, AuthAssumption
  <2> QED BY <2>1, <2>2
<1>3. IsFiniteSet(through')
  BY <1>1, FS_EmptySet, FS_AddElement DEF TableSound
<1>4. EntrySound(a)'
  <2>1. seen'[a] = Kept(c) \cup {mark}
    BY <1>1
  <2>2. seen'[a] \subseteq {s \in through' : AddressOf[s.conn] = a}
    BY <1>1, <2>1, KeptFacts DEF InWindow
  <2>3. InWindow(a, now)' \subseteq seen'[a]
    BY <1>1, <2>1, KeptFacts DEF InWindow
  <2>4. Cardinality(seen'[a]) <= MaxPerIP
    <3>1. IsFiniteSet(Kept(c)) /\ Cardinality(Kept(c)) \in Nat
      BY <1>1, KeptFacts
    <3>2. Cardinality(Kept(c) \cup {mark}) = IF mark \in Kept(c) THEN Cardinality(Kept(c)) ELSE Cardinality(Kept(c)) + 1
      BY <3>1, FS_AddElement
    <3> QED BY <1>1, <2>1, <3>1, <3>2, AuthAssumption
  <2> QED BY <2>2, <2>3, <2>4 DEF EntrySound
<1>5. ASSUME NEW b \in Addresses, b # a PROVE EntrySound(b)'
  <2>1. seen'[b] = Remembered(b) /\ EntrySound(b)
    BY <1>1, <1>5 DEF TableSound
  <2>2. CASE TableFull
    <3>1. InWindow(b, now)' = {} /\ seen'[b] = {}
      BY <1>1, <1>5, <2>1, <2>2 DEF InWindow, Remembered
    <3> QED BY <3>1, FS_EmptySet, AuthAssumption DEF EntrySound
  <2>3. CASE ~TableFull
    <3>1. InWindow(b, now)' = InWindow(b, now) /\ seen'[b] = seen[b] /\ through \subseteq through'
      BY <1>1, <1>5, <2>1, <2>3 DEF InWindow, Remembered
    <3> QED BY <2>1, <3>1 DEF EntrySound
  <2> QED BY <2>2, <2>3
<1> QED BY <1>2, <1>3, <1>4, <1>5 DEF TableSound

LEMMA SoundRefuse ==
  ASSUME Typed, TableSound, NEW c \in Connections, Refuse(c)
  PROVE  TableSound'
<1> DEFINE a == AddressOf[c]
<1>1. ~TableFull
  BY KeptFacts, FS_EmptySet, AuthAssumption DEF Refuse
<1>2. /\ a \in Addresses
      /\ seen' = [b \in Addresses |-> IF b = a THEN Kept(c) ELSE seen[b]]
      /\ entries' = entries \cup {a} /\ UNCHANGED <<now, through>> /\ pc[c] = "limiting"
  BY <1>1, AuthAssumption DEF Refuse, Remember, Remembered
<1>3. IsFiniteSet(entries') /\ Cardinality(entries') <= MaxEntries
  <2>1. IsFiniteSet(entries) /\ Cardinality(entries) \in Nat /\ Cardinality(entries) < MaxEntries
    BY <1>1, FS_CardinalityType, AuthAssumption DEF TableFull, TableSound
  <2>2. IsFiniteSet(entries \cup {a})
        /\ Cardinality(entries \cup {a}) = IF a \in entries THEN Cardinality(entries) ELSE Cardinality(entries) + 1
    BY <2>1, FS_AddElement
  <2> QED BY <1>2, <2>1, <2>2, AuthAssumption
<1>4. ASSUME NEW b \in Addresses PROVE EntrySound(b)'
  <2>1. EntrySound(b) /\ InWindow(b, now)' = InWindow(b, now)
    BY <1>2 DEF TableSound, InWindow
  <2>2. CASE b # a
    BY <1>2, <2>1, <2>2 DEF EntrySound
  <2>3. CASE b = a
    <3>1. seen'[b] = Kept(c) /\ Kept(c) \subseteq seen[b] /\ InWindow(b, now) \subseteq Kept(c)
      BY <1>1, <1>2, <2>3, KeptFacts DEF Kept, Remembered
    <3>2. IsFiniteSet(seen[b]) /\ Cardinality(seen[b]) \in Nat
      <4>1. seen[b] \subseteq through /\ IsFiniteSet(through)
        BY <2>1 DEF EntrySound, TableSound
      <4> QED BY <4>1, FS_Subset, FS_CardinalityType
    <3>3. Cardinality(Kept(c)) \in Nat /\ Cardinality(Kept(c)) <= Cardinality(seen[b])
      BY <1>2, <3>1, <3>2, FS_Subset, KeptFacts
    <3> QED BY <1>2, <2>1, <3>1, <3>2, <3>3, AuthAssumption DEF EntrySound
  <2> QED BY <2>2, <2>3
<1> QED BY <1>2, <1>3, <1>4 DEF TableSound

\* Time passes: the window only moves on.
LEMMA SoundTick ==
  ASSUME Typed, TableSound, Tick
  PROVE  TableSound'
<1>1. ASSUME NEW a \in Addresses PROVE InWindow(a, now)' \subseteq InWindow(a, now)
  <2> SUFFICES ASSUME NEW s \in through, s.at + Window > now + 1 PROVE s.at + Window > now
    BY DEF Tick, limiterVars, InWindow
  <2>1. s.at \in Nat /\ now \in Nat /\ Window \in Nat
    BY AuthAssumption DEF Typed, TableTyped, Stamp
  <2> QED BY <2>1
<1>2. UNCHANGED limiterVars
  BY DEF Tick
<1> QED BY <1>1, <1>2 DEF limiterVars, TableSound, EntrySound

LEMMA SoundStep == Typed /\ TableSound /\ [Next]_vars => TableSound'
<1> SUFFICES ASSUME Typed, TableSound, [Next]_vars PROVE TableSound'
  OBVIOUS
<1>1. ASSUME UNCHANGED <<now, limiterVars>> PROVE TableSound'
  BY <1>1 DEF limiterVars, TableSound, EntrySound, InWindow
<1> QED BY <1>1, SoundLetThrough, SoundRefuse, SoundTick DEF Next, vars, TakeNone, TakeLimited, TakePublicKey,
            TakeKeyAgain, TakeUnknown, Answer, NoAnswer, NoSecondAnswer, Reject, Accept, Break, GiveUp

LEMMA AlwaysSound == Spec => [](Typed /\ TableSound)
<1>1. Typed /\ TableSound /\ [Next]_vars => (Typed /\ TableSound)'
  BY TableStep, ConnsStep, SoundStep DEF Typed
<1>2. Init => Typed /\ TableSound
  BY InitTyped, InitSound
<1> QED BY <1>1, <1>2, PTL DEF Spec

\* The types of the variables and the two limits of the table hold for any numbers of
\* connections and addresses and any limits.
THEOREM TypeCorrect == Spec => []TypeOK
<1>1. Typed /\ TableSound => TypeOK
  BY DEF Typed, TableTyped, ConnsTyped, TableSound, EntrySound, TypeOK, Places
<1> QED BY <1>1, AlwaysSound, PTL

(***************************************************************************)
(* Any window.  What the limiter has forgotten of an address was older     *)
(* than the window of an attempt that it has let through; or it was older  *)
(* than all it remembers, which are as many as the limit and were kept by  *)
(* an attempt that it refused.  So an attempt that is let through and has  *)
(* not been overtaken finds all others of its windows remembered.          *)
(***************************************************************************)
Forgotten(a, r) == r \in through /\ AddressOf[r.conn] = a /\ r \notin seen[a]
Superseded(a, r) == \E q \in through : AddressOf[q.conn] = a /\ q.at >= r.at + Window
FullSince(a, r) == Cardinality(seen[a]) >= MaxPerIP /\ \A q \in seen[a] : q.at > r.at

Remembers(a) == \A r \in Stamp : Forgotten(a, r) => Superseded(a, r) \/ FullSince(a, r)

WindowsSound ==
  \A a \in Addresses : Remembers(a) /\ \A t \in 0 .. MaxTime : Cardinality(OnTime(a, t)) <= MaxPerIP

LEMMA Numbers ==
  ASSUME Typed
  PROVE  /\ \A s \in Stamp : s.at \in Nat
         /\ Window \in Nat /\ MaxPerIP \in Nat \ {0}
         /\ through \subseteq Stamp
         /\ \A c \in Connections : pc[c] = "limiting" => request[c].clock \in Nat
<1>1. \A s \in Stamp : s.at \in Nat
  BY DEF Stamp
<1>2. ASSUME NEW c \in Connections, pc[c] = "limiting" PROVE request[c].clock \in Nat
  <2>1. request[c] \in [method : Limited, user : Users, clock : 0 .. now] /\ now \in Nat
    BY <1>2 DEF Typed, TableTyped, ConnsTyped, Fits
  <2> QED BY <2>1
<1> QED BY <1>1, <1>2, AuthAssumption DEF Typed, TableTyped

LEMMA OnTimeFinite ==
  ASSUME TableSound, NEW a, NEW t
  PROVE  IsFiniteSet(OnTime(a, t)) /\ Cardinality(OnTime(a, t)) \in Nat
<1>1. OnTime(a, t) \subseteq through /\ IsFiniteSet(through)
  BY DEF OnTime, InWindow, TableSound
<1> QED BY <1>1, FS_Subset, FS_CardinalityType

\* What happens to the other addresses, and to all of them when the table is reset.
LEMMA WindowsElsewhere ==
  ASSUME Typed, TableSound, WindowsSound, NEW c \in Connections, LetThrough(c),
         NEW a \in Addresses, a # AddressOf[c] \/ TableFull
  PROVE  (Remembers(a) /\ \A t \in 0 .. MaxTime : Cardinality(OnTime(a, t)) <= MaxPerIP)'
<1> DEFINE mark == ThisAttempt(c)
<1>1. /\ mark.conn = c /\ AddressOf[c] \in Addresses
      /\ seen' = [b \in Addresses |-> IF b = AddressOf[c] THEN Kept(c) \cup {mark} ELSE Remembered(b)]
      /\ through' = (IF TableFull THEN {} ELSE through) \cup {mark}
      /\ late' = (IF TableFull THEN {} ELSE late) \cup (IF Overtaken(c) THEN {mark} ELSE {})
  BY AuthAssumption DEF LetThrough, Remember, ThisAttempt
<1> HIDE DEF mark
<1>2. CASE ~TableFull
  <2>1. /\ seen'[a] = seen[a] /\ through' = through \cup {mark} /\ AddressOf[mark.conn] # a
        /\ late \subseteq late' /\ late' \subseteq late \cup {mark}
    BY <1>1, <1>2 DEF Remembered
  <2>2. \A t : OnTime(a, t)' = OnTime(a, t)
    BY <2>1 DEF OnTime, InWindow
  <2>3. Remembers(a)'
    BY <2>1 DEF WindowsSound, Remembers, Forgotten, Superseded, FullSince
  <2> QED BY <2>2, <2>3 DEF WindowsSound
<1>3. CASE TableFull
  <2>1. through' = {mark} /\ (a = AddressOf[c] => mark \in seen'[a])
    BY <1>1, <1>3
  <2>2. Remembers(a)'
    BY <1>1, <2>1 DEF Remembers, Forgotten
  <2>3. ASSUME NEW t \in 0 .. MaxTime PROVE Cardinality(OnTime(a, t))' <= MaxPerIP
    <3>1. OnTime(a, t)' \subseteq {mark} /\ IsFiniteSet({mark}) /\ Cardinality({mark}) = 1
      BY <2>1, FS_Singleton DEF OnTime, InWindow
    <3>2. Cardinality(OnTime(a, t)') \in Nat /\ Cardinality(OnTime(a, t)') <= 1
      BY <3>1, FS_Subset, FS_CardinalityType
    <3> QED BY <3>2, AuthAssumption
  <2> QED BY <2>2, <2>3
<1> QED BY <1>2, <1>3

\* The address of an attempt that is let through.
LEMMA WindowsHere ==
  ASSUME Typed, TableSound, WindowsSound, NEW c \in Connections, LetThrough(c), ~TableFull
  PROVE  (Remembers(AddressOf[c]) /\ \A t \in 0 .. MaxTime : Cardinality(OnTime(AddressOf[c], t)) <= MaxPerIP)'
<1> DEFINE a == AddressOf[c]
           mark == ThisAttempt(c)
           clock == request[c].clock
<1>1. /\ mark.conn = c /\ mark.at = clock /\ a \in Addresses
      /\ seen'[a] = Kept(c) \cup {mark} /\ through' = through \cup {mark}
      /\ late' = late \cup (IF Overtaken(c) THEN {mark} ELSE {})
      /\ pc[c] = "limiting" /\ Cardinality(Kept(c)) < MaxPerIP
      /\ Kept(c) = {s \in seen[a] : s.at + Window > clock}
  BY AuthAssumption DEF LetThrough, Remember, ThisAttempt, Kept, Remembered
<1>2. /\ clock \in Nat /\ Window \in Nat /\ MaxPerIP \in Nat /\ Cardinality(Kept(c)) \in Nat
      /\ IsFiniteSet(Kept(c)) /\ Remembers(a) /\ through \subseteq Stamp /\ seen[a] \subseteq Stamp
      /\ \A s \in Stamp : s.at \in Nat
  BY <1>1, Numbers, KeptFacts DEF WindowsSound, Typed, TableTyped
<1> HIDE DEF mark, clock, a
\* Had it been full since, all that is remembered would have been kept.
<1>3. ASSUME NEW r \in through, FullSince(a, r) PROVE r.at + Window <= clock
  <2>1. SUFFICES ASSUME r.at + Window > clock PROVE FALSE
    BY <1>2
  <2>2. \A s \in seen[a] : s.at + Window > clock
    BY <1>2, <1>3, <2>1 DEF FullSince
  <2>3. Kept(c) = seen[a]
    BY <1>1, <2>2
  <2>4. Cardinality(Kept(c)) >= MaxPerIP
    BY <1>3, <2>3, Zenon DEF FullSince
  <2>5. Cardinality(Kept(c)) < MaxPerIP /\ Cardinality(Kept(c)) \in Nat /\ MaxPerIP \in Nat
    BY <1>1, <1>2, Zenon
  <2> QED BY <2>4, <2>5
<1>4. Remembers(a)'
  <2> SUFFICES ASSUME NEW r \in Stamp, Forgotten(a, r)' PROVE Superseded(a, r)'
    BY DEF Remembers
  <2>1. r \in through /\ r \notin Kept(c) /\ AddressOf[r.conn] = a
    BY <1>1 DEF Forgotten
  <2>2. CASE r.at + Window <= clock
    <3>1. mark.at >= r.at + Window /\ mark \in through' /\ AddressOf[mark.conn] = a
      BY <1>1, <1>2, <2>2 DEF a
    <3> QED BY <3>1 DEF Superseded
  <2>3. CASE ~(r.at + Window <= clock)
    <3>1. Forgotten(a, r)
      BY <1>1, <1>2, <2>1, <2>3 DEF Forgotten
    <3>2. Superseded(a, r)
      BY <1>2, <1>3, <2>1, <2>3, <3>1 DEF Remembers
    <3> QED BY <1>1, <3>2 DEF Superseded
  <2> QED BY <2>2, <2>3
<1>5. ASSUME NEW t \in 0 .. MaxTime PROVE Cardinality(OnTime(a, t))' <= MaxPerIP
  <2>1. /\ IsFiniteSet(OnTime(a, t)) /\ Cardinality(OnTime(a, t)) \in Nat
        /\ Cardinality(OnTime(a, t)) <= MaxPerIP /\ t \in Nat
    BY <1>1, OnTimeFinite, AuthAssumption DEF WindowsSound
  <2>2. OnTime(a, t)' \subseteq OnTime(a, t) \cup {mark}
    BY <1>1 DEF OnTime, InWindow
  <2>3. CASE mark \notin OnTime(a, t)'
    <3>1. OnTime(a, t)' \subseteq OnTime(a, t)
      BY <2>2, <2>3
    <3>2. Cardinality(OnTime(a, t)') \in Nat /\ Cardinality(OnTime(a, t)') <= Cardinality(OnTime(a, t))
      BY <2>1, <3>1, FS_Subset, FS_CardinalityType
    <3> QED BY <1>2, <2>1, <3>2
  <2>4. CASE mark \in OnTime(a, t)'
    <3>1. clock <= t /\ ~Overtaken(c)
      BY <1>1, <2>4 DEF OnTime
    <3>2. ASSUME NEW r \in OnTime(a, t) PROVE r \in Kept(c)
      <4>1. r \in through /\ r \in Stamp /\ AddressOf[r.conn] = a /\ r.at + Window > t /\ r.at \in Nat
        BY <1>2, <3>2 DEF OnTime, InWindow
      <4>2. r.at + Window > clock
        BY <1>2, <2>1, <3>1, <4>1
      <4>3. ~Superseded(a, r)
        <5>1. SUFFICES ASSUME NEW q \in through, AddressOf[q.conn] = a, q.at >= r.at + Window PROVE FALSE
          BY DEF Superseded
        <5>2. q.at > clock
          BY <1>2, <4>1, <4>2, <5>1
        <5> QED BY <3>1, <5>1, <5>2 DEF Overtaken, a, clock
      <4>4. ~FullSince(a, r)
        BY <1>2, <1>3, <4>1, <4>2
      <4>5. r \in seen[a]
        BY <1>2, <4>1, <4>3, <4>4 DEF Remembers, Forgotten
      <4> QED BY <1>1, <4>2, <4>5
    <3>3. OnTime(a, t)' \subseteq Kept(c) \cup {mark}
      BY <2>2, <3>2
    <3>4. /\ IsFiniteSet(Kept(c) \cup {mark})
          /\ Cardinality(Kept(c) \cup {mark}) = IF mark \in Kept(c) THEN Cardinality(Kept(c)) ELSE Cardinality(Kept(c)) + 1
      BY <1>2, FS_AddElement
    <3>5. Cardinality(OnTime(a, t)') \in Nat /\ Cardinality(OnTime(a, t)') <= Cardinality(Kept(c) \cup {mark})
      BY <3>3, <3>4, FS_Subset, FS_CardinalityType
    <3> QED BY <1>1, <1>2, <3>4, <3>5
  <2> QED BY <2>3, <2>4
<1> QED BY <1>4, <1>5 DEF a

LEMMA WindowsRefuse ==
  ASSUME Typed, TableSound, WindowsSound, NEW c \in Connections, Refuse(c)
  PROVE  WindowsSound'
<1> DEFINE a == AddressOf[c]
           clock == request[c].clock
<1>1. ~TableFull
  BY KeptFacts, FS_EmptySet, AuthAssumption DEF Refuse
<1>2. /\ a \in Addresses /\ pc[c] = "limiting" /\ UNCHANGED <<through, late>>
      /\ seen' = [b \in Addresses |-> IF b = a THEN Kept(c) ELSE seen[b]]
      /\ Kept(c) = {s \in seen[a] : s.at + Window > clock} /\ Cardinality(Kept(c)) >= MaxPerIP
  BY <1>1, AuthAssumption DEF Refuse, Remember, Kept, Remembered
<1>3. /\ clock \in Nat /\ Window \in Nat /\ \A s \in Stamp : s.at \in Nat
      /\ Remembers(a) /\ seen[a] \subseteq Stamp /\ through \subseteq Stamp
  BY <1>2, Numbers DEF WindowsSound, Typed, TableTyped
<1> HIDE DEF clock
<1>4. \A b, t : OnTime(b, t)' = OnTime(b, t)
  BY <1>2 DEF OnTime, InWindow
<1>5. ASSUME NEW b \in Addresses PROVE Remembers(b)'
  <2>1. CASE b # a
    BY <1>2, <2>1 DEF WindowsSound, Remembers, Forgotten, Superseded, FullSince
  <2>2. CASE b = a
    <3> SUFFICES ASSUME NEW r \in Stamp, Forgotten(a, r)' PROVE Superseded(a, r)' \/ FullSince(a, r)'
      BY <2>2 DEF Remembers
    <3>1. seen'[a] = Kept(c) /\ Kept(c) \subseteq seen[a] /\ r \notin Kept(c) /\ r.at \in Nat
      BY <1>2, <1>3 DEF Forgotten
    <3>2. CASE r \in seen[a]
      <4>1. ~(r.at + Window > clock)
        BY <1>2, <3>1, <3>2
      <4>2. \A q \in Kept(c) : q.at > r.at
        BY <1>2, <1>3, <3>1, <4>1
      <4> QED BY <1>2, <3>1, <4>2 DEF FullSince
    <3>3. CASE r \notin seen[a]
      <4>1. Superseded(a, r) \/ FullSince(a, r)
        BY <1>2, <1>3, <3>3 DEF Remembers, Forgotten
      <4> QED BY <1>2, <3>1, <4>1 DEF Superseded, FullSince
    <3> QED BY <3>2, <3>3
  <2> QED BY <2>1, <2>2
<1> QED BY <1>4, <1>5 DEF WindowsSound

LEMMA WindowsStep == Typed /\ TableSound /\ WindowsSound /\ [Next]_vars => WindowsSound'
<1> SUFFICES ASSUME Typed, TableSound, WindowsSound, [Next]_vars PROVE WindowsSound'
  OBVIOUS
<1>1. ASSUME UNCHANGED limiterVars PROVE WindowsSound'
  BY <1>1 DEF limiterVars, WindowsSound, Remembers, Forgotten, Superseded, FullSince, OnTime, InWindow
<1>2. ASSUME NEW c \in Connections, LetThrough(c) PROVE WindowsSound'
  BY <1>2, WindowsHere, WindowsElsewhere DEF WindowsSound
<1> QED BY <1>1, <1>2, WindowsRefuse DEF Next, vars, TakeNone, TakeLimited, TakePublicKey, TakeKeyAgain,
            TakeUnknown, Answer, NoAnswer, NoSecondAnswer, Reject, Accept, Break, GiveUp, Tick

LEMMA InitWindows == Init => WindowsSound
<1> SUFFICES ASSUME Init PROVE WindowsSound
  OBVIOUS
<1>1. \A a, t : OnTime(a, t) = {}
  BY DEF Init, OnTime, InWindow
<1>2. Cardinality({}) <= MaxPerIP
  BY FS_EmptySet, AuthAssumption
<1> QED BY <1>1, <1>2 DEF Init, WindowsSound, Remembers, Forgotten

\* Of the attempts of one address no more than the limit are let through in the window
\* that ends now, and in any window but for those that have been overtaken.
THEOREM RateNeverExceeded == Spec => []RateBounded
<1>1. TableSound => \A a \in Addresses : Cardinality(InWindow(a, now)) <= MaxPerIP
  <2> SUFFICES ASSUME TableSound, NEW a \in Addresses
               PROVE  Cardinality(InWindow(a, now)) <= MaxPerIP
    OBVIOUS
  <2>1. seen[a] \subseteq through /\ IsFiniteSet(through) /\ InWindow(a, now) \subseteq seen[a]
        /\ Cardinality(seen[a]) <= MaxPerIP
    BY DEF TableSound, EntrySound
  <2>2. IsFiniteSet(seen[a]) /\ Cardinality(seen[a]) \in Nat
    BY <2>1, FS_Subset, FS_CardinalityType
  <2>3. Cardinality(InWindow(a, now)) \in Nat /\ Cardinality(InWindow(a, now)) <= Cardinality(seen[a])
    BY <2>1, <2>2, FS_Subset, FS_CardinalityType
  <2> QED BY <2>1, <2>2, <2>3, AuthAssumption
<1>2. TableSound /\ WindowsSound => RateBounded
  BY <1>1 DEF WindowsSound, RateBounded
<1>3. Typed /\ TableSound /\ WindowsSound /\ [Next]_vars => WindowsSound'
  BY WindowsStep
<1> QED BY <1>2, <1>3, InitWindows, AlwaysSound, PTL DEF Spec

\* Nobody is refused unless as many as the limit were let through that are not a window old
\* at the clock reading of the refused attempt.
THEOREM RefusedWithCause == Spec => RefusedOnlyWhenFull
<1> DEFINE Cause == \A c \in Connections :
             pc[c] = "limiting" /\ pc'[c] \in {"waiting", "failed"} =>
               Cardinality(InWindow(AddressOf[c], request[c].clock)) >= MaxPerIP
<1>1. ASSUME Typed, TableSound, [Next]_vars, NEW c \in Connections,
             pc[c] = "limiting", pc'[c] \in {"waiting", "failed"}
      PROVE  Cardinality(InWindow(AddressOf[c], request[c].clock)) >= MaxPerIP
  <2>1. Refuse(c)
    <3>1. pc \in [Connections -> Places]
      BY <1>1 DEF Typed, ConnsTyped
    <3>2. ASSUME NEW d \in Connections, NEW place, pc' = [pc EXCEPT ![d] = place]
          PROVE  d = c /\ place \in {"waiting", "failed"}
      BY <1>1, <3>1, <3>2
    <3>3. pc' # pc
      BY <1>1
    <3>4. ASSUME NEW d \in Connections, Fail(d) PROVE d = c
      BY <3>2, <3>4 DEF Fail, Goto
    <3>5. ~Tick /\ ~UNCHANGED vars
      BY <3>3 DEF Tick, vars, connVars
    <3>6. ASSUME NEW d \in Connections, LetThrough(d) \/ Answer(d) \/ GiveUp(d) PROVE FALSE
      <4>1. d = c
        BY <3>2, <3>6 DEF LetThrough, Answer, GiveUp, Goto
      <4> QED BY <1>1, <3>2, <3>6, <4>1 DEF LetThrough, Answer, GiveUp, Goto
    <3>7. ASSUME NEW d \in Connections,
                 TakePublicKey(d) \/ TakeKeyAgain(d) \/ NoAnswer(d) \/ NoSecondAnswer(d) \/ Break(d)
          PROVE  FALSE
      BY <1>1, <3>3, <3>4, <3>7 DEF TakePublicKey, TakeKeyAgain, Take, NoAnswer, NoSecondAnswer, Break
    <3>8. ASSUME NEW d \in Connections, NEW u, TakeNone(d, u) PROVE FALSE
      BY <1>1, <3>2, <3>3, <3>4, <3>8 DEF TakeNone, Take, Unpunished, Goto
    <3>9. ASSUME NEW d \in Connections, NEW m, NEW u, TakeLimited(d, m, u) \/ TakeUnknown(d, m) PROVE FALSE
      BY <1>1, <3>2, <3>3, <3>4, <3>9 DEF TakeLimited, TakeUnknown, Take, Unpunished, Goto
    <3>10. ASSUME NEW d \in Connections, NEW pw, Reject(d, pw) \/ Accept(d, pw) PROVE FALSE
      BY <1>1, <3>2, <3>3, <3>4, <3>10 DEF Reject, Accept, Goto
    <3>11. PICK d \in Connections : Refuse(d)
      BY <1>1, <3>5, <3>6, <3>7, <3>8, <3>9, <3>10 DEF Next
    <3> QED BY <3>4, <3>11 DEF Refuse
  <2>2. Cardinality(Kept(c)) >= MaxPerIP /\ Kept(c) \subseteq InWindow(AddressOf[c], request[c].clock)
        /\ Cardinality(Kept(c)) \in Nat
    BY <1>1, <2>1, KeptFacts DEF Refuse
  <2>3. InWindow(AddressOf[c], request[c].clock) \subseteq through /\ IsFiniteSet(through)
    BY <1>1 DEF InWindow, TableSound
  <2>4. IsFiniteSet(InWindow(AddressOf[c], request[c].clock))
    BY <2>3, FS_Subset
  <2>5. Cardinality(InWindow(AddressOf[c], request[c].clock)) \in Nat
        /\ Cardinality(Kept(c)) <= Cardinality(InWindow(AddressOf[c], request[c].clock))
    BY <2>2, <2>4, FS_Subset, FS_CardinalityType
  <2> QED BY <2>2, <2>5, AuthAssumption
<1>2. Typed /\ TableSound /\ [Next]_vars => Cause
  BY <1>1
<1>3. Typed /\ TableSound /\ [Next]_vars => [Cause]_vars
  BY <1>2
<1> QED BY <1>3, AlwaysSound, PTL DEF Spec, RefusedOnlyWhenFull

---------------------------------------------------------------------------
(* A step of one connection, and what it leaves to the others. *)

ConnStep(c) ==
  \/ \E u \in Names[c] : TakeNone(c, u) \/ \E m \in Limited : TakeLimited(c, m, u)
  \/ TakePublicKey(c) \/ TakeKeyAgain(c) \/ \E m \in AllMethods : TakeUnknown(c, m)
  \/ LetThrough(c) \/ Refuse(c)
  \/ Answer(c) \/ NoAnswer(c) \/ NoSecondAnswer(c)
  \/ \E pw \in Passwords : Reject(c, pw) \/ Accept(c, pw)
  \/ Break(c) \/ GiveUp(c)

LEMMA OthersStay ==
  ASSUME Typed, NEW c \in Connections, ConnStep(c), NEW d \in Connections, d # c
  PROVE  UNCHANGED <<pc[d], request[d], tries[d], trail[d], bypassed[d]>>
<1> USE DEF Typed, ConnsTyped, Fail, Goto, Handle, Take, Unpunished, Bypass, Record
<1>1. CASE \E u \in Names[c] : TakeNone(c, u) \/ \E m \in Limited : TakeLimited(c, m, u)
  BY <1>1 DEF TakeNone, TakeLimited
<1>2. CASE TakePublicKey(c) \/ TakeKeyAgain(c) \/ \E m \in AllMethods : TakeUnknown(c, m)
  BY <1>2 DEF TakePublicKey, TakeKeyAgain, TakeUnknown
<1>3. CASE LetThrough(c) \/ Refuse(c)
  BY <1>3 DEF LetThrough, Refuse
<1>4. CASE Answer(c) \/ NoAnswer(c) \/ NoSecondAnswer(c) \/ Break(c) \/ GiveUp(c)
  BY <1>4 DEF Answer, NoAnswer, NoSecondAnswer, Break, GiveUp
<1>5. CASE \E pw \in Passwords : Reject(c, pw) \/ Accept(c, pw)
  BY <1>5 DEF Reject, Accept
<1> QED BY <1>1, <1>2, <1>3, <1>4, <1>5 DEF ConnStep

---------------------------------------------------------------------------
(* Who is let in. *)

NoSuccess(events) == \A i \in 1 .. Len(events) : ~events[i].ok

LetIn(c) ==
  /\ request[c].user \in Allowed
  /\ \A i \in 1 .. Len(trail[c]) - 1 : ~trail[c][i].ok
  /\ IF request[c].method = "none" THEN "none" \in Methods /\ NoSuccess(trail[c])
     ELSE /\ trail[c] # <<>>
          /\ LET e == trail[c][Len(trail[c])]
             IN e.ok /\ e.try = tries[c] /\ e.user = request[c].user /\ e.password \in Weak

Entitled(c) == (Active(pc[c]) => NoSuccess(trail[c])) /\ (pc[c] = "in" => LetIn(c))

LEMMA FailureIsNoSuccess ==
  ASSUME Typed, NEW c \in Connections, NEW n \in Nat,
         Record(c, Failure(n)) \/ Record(c, KeyRefused(n)), NoSuccess(trail[c])
  PROVE  NoSuccess(trail'[c])
<1>1. PICK e \in {Failure(n), KeyRefused(n)} : trail'[c] = Append(trail[c], e)
  BY DEF Typed, ConnsTyped, Record
<1>2. trail[c] \in Seq(Attempt) /\ ~e.ok
  BY DEF Typed, ConnsTyped, Failure, KeyRefused
<1> QED BY <1>1, <1>2 DEF NoSuccess

LEMMA EntitledAccept ==
  ASSUME Typed, NEW c \in Connections, NEW pw \in Passwords, Accept(c, pw), NoSuccess(trail[c])
  PROVE  Entitled(c)'
<1> DEFINE e == [try |-> tries[c], ok |-> TRUE, user |-> request[c].user, password |-> pw]
<1>1. /\ trail[c] \in Seq(Attempt) /\ trail'[c] = Append(trail[c], e)
      /\ request'[c] = request[c] /\ tries'[c] = tries[c] /\ pc'[c] \in {"in", "failed"}
      /\ request[c].user \in Allowed /\ pw \in Weak
  BY DEF Typed, ConnsTyped, Accept, Record, Goto, MayPass
<1>2. request[c].method # "none"
  <2>1. request[c] \in [method : Limited, user : Users]
          \/ request[c] \in [method : {"keyboard-interactive"}, user : Users]
    BY DEF Accept, Typed, ConnsTyped, Fits
  <2> QED BY <2>1 DEF Limited
<1>3. e.ok /\ e.try = tries[c] /\ e.user = request[c].user /\ e.password = pw
  OBVIOUS
<1> HIDE DEF e
<1>4. /\ trail'[c] # <<>> /\ trail'[c][Len(trail'[c])] = e
      /\ \A i \in 1 .. Len(trail'[c]) - 1 : ~trail'[c][i].ok
  BY <1>1 DEF NoSuccess
<1> QED BY <1>1, <1>2, <1>3, <1>4 DEF Entitled, LetIn, Active

LEMMA EntitledNone ==
  ASSUME Typed, NEW c \in Connections, NEW u, TakeNone(c, u), u \in Allowed, NoSuccess(trail[c])
  PROVE  Entitled(c)'
<1>1. /\ trail' = trail /\ pc'[c] = "in" /\ request'[c] = [method |-> "none", user |-> u]
      /\ "none" \in Methods /\ trail[c] \in Seq(Attempt)
  BY DEF Typed, ConnsTyped, TakeNone, Goto, Handle
<1>2. request'[c].method = "none" /\ request'[c].user = u
  BY <1>1
<1>3. \A i \in 1 .. Len(trail[c]) - 1 : i \in 1 .. Len(trail[c])
  BY <1>1
<1> QED BY <1>1, <1>2, <1>3 DEF Entitled, LetIn, Active, NoSuccess

LEMMA EntitledStep ==
  Typed /\ (\A c \in Connections : Entitled(c)) /\ [Next]_vars => (\A c \in Connections : Entitled(c))'
<1> SUFFICES ASSUME Typed, \A c \in Connections : Entitled(c), [Next]_vars, NEW d \in Connections
             PROVE  Entitled(d)'
  OBVIOUS
<1>1. ASSUME UNCHANGED <<pc[d], request[d], tries[d], trail[d]>> PROVE Entitled(d)'
  BY <1>1 DEF Entitled, LetIn
<1>2. CASE Tick \/ UNCHANGED vars
  BY <1>1, <1>2 DEF Tick, vars, connVars
<1>3. ASSUME NEW c \in Connections, ConnStep(c), c # d PROVE Entitled(d)'
  BY <1>1, <1>3, OthersStay
<1>4. ASSUME ConnStep(d) PROVE Entitled(d)'
  <2>1. pc[d] \notin {"in", "failed"} /\ NoSuccess(trail[d])
    BY <1>4 DEF ConnStep, TakeNone, TakeLimited, TakePublicKey, TakeKeyAgain, TakeUnknown, Take, LetThrough, Refuse, Answer,
       NoAnswer, NoSecondAnswer, Reject, Accept, Break, GiveUp, Entitled, Active
  <2>2. ASSUME NoSuccess(trail'[d]), pc'[d] # "in" PROVE Entitled(d)'
    BY <2>2 DEF Entitled
  <2>3. ASSUME Fail(d) PROVE pc'[d] # "in"
    BY <2>3 DEF Fail, Goto, Typed, ConnsTyped
  <2>4. tries[d] \in Nat /\ tries[d] + 1 \in Nat /\ pc \in [Connections -> Places]
    BY DEF Typed, ConnsTyped
  <2>5. CASE \E u \in Names[d] : TakeNone(d, u)
    BY <2>1, <2>2, <2>3, <2>5, EntitledNone DEF TakeNone, Unpunished
  <2>6. CASE \E u \in Names[d], m \in Limited : TakeLimited(d, m, u)
    BY <2>1, <2>2, <2>4, <2>6 DEF TakeLimited, Goto
  <2>7. CASE TakePublicKey(d)
    BY <2>1, <2>2, <2>3, <2>4, <2>7, FailureIsNoSuccess DEF TakePublicKey
  <2>8. CASE TakeKeyAgain(d) \/ \E m \in AllMethods : TakeUnknown(d, m)
    BY <2>1, <2>2, <2>3, <2>8 DEF TakeKeyAgain, TakeUnknown, Unpunished
  <2>9. CASE LetThrough(d) \/ Answer(d) \/ GiveUp(d)
    BY <2>1, <2>2, <2>4, <2>9 DEF LetThrough, Answer, GiveUp, Goto
  <2>10. CASE Refuse(d) \/ NoSecondAnswer(d)
    BY <2>1, <2>2, <2>3, <2>10 DEF Refuse, NoSecondAnswer
  <2>11. CASE NoAnswer(d)
    BY <2>1, <2>2, <2>3, <2>4, <2>11, FailureIsNoSuccess DEF NoAnswer
  <2>12. CASE \E pw \in Passwords : Reject(d, pw)
    BY <2>1, <2>2, <2>3, <2>4, <2>12, FailureIsNoSuccess DEF Reject, Goto
  <2>13. CASE \E pw \in Passwords : Accept(d, pw)
    BY <2>1, <2>13, EntitledAccept
  <2>14. CASE Break(d)
    BY <2>1, <2>2, <2>14 DEF Break
  <2> QED BY <1>4, <2>5, <2>6, <2>7, <2>8, <2>9, <2>10, <2>11, <2>12, <2>13, <2>14 DEF ConnStep
<1> QED BY <1>2, <1>3, <1>4 DEF Next, ConnStep

\* Whoever is let in may log in, and the record says how.
THEOREM LoginsExplained == Spec => []LoginExplained
<1>1. Init => \A c \in Connections : Entitled(c)
  BY DEF Init, Entitled, NoSuccess
<1>2. (\A c \in Connections : Entitled(c)) => LoginExplained
  BY DEF Entitled, LetIn, NoSuccess, LoginExplained
<1> QED BY <1>1, <1>2, EntitledStep, AlwaysTyped, PTL DEF Spec

---------------------------------------------------------------------------
(* What is recorded. *)

EventsIn(events, n) == {i \in 1 .. Len(events) : events[i].try = n}

Recorded(c, n) ==
  IF n \in bypassed[c] THEN EventsOf(c, n) = {} ELSE Cardinality(EventsOf(c, n)) \in 1 .. 2

\* All earlier requests are accounted for, and the one in progress has left no event yet,
\* or one if it is in its second round.
Accounted(c) ==
  /\ bypassed[c] \subseteq 1 .. tries[c]
  /\ \A i \in 1 .. Len(trail[c]) : trail[c][i].try \in 1 .. tries[c]
  /\ \A n \in 1 .. tries[c] : AtRest(c) \/ n < tries[c] => Recorded(c, n)
  /\ ~AtRest(c) =>
       /\ tries[c] \in 1 .. tries[c] /\ tries[c] \notin bypassed[c]
       /\ Cardinality(EventsOf(c, tries[c])) = IF pc[c] \in {"asking-again", "checking-again"} THEN 1 ELSE 0

LEMMA EventsFinite ==
  ASSUME NEW events \in Seq(Attempt), NEW n
  PROVE  /\ IsFiniteSet(EventsIn(events, n)) /\ Cardinality(EventsIn(events, n)) \in Nat
         /\ Cardinality(EventsIn(events, n)) = 0 <=> EventsIn(events, n) = {}
<1>1. EventsIn(events, n) \subseteq 1 .. Len(events) /\ IsFiniteSet(1 .. Len(events))
  BY FS_Interval DEF EventsIn
<1> QED BY <1>1, FS_Subset, FS_CardinalityType, FS_EmptySet

LEMMA EventAdded ==
  ASSUME NEW events \in Seq(Attempt), NEW e \in Attempt
  PROVE  /\ \A n : n # e.try => EventsIn(Append(events, e), n) = EventsIn(events, n)
         /\ Cardinality(EventsIn(Append(events, e), e.try)) = Cardinality(EventsIn(events, e.try)) + 1
<1> DEFINE more == Append(events, e)
           last == Len(events) + 1
<1>1. /\ last \in Nat /\ last \notin 1 .. Len(events) /\ 1 .. Len(more) = 1 .. Len(events) \cup {last}
      /\ more[last] = e /\ \A i \in 1 .. Len(events) : more[i] = events[i]
  OBVIOUS
<1> HIDE DEF more, last
<1>2. ASSUME NEW n, n # e.try PROVE EventsIn(more, n) = EventsIn(events, n)
  BY <1>1, <1>2 DEF EventsIn
<1>3. EventsIn(more, e.try) = EventsIn(events, e.try) \cup {last} /\ last \notin EventsIn(events, e.try)
  BY <1>1 DEF EventsIn
<1>4. Cardinality(EventsIn(more, e.try)) = Cardinality(EventsIn(events, e.try)) + 1
  BY <1>3, EventsFinite, FS_AddElement
<1> QED BY <1>2, <1>4 DEF more

\* A request is taken: either it is in progress and has left nothing, or it is over at once.
LEMMA AccountedTake ==
  ASSUME Typed, NEW c \in Connections, Accounted(c), Take(c), tries'[c] = tries[c] + 1,
         \/ /\ pc'[c] = "limiting"
            /\ UNCHANGED <<trail[c], bypassed[c]>>
         \/ /\ AtRest(c)' /\ trail'[c] = trail[c]
            /\ bypassed'[c] = bypassed[c] \cup {tries[c] + 1}
         \/ /\ AtRest(c)' /\ trail'[c] = Append(trail[c], KeyRefused(tries[c] + 1))
            /\ bypassed'[c] = bypassed[c]
  PROVE  Accounted(c)'
<1>0. PICK t \in Nat : t = tries[c]
  BY DEF Typed, ConnsTyped
<1>1. t \in Nat /\ trail[c] \in Seq(Attempt) /\ AtRest(c) /\ t + 1 \in Nat
  BY DEF Typed, ConnsTyped, Take, AtRest
<1>2. 1 .. t \subseteq 1 .. t + 1 /\ t + 1 \notin 1 .. t /\ t + 1 \in 1 .. t + 1
      /\ \A n \in 1 .. t + 1 : n \in 1 .. t \/ n = t + 1
  BY <1>0, <1>1
<1>3. EventsOf(c, t + 1) = {} /\ Cardinality(EventsOf(c, t + 1)) = 0
  <2>1. EventsOf(c, t + 1) = {}
    BY <1>0, <1>2 DEF Accounted, EventsOf
  <2> QED BY <1>0, <2>1, FS_EmptySet
<1>4. \A n \in 1 .. t : Recorded(c, n)
  BY <1>0, <1>1 DEF Accounted
<1>5. KeyRefused(t + 1) \in Attempt /\ KeyRefused(t + 1).try = t + 1
  BY <1>0, <1>1 DEF KeyRefused, Attempt
<1>6. CASE pc'[c] = "limiting" /\ UNCHANGED <<trail[c], bypassed[c]>>
  <2>1. \A n : EventsOf(c, n)' = EventsOf(c, n)
    BY <1>0, <1>6 DEF EventsOf
  <2>2. \A n \in 1 .. t : Recorded(c, n)'
    BY <1>0, <1>4, <1>6, <2>1 DEF Recorded
  <2>3. \A n \in 1 .. t + 1 : n < t + 1 => n \in 1 .. t
    BY <1>0, <1>1
  <2>4. \A i \in 1 .. Len(trail'[c]) : trail'[c][i].try \in 1 .. t + 1
    BY <1>0, <1>2, <1>6 DEF Accounted
  <2>5. bypassed'[c] \subseteq 1 .. t + 1 /\ t + 1 \notin bypassed'[c]
    BY <1>0, <1>2, <1>6 DEF Accounted
  <2>6. ~AtRest(c)' /\ pc'[c] \notin {"asking-again", "checking-again"}
    BY <1>0, <1>6 DEF AtRest
  <2> QED BY <1>0, <1>2, <1>3, <2>1, <2>2, <2>3, <2>4, <2>5, <2>6 DEF Accounted
<1>7. CASE AtRest(c)' /\ trail'[c] = trail[c] /\ bypassed'[c] = bypassed[c] \cup {t + 1}
  <2>1. \A n : EventsOf(c, n)' = EventsOf(c, n)
    BY <1>0, <1>7 DEF EventsOf
  <2>2. \A n \in 1 .. t + 1 : Recorded(c, n)'
    BY <1>0, <1>2, <1>3, <1>4, <1>7, <2>1 DEF Recorded
  <2>3. bypassed'[c] \subseteq 1 .. t + 1 /\ \A i \in 1 .. Len(trail'[c]) : trail'[c][i].try \in 1 .. t + 1
    BY <1>0, <1>2, <1>7 DEF Accounted
  <2> QED BY <1>0, <1>7, <2>2, <2>3 DEF Accounted
<1>8. CASE AtRest(c)' /\ trail'[c] = Append(trail[c], KeyRefused(t + 1)) /\ bypassed'[c] = bypassed[c]
  <2>1. /\ \A n : n # t + 1 => EventsOf(c, n)' = EventsOf(c, n)
        /\ Cardinality(EventsOf(c, t + 1))' = Cardinality(EventsOf(c, t + 1)) + 1
    <3>1. \A n : EventsOf(c, n) = EventsIn(trail[c], n)
                 /\ EventsOf(c, n)' = EventsIn(Append(trail[c], KeyRefused(t + 1)), n)
      BY <1>8 DEF EventsOf, EventsIn
    <3> QED BY <1>1, <1>5, <3>1, EventAdded
  <2>2. \A n \in 1 .. t : Recorded(c, n)'
    BY <1>0, <1>2, <1>4, <1>8, <2>1 DEF Recorded
  <2>3. Recorded(c, t + 1)'
    <3>1. t + 1 \notin bypassed'[c]
      BY <1>0, <1>2, <1>8 DEF Accounted
    <3>2. Cardinality(EventsOf(c, t + 1))' = 1
      BY <1>3, <2>1
    <3> QED BY <3>1, <3>2 DEF Recorded
  <2>4. bypassed'[c] \subseteq 1 .. t + 1
    BY <1>0, <1>2, <1>8 DEF Accounted
  <2>5. \A i \in 1 .. Len(trail'[c]) : trail'[c][i].try \in 1 .. t + 1
    BY <1>0, <1>1, <1>2, <1>5, <1>8 DEF Accounted
  <2> QED BY <1>0, <1>2, <1>8, <2>2, <2>3, <2>4, <2>5 DEF Accounted
<1> QED BY <1>0, <1>6, <1>7, <1>8

\* Of a request in progress.
LEMMA InProgress ==
  ASSUME Typed, NEW c \in Connections, Accounted(c), ~AtRest(c)
  PROVE  /\ tries[c] \in Nat /\ tries[c] \in 1 .. tries[c] /\ tries[c] \notin bypassed[c]
         /\ trail[c] \in Seq(Attempt)
         /\ pc[c] \in {"limiting", "asking", "checking", "asking-again", "checking-again"}
         /\ \A n \in 1 .. tries[c] : n # tries[c] => n < tries[c] /\ Recorded(c, n)
         /\ Cardinality(EventsOf(c, tries[c])) = IF pc[c] \in {"asking-again", "checking-again"} THEN 1 ELSE 0
<1>1. tries[c] \in Nat /\ trail[c] \in Seq(Attempt) /\ pc[c] \in Places
  BY DEF Typed, ConnsTyped
<1>2. pc[c] \in {"limiting", "asking", "checking", "asking-again", "checking-again"}
  BY <1>1 DEF Places, AtRest
<1>3. \A n \in 1 .. tries[c] : n # tries[c] => n < tries[c]
  BY <1>1
<1> QED BY <1>1, <1>2, <1>3 DEF Accounted

\* It goes on without leaving an event.
LEMMA AccountedGoOn ==
  ASSUME Typed, NEW c \in Connections, Accounted(c), ~AtRest(c), ~AtRest(c)',
         UNCHANGED <<tries[c], trail[c], bypassed[c]>>,
         pc'[c] \in {"asking-again", "checking-again"} <=> pc[c] \in {"asking-again", "checking-again"}
  PROVE  Accounted(c)'
<1>1. \A n : EventsOf(c, n)' = EventsOf(c, n)
  BY DEF EventsOf
<1>3. \A n \in 1 .. tries[c] : n < tries[c] => Recorded(c, n)'
  BY <1>1 DEF Accounted, Recorded
<1>4. Cardinality(EventsOf(c, tries[c]))' = IF pc'[c] \in {"asking-again", "checking-again"} THEN 1 ELSE 0
  BY <1>1, InProgress
<1>5. /\ bypassed'[c] \subseteq 1 .. tries[c] /\ tries[c] \in 1 .. tries[c] /\ tries[c] \notin bypassed'[c]
      /\ \A i \in 1 .. Len(trail'[c]) : trail'[c][i].try \in 1 .. tries[c]
  BY DEF Accounted
<1> QED BY <1>3, <1>4, <1>5 DEF Accounted

\* The limiter turns it away.
LEMMA AccountedRefuse ==
  ASSUME Typed, NEW c \in Connections, Accounted(c), pc[c] = "limiting", AtRest(c)',
         UNCHANGED <<tries[c], trail[c]>>, bypassed'[c] = bypassed[c] \cup {tries[c]}
  PROVE  Accounted(c)'
<1>1. \A n : EventsOf(c, n)' = EventsOf(c, n)
  BY DEF EventsOf
<1>2. ~AtRest(c)
  BY DEF AtRest
<1>3. EventsOf(c, tries[c]) = {}
  <2>1. Cardinality(EventsOf(c, tries[c])) = 0 /\ trail[c] \in Seq(Attempt)
    BY <1>2, InProgress
  <2> QED BY <2>1, EventsFinite DEF EventsOf, EventsIn
<1>4. \A n \in 1 .. tries[c] : Recorded(c, n)'
  BY <1>1, <1>2, <1>3, InProgress DEF Recorded
<1>5. /\ bypassed'[c] \subseteq 1 .. tries[c]
      /\ \A i \in 1 .. Len(trail'[c]) : trail'[c][i].try \in 1 .. tries[c]
  BY <1>2, InProgress DEF Accounted
<1> QED BY <1>4, <1>5 DEF Accounted

\* Its second challenge is not answered.
LEMMA AccountedEnd ==
  ASSUME Typed, NEW c \in Connections, Accounted(c), pc[c] = "asking-again", AtRest(c)',
         tries'[c] = tries[c], trail'[c] = trail[c], bypassed'[c] = bypassed[c]
  PROVE  Accounted(c)'
<1>1. \A n : EventsOf(c, n)' = EventsOf(c, n)
  BY DEF EventsOf
<1>2. ~AtRest(c)
  BY DEF AtRest
<1>3. \A n \in 1 .. tries[c] : Recorded(c, n)
  <2>1. Recorded(c, tries[c])
    <3>1. tries[c] \notin bypassed[c] /\ Cardinality(EventsOf(c, tries[c])) = 1
      BY <1>2, InProgress
    <3>2. 1 \in 1 .. 2
      OBVIOUS
    <3> QED BY <3>1, <3>2, Zenon DEF Recorded
  <2> QED BY <1>2, <2>1, InProgress
<1>4. \A n \in 1 .. tries[c] : Recorded(c, n)'
  BY <1>1, <1>3 DEF Recorded
<1> QED BY <1>4 DEF Accounted

\* It leaves an event, and is over or goes into its second round.
LEMMA AccountedRecord ==
  ASSUME Typed, NEW c \in Connections, Accounted(c), ~AtRest(c),
         NEW e \in Attempt, e.try = tries[c], trail'[c] = Append(trail[c], e),
         tries'[c] = tries[c], bypassed'[c] = bypassed[c],
         ~AtRest(c)' => pc[c] = "checking" /\ pc'[c] = "asking-again"
  PROVE  Accounted(c)'
<1>0. PICK t \in Nat : t = tries[c]
  BY InProgress
<1>1. /\ \A n : n # t => EventsOf(c, n)' = EventsOf(c, n)
      /\ Cardinality(EventsOf(c, t))' = Cardinality(EventsOf(c, t)) + 1
  <2>1. \A n : EventsOf(c, n) = EventsIn(trail[c], n) /\ EventsOf(c, n)' = EventsIn(Append(trail[c], e), n)
    BY DEF EventsOf, EventsIn
  <2>2. trail[c] \in Seq(Attempt) /\ e.try = t
    BY <1>0, InProgress
  <2> QED BY <2>1, <2>2, EventAdded
<1>2. Cardinality(EventsOf(c, t))' \in 1 .. 2 /\ (pc[c] = "checking" => Cardinality(EventsOf(c, t))' = 1)
  <2>1. Cardinality(EventsOf(c, t)) = IF pc[c] \in {"asking-again", "checking-again"} THEN 1 ELSE 0
    BY <1>0, InProgress
  <2> DEFINE before == Cardinality(EventsOf(c, t))
             after == Cardinality(EventsOf(c, t))'
  <2>2. after = before + 1 /\ before \in {0, 1} /\ (pc[c] = "checking" => before = 0)
    BY <1>1, <2>1
  <2> HIDE DEF before, after
  <2>3. after \in 1 .. 2 /\ (pc[c] = "checking" => after = 1)
    BY <2>2
  <2> QED BY <2>3 DEF after
<1>3. Recorded(c, t)'
  BY <1>0, <1>2, InProgress DEF Recorded
<1>4. \A n \in 1 .. t : n # t => Recorded(c, n)'
  BY <1>0, <1>1, InProgress DEF Recorded
<1>5. \A i \in 1 .. Len(trail'[c]) : trail'[c][i].try \in 1 .. t
  <2>1. trail[c] \in Seq(Attempt) /\ e.try \in 1 .. t
    BY <1>0, InProgress
  <2>2. \A i \in 1 .. Len(trail[c]) : trail[c][i].try \in 1 .. t
    BY <1>0 DEF Accounted
  <2> DEFINE more == Append(trail[c], e)
  <2>3. /\ 1 .. Len(more) = 1 .. Len(trail[c]) \cup {Len(trail[c]) + 1} /\ more[Len(trail[c]) + 1] = e
        /\ \A i \in 1 .. Len(trail[c]) : more[i] = trail[c][i]
    <3>1. trail[c] \in Seq(Attempt)
      BY <2>1
    <3> HIDE <2>1
    <3> QED BY <3>1
  <2> HIDE DEF more
  <2>4. trail'[c] = more
    BY DEF more
  <2> QED BY <2>1, <2>2, <2>3, <2>4
<1>6. bypassed'[c] \subseteq 1 .. t /\ t \in 1 .. t /\ t \notin bypassed'[c]
  BY <1>0, InProgress DEF Accounted
<1>7. \A n \in 1 .. t : Recorded(c, n)'
  BY <1>0, <1>3, <1>4
<1>8. ~AtRest(c)' => Cardinality(EventsOf(c, t))' = 1 /\ pc'[c] \in {"asking-again", "checking-again"}
  BY <1>0, <1>2
<1> QED BY <1>0, <1>5, <1>6, <1>7, <1>8 DEF Accounted

\* Nothing of it changes.
LEMMA AccountedSame ==
  ASSUME NEW c \in Connections, Accounted(c), UNCHANGED <<tries[c], trail[c], bypassed[c]>>,
         UNCHANGED pc[c] \/ (AtRest(c) /\ AtRest(c)')
  PROVE  Accounted(c)'
<1>1. \A n : EventsOf(c, n)' = EventsOf(c, n)
  BY DEF EventsOf
<1>2. AtRest(c)' = AtRest(c)
  BY DEF AtRest
<1>3. ~AtRest(c) => pc'[c] = pc[c]
  OBVIOUS
<1>4. \A n \in 1 .. tries[c] : AtRest(c)' \/ n < tries[c] => Recorded(c, n)'
  BY <1>1, <1>2 DEF Accounted, Recorded
<1>5. ~AtRest(c)' => /\ tries[c] \in 1 .. tries[c] /\ tries[c] \notin bypassed[c]
                     /\ Cardinality(EventsOf(c, tries[c]))' = IF pc'[c] \in {"asking-again", "checking-again"} THEN 1 ELSE 0
  BY <1>1, <1>2, <1>3 DEF Accounted
<1>6. bypassed'[c] \subseteq 1 .. tries[c] /\ \A i \in 1 .. Len(trail'[c]) : trail'[c][i].try \in 1 .. tries[c]
  BY DEF Accounted
<1> QED BY <1>4, <1>5, <1>6 DEF Accounted

LEMMA AccountedStep ==
  Typed /\ (\A c \in Connections : Accounted(c)) /\ [Next]_vars => (\A c \in Connections : Accounted(c))'
<1> SUFFICES ASSUME Typed, \A c \in Connections : Accounted(c), [Next]_vars, NEW d \in Connections
             PROVE  Accounted(d)'
  OBVIOUS
<1>1. ASSUME UNCHANGED <<pc[d], tries[d], trail[d], bypassed[d]>> PROVE Accounted(d)'
  BY <1>1, AccountedSame
<1>2. CASE Tick \/ UNCHANGED vars
  BY <1>1, <1>2 DEF Tick, vars, connVars
<1>3. ASSUME NEW c \in Connections, ConnStep(c), c # d PROVE Accounted(d)'
  BY <1>1, <1>3, OthersStay
<1>4. ASSUME ConnStep(d) PROVE Accounted(d)'
  <2>1. /\ pc \in [Connections -> Places] /\ tries \in [Connections -> Nat]
        /\ trail \in [Connections -> Seq(Attempt)] /\ bypassed \in [Connections -> SUBSET Nat]
    BY DEF Typed, ConnsTyped
  <2>2. ASSUME Fail(d) PROVE AtRest(d)'
    BY <2>1, <2>2 DEF Fail, Goto, AtRest
  <2>3. ASSUME Take(d) PROVE tries'[d] = tries[d] + 1 /\ AtRest(d)
    BY <2>1, <2>3 DEF Take, AtRest
  <2>4. ASSUME NEW n, Record(d, n) PROVE trail'[d] = Append(trail[d], n)
    BY <2>1, <2>4 DEF Record
  <2>5. ASSUME Bypass(d) PROVE bypassed'[d] = bypassed[d] \cup {tries[d] + 1}
    BY <2>1, <2>5 DEF Bypass
  <2>6. tries[d] \in Nat => Failure(tries[d]) \in Attempt /\ Failure(tries[d]).try = tries[d]
    BY DEF Failure, Attempt
  <2>7. CASE \E u \in Names[d] : TakeNone(d, u)
    <3>1. Take(d) /\ Bypass(d) /\ trail' = trail
      BY <2>7 DEF TakeNone
    <3>2. AtRest(d)'
      BY <2>1, <2>2, <2>3, <2>7 DEF TakeNone, Goto, Unpunished, AtRest
    <3> QED BY <2>3, <2>5, <3>1, <3>2, AccountedTake
  <2>8. CASE TakeKeyAgain(d) \/ \E m \in AllMethods : TakeUnknown(d, m)
    <3>1. Take(d) /\ Bypass(d) /\ trail' = trail
      BY <2>8 DEF TakeKeyAgain, TakeUnknown
    <3>2. AtRest(d)'
      BY <2>2, <2>3, <2>8 DEF TakeKeyAgain, TakeUnknown, Unpunished, AtRest
    <3> QED BY <2>3, <2>5, <3>1, <3>2, AccountedTake
  <2>9. CASE TakePublicKey(d)
    <3>1. Take(d) /\ AtRest(d)' /\ trail'[d] = Append(trail[d], KeyRefused(tries[d] + 1)) /\ bypassed' = bypassed
      BY <2>2, <2>4, <2>9 DEF TakePublicKey
    <3> QED BY <2>3, <3>1, AccountedTake
  <2>10. CASE \E u \in Names[d], m \in Limited : TakeLimited(d, m, u)
    <3>1. Take(d) /\ pc'[d] = "limiting" /\ UNCHANGED <<trail, bypassed>>
      BY <2>1, <2>10 DEF TakeLimited, Goto
    <3> QED BY <2>3, <3>1, AccountedTake
  <2>11. CASE LetThrough(d)
    <3>1. pc'[d] \in {"asking", "checking"} /\ pc[d] = "limiting" /\ UNCHANGED <<tries, trail, bypassed>>
      BY <2>1, <2>11 DEF LetThrough, Goto
    <3> QED BY <3>1, AccountedGoOn DEF AtRest
  <2>12. CASE Answer(d)
    <3>1. /\ \/ pc[d] = "asking" /\ pc'[d] = "checking"
             \/ pc[d] = "asking-again" /\ pc'[d] = "checking-again"
          /\ UNCHANGED <<tries, trail, bypassed>>
      BY <2>1, <2>12 DEF Answer, Goto
    <3> QED BY <3>1, AccountedGoOn DEF AtRest
  <2>13. CASE Refuse(d)
    <3>1. bypassed'[d] = bypassed[d] \cup {tries[d]}
      BY <2>1, <2>13 DEF Refuse
    <3> QED BY <2>2, <2>13, <3>1, AccountedRefuse DEF Refuse
  <2>14. CASE NoSecondAnswer(d)
    BY <2>2, <2>14, AccountedEnd DEF NoSecondAnswer
  <2>15. CASE NoAnswer(d)
    BY <2>1, <2>2, <2>4, <2>6, <2>15, AccountedRecord DEF NoAnswer, AtRest
  <2>16. CASE \E pw \in Passwords : Reject(d, pw)
    <3>1. /\ ~AtRest(d) /\ trail'[d] = Append(trail[d], Failure(tries[d]))
          /\ UNCHANGED <<tries, bypassed>>
      BY <2>4, <2>16 DEF Reject, AtRest
    <3>2. AtRest(d)' \/ (pc[d] = "checking" /\ pc'[d] = "asking-again")
      BY <2>1, <2>2, <2>16 DEF Reject, Goto
    <3> QED BY <2>1, <2>6, <3>1, <3>2, AccountedRecord
  <2>17. CASE \E pw \in Passwords : Accept(d, pw)
    <3>1. PICK pw \in Passwords : Accept(d, pw)
      BY <2>17
    <3>2. /\ ~AtRest(d) /\ AtRest(d)' /\ UNCHANGED <<tries, bypassed>>
      BY <2>1, <3>1 DEF Accept, Goto, AtRest
    <3> DEFINE e == [try |-> tries[d], ok |-> TRUE, user |-> request[d].user, password |-> pw]
    <3>3. trail'[d] = Append(trail[d], e)
      BY <2>4, <3>1 DEF Accept
    <3>4. e \in Attempt /\ e.try = tries[d]
      <4>1. request[d].user \in Users
        BY AuthAssumption, <3>1 DEF Accept, MayPass
      <4> QED BY <2>1, <4>1 DEF Attempt
    <3> HIDE DEF e
    <3> QED BY <3>2, <3>3, <3>4, AccountedRecord
  <2>18. CASE Break(d)
    BY <1>1, <2>18 DEF Break
  <2>19. CASE GiveUp(d)
    <3>1. AtRest(d) /\ AtRest(d)' /\ UNCHANGED <<tries, trail, bypassed>>
      BY <2>1, <2>19 DEF GiveUp, Goto, AtRest
    <3> QED BY <3>1, AccountedSame
  <2> QED BY <1>4, <2>7, <2>8, <2>9, <2>10, <2>11, <2>12, <2>13, <2>14, <2>15, <2>16, <2>17, <2>18, <2>19 DEF ConnStep
<1> QED BY <1>2, <1>3, <1>4 DEF Next, ConnStep

\* No credential that reached the authenticator goes unrecorded.
THEOREM NothingUnrecorded == Spec => []CredentialsRecorded
<1>1. Init => \A c \in Connections : Accounted(c)
  BY DEF Init, Accounted, AtRest
<1>2. (\A c \in Connections : Accounted(c)) => CredentialsRecorded
  BY DEF Accounted, Recorded, CredentialsRecorded
<1> QED BY <1>1, <1>2, AccountedStep, AlwaysTyped, PTL DEF Spec

=============================================================================
