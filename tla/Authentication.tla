--------------------------- MODULE Authentication ----------------------------
(***************************************************************************)
(* Authentication: the limiter and the callbacks of handleConn in          *)
(* internal/ssh/server.go, and internal/auth/authenticator.go.             *)
(*                                                                         *)
(* Connections of several addresses authenticate at the same time.  They   *)
(* share the limiter's table, which is locked while an attempt is looked   *)
(* up; the clock is read before the lock is taken, so an attempt may be    *)
(* judged by a time that has passed.  Everything else of a connection is   *)
(* its own, and one goroutine handles its requests one after another.      *)
(*                                                                         *)
(* An entry of the table is the set of its attempts, each with its clock   *)
(* reading; their order in the slice decides nothing.                      *)
(***************************************************************************)
EXTENDS Naturals, Sequences, FiniteSets

CONSTANTS
  Connections,
  Addresses,
  AddressOf,     \* the address each connection comes from
  Users,         \* user names
  Names,         \* those that each client sends
  Tried,         \* the methods that each client tries
  Allowed,       \* those UserAllowed accepts: all of them unless cfg.RestrictUsers
  Passwords,     \* what clients send as passwords, Empty among them
  Empty,         \* the empty password
  Weak,          \* cfg.WeakPasswords
  Methods,       \* the methods with a callback, "none" being cfg.AllowNoAuth
  Window,        \* window of allow, a minute
  MaxPerIP,      \* maxPerIP, 60
  MaxEntries,    \* maxEntries, 65536
  MaxAuthTries,  \* MaxAuthTries, 6
  MaxTries,      \* bound of the model: requests of each connection
  MaxTime        \* bound of the model: the clock

Limited == {"password", "keyboard-interactive"}
AllMethods == Limited \cup {"publickey", "none", "gssapi-with-mic"}

ASSUME AuthAssumption ==
  /\ IsFiniteSet(Connections)
  /\ AddressOf \in [Connections -> Addresses]
  /\ Allowed \subseteq Users /\ Names \in [Connections -> SUBSET Users]
  /\ Empty \in Passwords /\ Weak \subseteq Passwords
  /\ Tried \in [Connections -> SUBSET AllMethods]
  /\ Methods \subseteq AllMethods \ {"gssapi-with-mic"}
  /\ Window \in Nat /\ MaxPerIP \in Nat \ {0} /\ MaxEntries \in Nat \ {0}
  /\ MaxAuthTries \in Nat \ {0} /\ MaxTries \in [Connections -> Nat] /\ MaxTime \in Nat

VARIABLES
  now,        \* the clock
  entries,    \* the keys of authLimiter.seen
  seen,       \* its values: the attempts of an address that are remembered
  pc,         \* where the connection's goroutine is in NewServerConn
  request,    \* the request it handles
  tries,      \* requests it has taken
  failures,   \* x/crypto/ssh's count of failures
  broken,     \* has the client gone, or the deadline of the handshake passed?
  trail,      \* history: the auth.attempt events of the connection
  bypassed,   \* history: its requests that carried no credential to the authenticator
  through,    \* history: the attempts let through since the table was last reset
  late        \* history: those of them that came to the lock after one with a later clock

limiterVars == <<entries, seen, through, late>>
connVars == <<pc, request, tries, failures, broken, trail, bypassed>>
vars == <<now, limiterVars, connVars>>

Stamp == [conn : Connections, try : Nat, at : 0 .. MaxTime]
Request == [method : Limited, user : Users, clock : 0 .. MaxTime]
           \cup [method : Limited \cup {"none"}, user : Users]
Attempt == [try : Nat, ok : {FALSE}]
           \cup [try : Nat, ok : {FALSE}, method : {"publickey"}]
           \cup [try : Nat, ok : {TRUE}, user : Users, password : Passwords]
Nothing == [method |-> "no request"]

Init ==
  /\ now = 0
  /\ entries = {} /\ seen = [a \in Addresses |-> {}] /\ through = {} /\ late = {}
  /\ pc = [c \in Connections |-> "waiting"]
  /\ request = [c \in Connections |-> Nothing]
  /\ tries = [c \in Connections |-> 0] /\ failures = [c \in Connections |-> 0]
  /\ broken = [c \in Connections |-> FALSE]
  /\ trail = [c \in Connections |-> <<>>]
  /\ bypassed = [c \in Connections |-> {}]

---------------------------------------------------------------------------
(* The loop of x/crypto/ssh over the requests of a client. *)

Goto(c, place) == pc' = [pc EXCEPT ![c] = place]

\* An attempt failed: the client may try again until it has failed MaxAuthTries times.
Fail(c) ==
  /\ failures' = [failures EXCEPT ![c] = @ + 1]
  /\ Goto(c, IF failures[c] + 1 < MaxAuthTries THEN "waiting" ELSE "failed")
  /\ request' = [request EXCEPT ![c] = Nothing]

Unpunished(c) == UNCHANGED <<pc, failures, request>>

Take(c) ==
  /\ pc[c] = "waiting" /\ ~broken[c] /\ tries[c] < MaxTries[c]
  /\ tries' = [tries EXCEPT ![c] = @ + 1]

Handle(c, req) == request' = [request EXCEPT ![c] = req]

\* A password or a keyboard-interactive request: allow reads the clock first.
TakeLimited(c, m, u) ==
  /\ m \in Limited \cap Methods \cap Tried[c]
  /\ Take(c)
  /\ Handle(c, [method |-> m, user |-> u, clock |-> now])
  /\ Goto(c, "limiting")
  /\ UNCHANGED <<now, limiterVars, failures, broken, trail, bypassed>>

Bypass(c) == bypassed' = [bypassed EXCEPT ![c] = @ \cup {tries[c] + 1}]

\* A method without a callback; a first request "none" costs nothing.
TakeUnknown(c, m) ==
  /\ m \in Tried[c] \ Methods
  /\ Take(c)
  /\ Bypass(c)
  /\ IF m = "none" /\ tries[c] = 0 THEN Unpunished(c) ELSE Fail(c)
  /\ UNCHANGED <<now, limiterVars, broken, trail>>

\* NoClientAuthCallback
TakeNone(c, u) ==
  /\ "none" \in Methods \cap Tried[c]
  /\ Take(c)
  /\ Bypass(c)
  /\ IF u \in Allowed THEN Goto(c, "in") /\ Handle(c, [method |-> "none", user |-> u]) /\ UNCHANGED failures
     ELSE IF tries[c] = 0 THEN Unpunished(c) ELSE Fail(c)
  /\ UNCHANGED <<now, limiterVars, broken, trail>>

\* Of a failed attempt the properties ask only that it was recorded.
Record(c, e) == trail' = [trail EXCEPT ![c] = Append(@, e)]
Failure(n) == [try |-> n, ok |-> FALSE]

KeyRefused(n) == [try |-> n, ok |-> FALSE, method |-> "publickey"]

\* PublicKeyCallback: recorded, refused, and unknown to the limiter.
TakePublicKey(c) ==
  /\ "publickey" \in Methods \cap Tried[c]
  /\ Take(c)
  /\ Record(c, KeyRefused(tries[c] + 1))
  /\ Fail(c)
  /\ UNCHANGED <<now, limiterVars, broken, bypassed>>

\* x/crypto/ssh remembers the answer to the last key: the same key of the same user is
\* refused again without the callback, and so without an event.
TakeKeyAgain(c) ==
  /\ "publickey" \in Methods \cap Tried[c]
  /\ \E i \in 1 .. Len(trail[c]) : trail[c][i] = KeyRefused(trail[c][i].try)
  /\ Take(c)
  /\ Bypass(c)
  /\ Fail(c)
  /\ UNCHANGED <<now, limiterVars, broken, trail>>

---------------------------------------------------------------------------
(* authLimiter.allow, from the lock on. *)

TableFull == Cardinality(entries) >= MaxEntries

\* When the table is full it is replaced by an empty one, even if the address is in it.
Remembered(a) == IF TableFull THEN {} ELSE seen[a]

\* Bug: forgotten by the time of the lock, and entered with the time read before it.
KeptByNow(c) == {s \in Remembered(AddressOf[c]) : s.at + Window > now}

Kept(c) == {s \in Remembered(AddressOf[c]) : s.at + Window > request[c].clock}
ThisAttempt(c) == [conn |-> c, try |-> tries[c], at |-> request[c].clock]

Remember(c, stamps) ==
  /\ entries' = (IF TableFull THEN {} ELSE entries) \cup {AddressOf[c]}
  /\ seen' = [a \in Addresses |-> IF a = AddressOf[c] THEN stamps ELSE Remembered(a)]

\* Has an attempt of its address with a later clock reading been let through before it?
Overtaken(c) ==
  ~TableFull /\ \E s \in through : AddressOf[s.conn] = AddressOf[c] /\ s.at > request[c].clock

LetThrough(c) ==
  /\ pc[c] = "limiting" /\ Cardinality(Kept(c)) < MaxPerIP
  /\ Remember(c, Kept(c) \cup {ThisAttempt(c)})
  /\ through' = (IF TableFull THEN {} ELSE through) \cup {ThisAttempt(c)}
  /\ late' = (IF TableFull THEN {} ELSE late) \cup (IF Overtaken(c) THEN {ThisAttempt(c)} ELSE {})
  /\ Handle(c, [method |-> request[c].method, user |-> request[c].user])
  /\ Goto(c, IF request[c].method = "password" THEN "checking" ELSE "asking")
  /\ UNCHANGED <<now, tries, failures, broken, trail, bypassed>>

\* Bug: a refused attempt is remembered as well.
RefuseRemembered(c) ==
  /\ pc[c] = "limiting" /\ Cardinality(Kept(c)) >= MaxPerIP
  /\ Remember(c, Kept(c) \cup {ThisAttempt(c)})
  /\ Fail(c)
  /\ bypassed' = [bypassed EXCEPT ![c] = @ \cup {tries[c]}]
  /\ UNCHANGED <<now, through, late, tries, broken, trail>>

Refuse(c) ==
  /\ pc[c] = "limiting" /\ Cardinality(Kept(c)) >= MaxPerIP
  /\ Remember(c, Kept(c))
  /\ Fail(c)
  /\ bypassed' = [bypassed EXCEPT ![c] = @ \cup {tries[c]}]
  /\ UNCHANGED <<now, through, late, tries, broken, trail>>

---------------------------------------------------------------------------
(* Authenticator: the challenges of keyboard-interactive, and checkPassword. *)

Answer(c) ==
  /\ pc[c] \in {"asking", "asking-again"} /\ ~broken[c]
  /\ Goto(c, IF pc[c] = "asking" THEN "checking" ELSE "checking-again")
  /\ UNCHANGED <<now, limiterVars, request, tries, failures, broken, trail, bypassed>>

\* Bug: an error of the first challenge is not recorded either.
NoAnswerSilent(c) ==
  /\ pc[c] = "asking"
  /\ Fail(c)
  /\ UNCHANGED <<now, limiterVars, tries, broken, trail, bypassed>>

\* The first challenge ends in an error or in an empty answer.
NoAnswer(c) ==
  /\ pc[c] = "asking"
  /\ Record(c, Failure(tries[c]))
  /\ Fail(c)
  /\ UNCHANGED <<now, limiterVars, tries, broken, bypassed>>

\* The second one ends in an error, which leaves no event; the first round has left one.
NoSecondAnswer(c) ==
  /\ pc[c] = "asking-again"
  /\ Fail(c)
  /\ UNCHANGED <<now, limiterVars, tries, broken, trail, bypassed>>

\* Bug: restrict_users is not looked at.
MayPassAnyone(u, pw) == pw \in Weak

MayPass(u, pw) == pw \in Weak /\ u \in Allowed

\* After its delay a password is refused: recorded whether or not the client is still
\* there, and asked for once more if it was the first answer to a challenge.
Reject(c, pw) ==
  /\ pc[c] \in {"checking", "checking-again"}
  /\ Record(c, Failure(tries[c]))
  /\ IF pc[c] = "checking" /\ request[c].method = "keyboard-interactive"
     THEN pw # Empty /\ Goto(c, "asking-again") /\ UNCHANGED <<failures, request>>
     ELSE Fail(c)
  /\ UNCHANGED <<now, limiterVars, tries, broken, bypassed>>

\* A weak password of an allowed user may pass, with success_probability.  To a client
\* that has gone the success cannot be sent, which NewServerConn notices or not.
Accept(c, pw) ==
  /\ pc[c] \in {"checking", "checking-again"}
  /\ pc[c] = "checking" /\ request[c].method = "keyboard-interactive" => pw # Empty
  /\ MayPass(request[c].user, pw)
  /\ Record(c, [try |-> tries[c], ok |-> TRUE, user |-> request[c].user, password |-> pw])
  /\ Goto(c, "in") \/ (broken[c] /\ Goto(c, "failed"))
  /\ UNCHANGED <<now, limiterVars, request, tries, failures, broken, bypassed>>

---------------------------------------------------------------------------
(* The client, the deadline and the clock. *)

Break(c) ==
  /\ pc[c] \notin {"in", "failed"} /\ ~broken[c]
  /\ broken' = [broken EXCEPT ![c] = TRUE]
  /\ UNCHANGED <<now, limiterVars, pc, request, tries, failures, trail, bypassed>>

\* Reading the next request fails.
GiveUp(c) ==
  /\ pc[c] = "waiting" /\ broken[c]
  /\ Goto(c, "failed")
  /\ UNCHANGED <<now, limiterVars, request, tries, failures, broken, trail, bypassed>>

Tick ==
  /\ now < MaxTime
  /\ now' = now + 1
  /\ UNCHANGED <<limiterVars, connVars>>

Next ==
  \/ \E c \in Connections :
       \/ \E u \in Names[c] : TakeNone(c, u) \/ \E m \in Limited : TakeLimited(c, m, u)
       \/ TakePublicKey(c) \/ TakeKeyAgain(c) \/ \E m \in AllMethods : TakeUnknown(c, m)
       \/ LetThrough(c) \/ Refuse(c)
       \/ Answer(c) \/ NoAnswer(c) \/ NoSecondAnswer(c)
       \/ \E pw \in Passwords : Reject(c, pw) \/ Accept(c, pw)
       \/ Break(c) \/ GiveUp(c)
  \/ Tick

Spec == Init /\ [][Next]_vars

---------------------------------------------------------------------------
(* Properties. *)

\* The types of the variables; the limiter's table never outgrows its two limits.
TypeOK ==
  /\ now \in 0 .. MaxTime
  /\ entries \subseteq Addresses /\ Cardinality(entries) <= MaxEntries
  /\ seen \in [Addresses -> SUBSET Stamp] /\ through \subseteq Stamp /\ late \subseteq through
  /\ \A a \in Addresses : Cardinality(seen[a]) <= MaxPerIP
  /\ pc \in [Connections -> {"waiting", "limiting", "asking", "checking", "asking-again",
                             "checking-again", "in", "failed"}]
  /\ request \in [Connections -> Request \cup {Nothing}]
  /\ tries \in [Connections -> Nat] /\ failures \in [Connections -> 0 .. MaxAuthTries]
  /\ broken \in [Connections -> BOOLEAN]
  /\ trail \in [Connections -> Seq(Attempt)]
  /\ bypassed \in [Connections -> SUBSET Nat]

InWindow(a, t) == {s \in through : AddressOf[s.conn] = a /\ s.at + Window > t}

\* Those of them that came by then and have not been overtaken.
OnTime(a, t) == {s \in InWindow(a, t) \ late : s.at <= t}

\* Between two resets of the table, no more than MaxPerIP attempts of one address get as
\* far as a password check out of the window that ends now; nor, whenever it ended, out of
\* any window, but for the attempts that came to the lock after one with a later clock
\* reading had been let through: the later one has made the limiter forget what it would
\* have counted for them.
RateBounded ==
  \A a \in Addresses :
    /\ Cardinality(InWindow(a, now)) <= MaxPerIP
    /\ \A t \in 0 .. MaxTime : Cardinality(OnTime(a, t)) <= MaxPerIP

\* Nobody is refused without cause: when an attempt is turned away, as many as the limit
\* have really been let through that are not a window old at its clock reading, be they
\* later ones.  An address that keeps trying while it is refused does not lock itself out.
RefusedOnlyWhenFull ==
  [][\A c \in Connections :
       pc[c] = "limiting" /\ pc'[c] \in {"waiting", "failed"} =>
         Cardinality(InWindow(AddressOf[c], request[c].clock)) >= MaxPerIP]_vars

\* Whoever is let in is a user that may log in, and the record says how: by no
\* authentication where that is configured, or by a weak password sent for that user,
\* whose event is the last of the connection and its only success.
LoginExplained ==
  \A c \in Connections : pc[c] = "in" =>
    /\ request[c].user \in Allowed
    /\ \A i \in 1 .. Len(trail[c]) - 1 : ~trail[c][i].ok
    /\ IF request[c].method = "none"
       THEN "none" \in Methods /\ \A i \in 1 .. Len(trail[c]) : ~trail[c][i].ok
       ELSE /\ trail[c] # <<>>
            /\ LET e == trail[c][Len(trail[c])]
               IN e.ok /\ e.try = tries[c] /\ e.user = request[c].user /\ e.password \in Weak

AtRest(c) == pc[c] \in {"waiting", "in", "failed"}
EventsOf(c, n) == {i \in 1 .. Len(trail[c]) : trail[c][i].try = n}

\* No credential that reached the authenticator is lost, whether the client stays to hear
\* the answer or not: once a request is dealt with it has its event, or two if it was
\* answered in two rounds; and what the limiter turns away, or a key asked for again, has none.
CredentialsRecorded ==
  \A c \in Connections : AtRest(c) => \A n \in 1 .. tries[c] :
    IF n \in bypassed[c] THEN EventsOf(c, n) = {} ELSE Cardinality(EventsOf(c, n)) \in 1 .. 2
=============================================================================
