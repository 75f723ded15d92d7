# A formal model of honeypot-go

TLA+ modules for the concurrent core of the honeypot, TLC configurations that
check them on small instances, and theorems with proofs checked by TLAPS. The
source under `internal/` and `cmd/` is the reference: every definition listed
under `map` in `PROJECT.json` names the lines it translates.

Commands, from this directory:

    tlc -workers 2 -config MCStore.cfg MCStore.tla      # one run
    tlapm StoreProofs.tla                               # the proofs of one module

## 1. Inventory

The honeypot accepts SSH connections, plays a Linux host to whoever logs in, and
records what happens. Everything that happens is an event; connections and
sessions publish events on an in-memory bus, and two consumers, the store and
the detector, take them from there.

    clients -> SshServer -> handleConn -> handleSession (shell, exec, sftp)
                  |             |               |           |
                  |             +--- events ----+           v
                  v                    |             virtual file system
          listeners, slots             v             (one, shared by all sessions)
                                   EventBus
                                   /      \
                              Store        Detector -- alerts --> EventBus
                        JSONL + SQLite     webhook queue

A second program, `cmd/anti_attack`, connects whoever attacks back to its own
address and relays what the two sides send. It shares no data with the honeypot.

| Component | State | Operations | Shared with | Hard behaviour | Correct when |
|---|---|---|---|---|---|
| Event bus (`event/bus.go`) | set of channels, drop counter | Subscribe, Unsubscribe, Publish, Dropped | every goroutine | several Publish walk the channels at once; a full channel drops | per-producer order, no duplicate, every drop counted once, nothing after Unsubscribe, Publish never waits |
| Store (`store/store.go`) | pending batch, JSONL file, SQLite tables | Run (take, tick, drain), flush, Close | bus, `main` | batches cross ticks and shutdown; write errors; a crash between file and tables | file in order without duplicates, tables never ahead of the file, shutdown saves what had been published and ends |
| Start and shutdown (`cmd/honeypot/main.go`) | context, order of Close calls | signal, server error, srv.Close, st.Close | store, server | shutdown races with connections and with the goroutines it waits for | ends; listeners closed |
| SSH connections (`ssh/server.go`) | listeners, slot semaphore, deadline, `lastActivity`, channel semaphore | accept, reject, handshake, authenticate, channels, watchdog, panic recovery, Close | bus, config | a slot returned on every path; two timers; a transport that stops reading | slots and channels counted exactly, connection.closed once, a silent client loses its slot |
| Session channel (`ssh/server.go`, `session/session.go`) | session, recording, request loop, reader goroutine, idle timer | pty-req, exec, shell, subsystem, close | executor, bus | requests in any order; stale timer ticks; chunks handed between goroutines | input in order, idle sessions end, opened - commands - closed, nothing left behind |
| SFTP uploads (`ssh/sftp.go`) | buffer, dirty flag, last saved size | WriteAt, flush, Close, TransferError | virtual file system, bus | packets in any order on several workers; refused saves | a closed upload is saved or the client was told, saves are throttled |
| Virtual file system (`vfs/vfs.go`, `vfs/attr.go`) | tree of nodes, two budgets | write, append, touch, mkdir, remove, rename, copy, chmod, chattr | all sessions | operations that fail half way; long sequences of moves | budgets hold, counters exact, tree stays a tree, attributes `i` and `a` respected |
| Detector (`detect/detector.go`, `rules.go`) | state per connection, alerted rules, webhook queue | handle, check, alert, finalReport, monitor of drops | bus | events after connection.closed; its own alerts come back to it; a full queue | one alert per rule and connection, state removed, one final report |
| Authentication (`auth/authenticator.go`, `ssh/server.go`) | attempts per address | allow, password, keyboard-interactive, public key, none | all connections, bus | the clock is read before the lock; table reset at its limit; a challenge that breaks off between its rounds | never more than the limit per window, nobody refused without cause, credentials recorded, every login explained by its event |
| Shell executor (`shell/*.go`) | last code, history and cwd per session | Execute, ExecuteLine, AddHistory, RemoveSession | file system, virtual network | nested lines write the state of the session they run in; depth counted on some paths by a shared context | a line runs what it says, nesting is bounded, history is what was typed, `chattr +i` respected |
| Account commands (`shell/executor.go`, `attr.go`, `identity.go`) | `/etc/passwd`, `/etc/shadow`, identity per session | useradd, userdel, chattr, login | file system, all sessions | read, work on a copy, write, without a lock; refused writes are ignored | no name or uid twice, uid 0 is root, both files agree when commands do not collide |
| Line editor (`runInteractiveShell`) | line, cursor, history position, escape sequence, what the terminal shows | one operation per key | session, recorder, history of the executor | indices into a history that is cut or cleared meanwhile; keys answered without drawing the line again; bytes and runes | indices inside what they index, the draft comes back, the client sees the line that Enter runs |
| Terminal recorder (`tty/recorder.go`) | bytes written | record | session | the limit falls in the middle of a key | a replay is a prefix of what the client saw |
| Relay (`cmd/anti_attack/main.go`) | two connections, two copiers, `errc` | dial, copy, half-close, close | log | either direction may end or break first | one direction that ends does not cut the other; the handler ends |
| Daily log (`cmd/anti_attack/main.go`) | current file and date, timer | open, write, midnight, close | main, connections | archiving fails; the process was down at midnight | a file holds the lines of one day unless archiving failed |
| Virtual network (`vnet/vnet.go`) | none | wget, curl, nc and others | shell, file system, bus | the file goes where the line started | event before file; see Shell |
| Report, configuration, tools | small or none | see `PROJECT.json` | | | not modelled; reasons in `components` |

`PROJECT.json` lists under `hazards` what is hard to test in this code, at its
line, with the properties that would catch it going wrong.

## 2. Modules and how they correspond to the code

`EventBus.tla` - the bus. `Publish` holds the read lock and makes one
non-blocking send per channel in map order, so `BeginPublish`, one `Enqueue` or
`Drop` per channel, and `EndPublish` are separate actions and the publishers
interleave between them; `Subscribe` and `Unsubscribe` need `publishing = {}`
(write lock). A channel is its whole history `log[s]` with the count `taken[s]`
of what was received, so that order and loss can be stated; events are
producer and number.

`Store.tla` EXTENDS EventBus - composition of the bus, `Store.Run` and `main`.
Pending is the interval `flushed+1 .. taken` of the log. A flush appends the
lines one action at a time (`WriteLine`, which may fail), then applies the
transaction as a whole or loses it (`Commit`, `TransactionLost`): SQLite is an
external component with atomic commit. `Alive`
makes a crash visible: once `main` has returned, no goroutine moves.
The producers are goroutines, not connections: the handler of a connection, the
goroutines of its sessions, the sftp workers of these, and the detector publish
at the same time, and all but the handler may go on after connection.closed.
`Starter` says which goroutine starts which: a handler has published
connection.opened before it accepts a session channel (server.go:232, 361), a
session goroutine session.opened before it serves sftp (server.go:488-496).
Handlers and session goroutines are the `Owners` of a row in the tables; their
first event is the INSERT and their last the UPDATE of it. What a reader of the
files may rely on is therefore the order of each goroutine and opening before
what follows from it (`FileOrder`), and no order between two sessions of a
connection, its alerts and its connection.closed.

`SavedEvents.tla` - the abstract specification of the store, as those who read its
files and tables need it: events get their lines one by one in the order in
which they came, and a transaction takes all that have got their lines since the
last one and no other; a line, a statement or a whole transaction may fail and is
not tried again. There are no batches, no ticker, no `Run`, no shutdown in it.
Store's property `SavesInOrder` is `SavedEvents!SavedSpec` under a refinement
mapping: `lined` is `flushed + written`, `settled` is `flushed`.

`SshServer.tla` - listeners, slots, connection handlers. One action per step
that another goroutine can observe: accept, handshake and its deadline,
authentication, refresh, opening and refusing channels, the watchdog's tick,
the end of the session goroutines, panic, release. Time is discrete and kept as
differences; a timer that is due fires before time goes on. `unserved`, `queued`
and `stalled` model how golang.org/x/crypto/ssh queues the requests of a
channel and stops reading when the queue is full (external).

`SessionRecord.tla` - the abstract specification of what a session puts on
record: at most once opened, then commands, then at most once closed, with its
executor state kept only in between.

`SessionChannel.tla` - the goroutines of `handleSession`: the handler with its
request loop, the reader of the interactive shell, which hands chunks of input to
the handler through a channel with room for one, and the idle timer. What the
handler makes of a chunk is left open: it may run commands, come to the end of
the chunk or log out, in any order. Its property `ImplementsRecord` is
`SessionRecord!RecordSpec` under a refinement mapping that counts the events.

`TtyRecorder.tla` - the recording, of which a frame is its size.

`LineEditor.tla` EXTENDS TtyRecorder - what one byte of input does to the line,
the cursor, the walk through the history, the escape sequence, and to the row of
the client's terminal. The terminal is external: a row of `Cols` cells and a
column, wrapping as a VT100 does, with the two ways terminals treat a backspace
in the last column. Bytes are model values; one pair of them is a character of
two bytes. A line that runs is one of four kinds, because only these make a
difference here: it ends the shell, clears the history, leaves its row unended,
or none of them.

`InteractiveShell.tla` EXTENDS SessionChannel and LineEditor - the session channel
whole: `Process` takes a chunk and the key actions walk through its bytes, each
of them a step of the editor and of the channel (`RunKey` is `RunCommand` of the
channel and `RunLine` of the editor). The recording is opened with the session
and sees the prompt, the echo, the input and the output in the order of the code.

`Authentication.tla` - the limiter and the callbacks. An attempt reads the clock
(`TakeLimited`) and is judged later, under the lock (`LetThrough`, `Refuse`).
An entry of the table is the set of its attempts, and `through` is the history of
those let through, forgotten where the code resets its table; `late` are those of
them that had been overtaken, by an attempt of their address that read the clock
later and had the lock sooner. A public key that is offered again is answered by
x/crypto/ssh from its cache and leaves no event (`TakeKeyAgain`). The second round of
keyboard-interactive, a delayed answer and a client that leaves (`Break`) are
steps of their own.

`SftpWriter.tla` - two uploads to one path. `WriteAt` and `Close` take the
writer's mutex, so saving and publishing are steps during which the mutex is
held. pkg/sftp's workers are external: packets of a handle are executed in any
order, Close after all of them, TransferError before Close when the connection
breaks.

`Vfs.tla` - the virtual file system. Each operation holds the lock throughout
and is one action; the operations that fail half way (a file created and then
refused for its size, a Mkdir that made part of its path) are actions as well.
Contents are their lengths and permissions the presence of a write bit, because
nothing else decides what an operation does. `node` also holds what has left the
tree without being deleted.

`Detector.tla` - the behaviour analysis and the goroutines it listens to. A
connection handler publishes connection.opened, its attempts and
connection.closed; it does not wait for its sessions, so a session may go on
publishing after connection.closed (`strays`), or end without session.closed
(`AbandonSession`). Of the bus only the detector's own channel is kept, a bounded
`queue` with non-blocking sends: the alerts are published on the same bus and
come back through it. One event is taken per action; `check` is a step per
alert (`Fire`), because others publish between two alerts. A rule is its name,
the type of event it looks at, its points and what it asks of the connection;
what it finds in the text of an event is a mark the event carries. `recent`
stands for the three seconds after a login. Severities (text) and the
`final_report` flag are left out: the entry is deleted right after the flag is
set. The model follows `Run` while it is in its loop.

`Shell.tla` - the command interpreter. A line is the tree that mvdan.cc/sh makes
of it. The methods of the interpreter call each other without end, so a session
has an explicit stack of the calls that have not returned (`todo`), and an action
runs the frame on top: one operator per method takes the machine the session runs
its line on (directory, output, codes, context, history, events) and returns it
changed, with the calls it makes pushed. Sessions take their steps in any order and
share the file system. A nested line of sudo or an interpreter enters `ExecuteAs`
anew, with a context of its own that `GoBack` takes away again; substitutions and
subshells stay in the context of their caller and give back the depth (`Leave`): the
model keeps which of them copies the depth, the directory, the code and the output
and which shares them. Words are strings, a line of output is its words, the size
limits count lines. Of the commands there is one of each kind: those that print,
change one file, change the directory or the history, download, run other lines.
The filters are the ones that select lines, and tee. `typed` and `done` are history
variables: what a session has typed, and what the last line did.

`ShellMeaning.tla` EXTENDS Shell - what a line means, defined by recursion over its
tree and not by a stack: who runs which command in which order, the status, the
directory. `RunsAsWritten` compares a line that has just ended with it.

`Accounts.tla` - commands that take several steps on shared files. An action is
one operation of the virtual file system, which is as long as its lock is held,
so the read of a command and its write have other sessions between them. A file
is the set of its lines; a copy in a command's hands is `at[s].copy`. `meant` is
what the finished commands should have left, and `clean` says that none of them
collided and no write was refused so far.

`Relay.tla` - one connection of anti_attack. A stream is a count of bytes. Each
copier reads, writes, reports its end in `errc` and passes the end on, as separate
steps; either side may finish or reset at any point.

`DailyLog.tla` - the writer that starts a new file each day: `OpenLog`, `WriteLine`,
the timer's `Fire` and `Midnight`, `CloseLog`. A file is the set of days it was
written on, and `forced` the days on which archiving it first was tried and failed.

`AntiAttack.tla` EXTENDS Relay and DailyLog - the process: `main` with its signal,
a connection whose steps write to the log, and `Exit`, which cuts everything at
any instant, after which the process may be started again on the same files.

`StoreProofs.tla` (with the bus), `SshServerProofs.tla`, `DetectorProofs.tla`,
`ShellProofs.tla` (with Accounts), `AuthenticationProofs.tla`,
`InteractiveShellProofs.tla`, `FilesProofs.tla` (uploads and the virtual file system), `AntiAttackProofs.tla` -
theorems, see 4.

`MC*.tla` - model values and small sets for TLC.

## 3. Runs

| Run | Instance | Shows |
|---|---|---|
| `store` | a handler and a session it starts, 2 events each, channel of 1, batches of 2, 1 failure | every send delivered or counted as dropped, each goroutine's lines in order and after those of what started it, refinement of SavedEvents, rows follow the statements, shutdown saves what was published before it and ends, Publish ends and every event reaches the store's batch |
| `zero_data_loss` | as `store`, no failures | counterexample, see findings |
| `server` | 1 listener, 2 clients, 1 slot, 2 channels, 1 failed try, timeouts 1 and 2 | slots and channel tokens exact, closed reported once, late only by less than the watchdog's period, listeners close, slots come back |
| `slot_held` | the same, smaller | counterexample, see findings |
| `session` | 3 chunks out of 15, a row of 5, lines of 5, escapes of 4, history of 2, a recording of 40 bytes, timeout 1 | input neither lost nor reordered, stale ticks end nothing, nothing left behind, indices of the editor sound, what is seen is what is run, replays are prefixes, handler and reader end, refinement of SessionRecord |
| `authentication` | 3 connections of 2 addresses, table of 2, 2 attempts in a window of 2, up to 2 requests each (one client by all methods, two by passwords), clock to 2 | the rate is bounded but for attempts that were overtaken, nobody is refused without cause, logins are explained, credentials recorded |
| `sftp` | 2 handles, 2 writes each out of overlapping and sparse packets, limit 3, step 2, 1 refused save | a client whose Close succeeded finds its data saved, saves are throttled and memory bounded |
| `vfs` | 4 nodes, 2 names, files of at most 1, total 1 | budgets, counters, shape of the tree, attributes |
| `detector` | 1 connection, 1 session, 2 attempts, 2 activities out of 2 kinds, channel of 2, webhook queue of 1 | a rule alerts once, alerts and the final report are exact, events reach the right connection, what stays in the maps is explained by a lost closing or a late event, and the loop never blocks |
| `shell` | 2 sessions, 245 line shapes up to 3 levels deep, depth 2, output of 4 lines, history of 2, three lines of a small set, or one of any shape and one of that set; lines that have effects run while the other session runs one | a line runs the commands it says as the user it says, with its code and directory; never more nestings than allowed, and another user only inside sudo; history is the end of what was typed; a locked file stays |
| `accounts` | 2 sessions, 2 names, one account with the highest preset uid, uids to 4 | `/etc/passwd` stays one list of accounts, uid 0 is root, both files agree after commands that did not collide |
| `relay` | 1 byte in each direction, 2 days, 1 failed archiving, 1 restart | neither direction cuts the other, the handler ends, a log file holds one day |

Why the bounds are enough. In the store a batch of 2 with 4 events gives full
batches, partial ones, batches across the final drain, and both orders of the
events of two goroutines, of which the second starts after the first event of the
other; a channel of 1 makes drops and successes happen
between two publishers. The bus is symmetric in its subscribers and they share
only the lock and the counter of drops; the run has one, the store, and the
theorems about the bus (4) cover any number, that join and leave at any time.
One slot and two clients make connections compete; a second slot
adds nothing that the counters distinguish. Timeouts of 1 and 2 put the
watchdog's ticks before, at and after the idle limit.

Three chunks fill the chain reader - channel - handler. The 15 chunks of
`session` are combinations of keys chosen so that three of them in a row reach:
a line at its limit and beyond it by completion, a row that wraps, a backspace in
each of the columns where it is treated differently, a character of two bytes
with the cursor in and behind it, a sequence that is split between chunks or too
long, a walk through a history that is full, cleared or repeated, a command whose
output leaves its row unended, and the rest of a chunk behind `exit`. A recording
of 40 bytes is full in the middle of the second or third chunk.

For `authentication` two connections of one address compete for its two
attempts and make four between them, so that one can be refused, and one can be
judged after another that has read the clock later and pruned the entry; a third
from another address fills the table of two, and a clock to 2
has attempts inside, at the edge of and outside a window of 2. The connections
meet in the limiter only, where all methods are alike, so that one client that
tries all of them is enough. For the virtual
file system four nodes allow a
directory with an entry, a second subtree, and a directory moved into itself;
lengths 0, 1, 2 against limits of 1 hit each refusal. Every bound that is not a
constant of the code is commented "bound of the model" in its module.

The threshold of 50 failures against at most 12 recorded attempts is scaled to 3
against 2 in the detector's run; its channel of 2 makes alerts, closings and
activities drop, and its webhook queue of 1 is full after the first alert.

For the shell three lines let a nested `history -c`, a repetition and the limit
of the history meet; the lines are every combination of two of the four ways to
nest, and of three for the limit of two, around commands with every kind of
status. Two sessions meet in the file system only; the lines that run at the same time
(`Together`) are all those that touch a file, download, write the history or do
not parse, against short ones that write, remove, clear or change the directory.
The accounts need a preset uid above the first free one, two commands
overlapping, and a third after them that reads what they left. A byte in each
direction is enough for the relay, because a copier writes all it has read before
it reads on; two days and one failure give every order of the timer, a writer,
Close, a restart and an archiving that fails.

Deadlock checking is off in all runs but `accounts`: every other modelled system
may stop, when all its clients have come and gone or after shutdown.

No run checks a type invariant alone. Those of EventBus, SshServer, Detector,
Authentication, LineEditor, SessionChannel, SftpWriter, Store and Vfs are proved
(section 4), and that of Accounts is part of its proof.

### Fairness

| Module | Weakly fair | Why |
|---|---|---|
| Store | the steps of Run, the ticker, the context, main, a Publish in progress - all only while the process lives | sends are non-blocking, Go's scheduler is preemptive and RWMutex does not starve writers; select chooses among ready cases at random, so a ready ticker or context is not ignored for ever |
| SshServer | handlers, timers, the watchdog, `Close`, the end of sessions whose connection is closed and whose transport still moves | goroutines are scheduled, timers fire; no fairness for anything a client does |
| InteractiveShell | handler, reader, timer, time; a key's command, an exec or a transfer only once the client is gone | what a command writes blocks while a client does not read |
| Detector | the loop of Run (`Handle`) | it only makes non-blocking sends; nothing is asked of the webhook, the clients or the report of drops |
| AntiAttack | the handler and the copiers; a side finishes once it was told that nothing more comes | goroutines are scheduled, and the relay sets no deadline, so nothing less of a peer would let it end |

In `NobodyWaits` (Store) a Publish ends although nothing is assumed of the
subscribers, and the store catches up although nothing is assumed of the clients.

## 4. What is proved

Every theorem is about the specification with its constants left open; the named
assumptions of the modules (`BusAssumption`, `StoreAssumption`,
`ServerAssumption`, `DetectorAssumption`, `AccountsAssumption`, `AuthAssumption`,
`ChannelAssumption`, `EditorAssumption`, `RecorderAssumption`, the two
`ShellAssumption` of Shell and InteractiveShell, `WriterAssumption`, `VfsAssumption`,
`RelayAssumption`: limits are natural numbers, capacities positive, the sets of
connections and of names to complete finite, the store one of the subscribers, owners
of rows and starters among the producers, a producer's first event not its last, the preset accounts a sound list, the locked
files there from the start, a chunk a sequence of keys, a path not empty and `..` no
name) are all that is assumed.
TLC evaluates these assumptions in the runs.

What is computed in a loop (a batch applied to the tables, the writes of one key,
the walk along a path, the sum of the sizes) is written as a recursive function over
0..n, of which the proofs show by induction what it returns: the lemma `Induction` of
StoreProofs, InteractiveShellProofs, FilesProofs and ShellProofs takes the set of numbers for
which the claim holds instead of a predicate and rests on the well-foundedness of <
on Nat.

Of the bus `StoreProofs.tla` proves `TypeCorrect`, `OrderPreserved`,
`UnsubscribeFinal`, `DropsExact`, `NoSilentLoss` and, of the last two,
`SendsAreAccounted`, which run `store` checks. None is inductive alone. The inductive invariant is
`BusInv == BusTypeOK /\ LockInv /\ BehindInv /\ ProducerOrder`: `LockInv` says
that a channel still to be visited belongs to a publisher inside Publish and to
a member of the map, and is what the read-write lock gives; `BehindInv` says
that what a channel holds of a producer is older than the event that producer
still has to send it, without which a send could repeat or overtake.
`DropsExact` adds that the lost sends form a finite set whose events were begun;
`NoSilentLoss` uses `BusInv` in the state before and after a step and follows
each pair of channel and event from being awaited to placed or lost.

`StoreProofs.tla` then proves `StoreImplementsBus`: the composition of store,
main and publishers implies `BusSpec`, because each of its steps is a step of
the bus or leaves it alone. `BusInv` therefore holds of the composition, and
`FileInOrder` and `FileBeforeTables` follow from it with `StoreInv`, whose core
is `LinesInv`: with `Reached == flushed + written`, every line is an event of the
channel up to `Reached` and every event up to there is a line or counted as
unwritten. A new line is the next event of the channel, so it is newer than all
lines of its producer by `ProducerOrder`, and no first event of a goroutine that
started the producer of an earlier line, by `StartInv`: whoever has published was
started (`StartedInv`), by a goroutine that has left its first Publish by then, so
that its first event is in the channel or will never be (`FirstFirst`). A transaction is applied only when the
file has come as far as pending goes. `ShutdownSaves` adds `DrainInv`: what has
left pending went through a transaction (`AppliedInv`), Run leaves its loop only
with everything flushed that was in the channel when it saw the cancellation
(`DueInv`), and Close passes its wait only after that, unless Run had not
registered yet (`WaitInv`). `TablesFollow` says that an UPDATE never meets a table
without the INSERT of its connection or session because a transaction came before another:
`Follows(t, E)` states what tables t must hold when the statements E took effect, one more
statement keeps it as long as it is newer than those of its producer in E
(`StatementFollows`), and by induction so does a batch in the order of the
channel, whatever of it fails (`ExecutedFollows`).

`StoreKeepsPromise` is the refinement: a step of Run that appends a line is
`GetsLine` (`LineGiven`), one that commits or loses a batch is `Transaction`, because
the batch it takes from the channel is what is `Due` once all its lines were tried
(`BatchGiven`), a send of the bus to the store is `Arrives` (`BusArrives`), and
everything else - the ticker, subscribing and leaving, the drain, main - leaves what
SavedEvents speaks of alone. `FileBeforeTables` is what a reader after a kill needs
of it. `StoreTypes` collects the types from all these invariants.

`SshServerProofs.tla` proves `TypeCorrect`, `SlotsNeverLeak`,
`ChannelsNeverLeak`, both together as `TokensNeverLeak`, `ReportedOnce` and `WatchdogInTime`. The bound of a
semaphore is not inductive: that `sem - 1` is not negative needs `SlotsExact`,
and that a transport with a full queue belongs to a handler that is still
serving needs `MuxInv`, which says where a handler can have sessions and an open
socket. `StepHolding` reduces every step to taking a token with a handler,
giving one back with a handler, or neither, and the cardinality theorems do the
rest. `WatchdogInTime` rests on `WatchInv`: for a served open connection the time
since it was refreshed and the time to the next tick add up to less than twice
`IdleTimeout`.

`DetectorProofs.tla` proves `TypeCorrect`, `OneAlertPerRule`, `ResidueIsExplained`
and the invariant they rest on, `Invariance`. That a rule alerts once per connection is not a
matter of the `fired` map alone: connection.opened puts a fresh entry into
`conns`, so one that came after an event of its connection would let every rule
fire again, and connection.closed deletes the entry, so a second one would too.
`OrderInv` excludes both: in the channel connection.opened precedes everything
about its connection and finds no entry (`Fresh`), and connection.closed comes
at most once and only while the connection is not settled. `ConnInv` ties what
the detector knows of a connection to the place of its handler, `SessionInv`
says that a session is looked up as its owner and belongs to a connection that
has been opened, and `FiredInv` that the alerts on record are those of the
entry, and after the closing one more for an entry that came back.
`ResidueIsExplained` follows the two closings through the channel: the closing of
a connection that is over is in the channel, handled, or dropped (`ClosingInv`);
whatever stands behind it and would bring the entry back is the work of a session
that went on (`LateInv`); and behind the closing of a session never stands its
opening, so that nothing puts it back into `sessConn` (`EndingInv`). Each step is
shown to take at most one event from the channel and to add at most one (`Moves`),
and such moves keep the three.

`AlertsAreExact` has two halves. The sums (`SummaryTotals`): `SumInv` says that the score of an
entry is the sum of the points of its connection's alerts until its closing is
handled, and then the report is that sum; an alert adds its rule's points to both.
One by one (`DetectionExact`), `ExactInv`: no alert without an event that asks for it, where the rule
that counts needs that failures in the entry and in the channel together are
no more than the attempts made (`SoundInv`, by cardinality); and none missing, because
an event that asks for a rule is in the channel, in the hands of `check` with the
loop not yet past the rule, or the alert is raised (`DueInv`). For an activity this
needs that it finds its session in the map when it is handled: before it in the
channel stands the opening, or the map has it, and no closing (`RouteInv`), unless an
event of the connection was dropped.

`ShellProofs.tla` proves `LockedFilesStay`, `HistoryStaysTail`,
`NestingStaysBounded` and `SudoAlwaysEnds` for any sessions, lines, files and limits.
The interpreter is recursive over the tree of a line; its stack of calls makes
an induction over the tree unnecessary, since each step looks at one frame. The
invariant `ShellInv` says of every session that its stack fits its context (`Fits`,
`StackFits`): the depth in the context is the number of `leave` and `return` frames on the
stack, which is what relates the two ways in which the code counts it, one by
incrementing a shared context and one by copying it with one more; a frame that goes back
to a context (`FrameFits`) carries the depth that its place has, and the user of a
context is foreign only above a frame of sudo; the answer to the client stands at the
bottom and nowhere else. With the stack goes what the line has done so far:
the history is empty if it has cleared it and else the end of what was typed (`Recent`).
The lemmas on stacks say what a stack that fits is after a push of one frame, a
nesting or a return, and then each method is shown to leave a proper machine (`Proper`)
whatever it is called with: first the commands, which change files and history
and push nothing, then expansion and statements, then the nested lines.
`RecentAppend` says that adding a line to the history as the code does, in place, gives
the end of the longer list of typed lines: the loop that drops repetitions, and then
the cut at the limit.

Its last part, about Accounts, proves `PasswdStaysSound`, `RootIsUnique`, both
together as `AccountsStaySound`, and `FilesAgree`, all that run `accounts` checks, for
any sessions, names and uids. That the list in the file is sound is not inductive, because any session may be about to write
an old one over it: `SoundInv` says that every copy in a command's hands is sound
as well (`CopiesSound`). The next uid is above all uids of the list it is computed
from, so adding to a sound copy keeps it sound, whatever the file has become
meanwhile. `AgreeInv` holds as long as `clean` does: working commands have
different names, a copy differs from its file in the command's own name only
(`CopiesCurrent`), and for each name the file holds what `meant` says or what
the command working on it has already written (`Settled`, `Written`).

`AuthenticationProofs.tla` proves `TypeCorrect`, `RateNeverExceeded`,
`RefusedWithCause`, `LoginsExplained` and `NothingUnrecorded`, all that run
`authentication` checks. The limiter prunes an entry by the clock reading of the
attempt it judges, which may be older than that of an attempt judged before it;
`TableSound` says that an entry holds no more than the limit and, whatever was
pruned, every attempt let through that is still within the window, so the count
of those is bounded by the entry's, and only attempts that were let through, so
a full entry is a cause. Of windows that have ended `WindowsSound` says as much of
the attempts that were not overtaken: an attempt is forgotten only because one a whole
window later was let through, or because one was refused while the entry was full of
later ones (`Remembers`), so that one that is let through and not late finds all
others of its windows in the entry. What a connection's request may hold at each of its
places is `Fits`. `Entitled` follows the record of a connection up to its only
success, and `Accounted` counts the events of each request: none while it is in
its first round, one in the second, one or two when it is over.

`InteractiveShellProofs.tla` first proves `ShellImplementsParts`: the composition
implies `ChannelSpec` and `EditorSpec`, because each of its steps is a step of
each part or leaves it alone. What is proved of a part then holds of the whole.
Of the editor: `EditorTypes` and `EditorStaysSound`, whose invariant is split into
line, walk, history and escape sequence, so that each key has to be looked at only
for what it can disturb. Of the channel: `InputStaysInOrder` (`ChunksInv`:
handled, waiting and held by the reader are consecutive numbers),
`IdleIsQuiet` (`TimerInv`: a timer that is armed has run for exactly the time
since it was set, and one that has ticked for a whole `Timeout` since), `ReturnsClean`
and the refinement `ShellKeepsRecord`. The last two rest on `RecordInv`, which
ties the counts of opened and closed events to the executor's state and to the
place of the handler; `Skeleton` reduces the handler's actions to opening,
executing, closing and leaving as they are, and each of these is a step of
SessionRecord or a stutter. `ChannelTypes` adds what a stopped reader leaves behind
(`WithinInv`), so that no chunk is handled that was not typed.

Of the recording and the screen, which need the whole: `ReplayFollows`. A key that the
handler works on writes any number of frames to the client and to the recording
(`Writes`), and by induction over them the frames kept are the first ones and none
is missing before the recording is full (`EmitFollows`); one may be missing only
after the handler has left, which is the word logout (`TapeInv`). `ScreenFollows`: `ScreenInv`
says that the row holds prompt and line and the column is that of the cursor, as
long as both fit and the row is the line's own. Per key it is shown that its answer
(a byte echoed at the end, the fast path of the backspace, moves of the cursor,
drawing the line anew) leaves what `Shown` says of the new line and cursor; the
wrapping of the terminal and its two treatments of a backspace in the last column do
not come into play because a column stays free. `SeenInv` adds where the handler
is: before the shell there is nothing on the screen, and after a farewell nothing again.

`FilesProofs.tla` first proves `TypeCorrect`, `ClosedIsSaved` and
`UploadsThrottled` of SftpWriter, all that run `sftp` checks. `SavedInv` says that a buffer that
is not dirty is in the file (`CleanInv`), whatever other uploads of the path do,
as long as they are not saved later, and what is left dirty after the end was
refused and told (`FinalInv`). `CountInv` says that the published sizes are a
whole `FlushStep` apart but for the last one.

Then it proves `TreeStaysCounted` and `AttributesAreKept`, all that run `vfs` checks,
and `VfsTypes`. The invariant `VfsInv` is that `node` is whole (`TreeOK`: typed, every
entry leads to a node that exists, no two to the same and none to the root) and that
the counters are exact. It speaks of all nodes that exist and not of those reachable
from the root, because a renamed directory may have left the tree; what is reachable
is among them (`BelowLeast`). An operation is stated as a relation between two
trees, which is proved to keep a tree whole and to change its weight by so much:
a node is added (`IsGrown`), a subtree is cut off (`IsPruned`), an entry is moved
(`IsMoved`), one node is edited (`Edited`). A subtree is the least closed set, so
`OneWayIn`, that nothing outside leads into it but the entry it is cut off at, follows
from the uniqueness of places: without that, a removal would leave entries that lead
nowhere. The sum of sizes is a recursive function; that a total changes by
what its parts change by (`TotalsBalance`) is proved once, by that induction, and
gives the bytes of all operations. The walks are recursive functions as well:
`WalkStays` says that they end at a node that exists, and `MkdirWalkSound` that what
Mkdir has built after any number of segments is whole, counted, and only grown.

`AntiAttackProofs.tla` proves what run `relay` checks of its two parts.
`RelayLosesNothing` rests on `CollectInv`, which counts the results: two copiers
leave one each in `errc`, the handler takes two and closes the connections only
then, so that both directions have ended by themselves; and on `StreamInv`: as long as
nobody resets, a copier that waits has passed on all it took, and one that is over
had come to the end of a side that has finished. `LogFilesAreDaily` rests on
`DateInv`: lines in the active file that are older than the writer's date are there
because archiving failed on that date, which is all the writer looks at when it
decides whether to archive.

Only model-checked: `RunsAsWritten`, the first part of `LinesHold` (the other two,
`NestingBounded` and `SudoEnds`, are proved), because what a line means is recursive
over its tree and the prover has neither RECURSIVE operators nor induction over such
data; and every liveness property, since fairness and ENABLED are out of its reach.

## 5. Findings

1. `zero_data_loss`: README.en.md:27 promises "Graceful shutdown: drains pending
   events before closing, zero data loss". Connections are not waited for and go
   on publishing while `Store.Run` flushes for the last time and unsubscribes;
   what arrives in the channel in between is written nowhere.
2. `slot_held`: while a shell, a command or an SFTP server runs, nobody takes the
   channel's requests. Once the transport has queued 16 of them it stops reading,
   the loop over new channels never sees the end of the connection, and the slot
   is kept although the watchdog has closed the connection (server.go:303-306
   says the watchdog is there to prevent that).

Disagreements without a run of their own.

Connections and sessions:
- after pty-req, a subsystem request other than sftp ends the handler without
  closing its session (server.go:483-486): executor state and recording stay,
  although executor.go:30 says that RemoveSession cleans them;
- the watchdog ends an upload that is in progress: it is refreshed by channel
  requests only (`CutOnlyWhenQuiet` in SshServer);
- session.opened carries the terminal's size before pty-req has set it.

Authentication:
- authenticator.go:16 says that every attempt is recorded; what the limiter
  refuses, an attempt by `none` or by an unknown method, and a second round of
  keyboard-interactive that breaks off leave no event (`bypassed` and
  `NoSecondAnswer` in Authentication); neither does the key that a client offers
  a second time, which x/crypto/ssh refuses without asking again (`TakeKeyAgain`);
- server.go:82-83 speaks of 60 attempts per minute and address in a sliding
  window. The clock is read before the lock (server.go:99-100): 60 attempts are let
  through at time 0, another reads its clock just before the minute is over and
  waits for the lock, one more reads its clock when it is over, comes first and
  removes the 60 from the entry, and the one that waited is then judged against it
  alone. 61 attempts with clock readings within a minute have reached a password
  check. `RateBounded` counts such attempts apart (`late`); with them its second
  part does not hold, as TLC finds in 13 steps on the instance of `authentication`.

Line editor and recording:
- completion and the history put lines longer than `maxInteractiveLine` into the
  editor, whose limit only typing looks at;
- server.go:622 says that a backspace deletes a whole character; the arrows and
  Del move and delete by the byte, and after an arrow has gone into the middle of
  a character a backspace deletes one byte of it;
- the fast path of backspace counts on the prompt being alone in its row; behind
  output that did not end its row the cursor is elsewhere (`shared` in LineEditor);
- the word logout that answers Ctrl-D is sent and not recorded.

Detector:
- docs/architecture.md:125 wants an alert for 50 failed attempts from one address
  within 5 minutes; the rule counts one connection, which ends after 6 tries and
  12 recorded attempts at most, so `brute_force_burst` never fires;
- detector.go:86 says that event_bus_overload goes to the webhook, and
  `monitorBusDropped` only publishes it;
- detector.go:267 says that the final report is made if no critical alert was,
  and it is made whenever the score is not 0.

File system and accounts:
- a directory renamed into itself leaves the tree and stays in the node and byte
  counts (`CountsTree` in Vfs), which the comments at vfs.go:47 and 79 rule out;
- `Mkdir` of `x/../y` with an existing `x` makes `x/y`;
- bootstrap gives sshd the uid 65534 (vfs.go:160), so `nextUID`, which by its
  comment counts from 1000, gives 65535 first;
- overlapping useradd and userdel lose each other's lines (executor.go:1842 says
  that a line is added to each file);
- chattr writes all flags as it read them, so that of a non-root owner can clear
  an `i` that root set in between (attr.go:221-235); gzip removes its source even
  if another session has rewritten it since it was read.

Shell:
- downloads are saved where the line started, not where it has gone:
  `cd /tmp && wget x` saves in the old directory (vnet.go:376 speaks of the
  session's cwd);
- the arguments of a command in a pipe that is not a filter are expanded twice, so
  `$(wget x)` downloads twice (parse.go:119-130);
- in a line that does not parse, `&&` and `||` are looked at after the command
  they stand before: `false && c` runs `c`;
- `$?` inside a line is the code of the previous line; a subshell keeps its `cd`;
- the output inside one chain `a && b && c` is not capped while it runs
  (docs/audit-fixes-v1.2.md:23 says that intermediate output is);
- a refused redirection writes its message over the bytes whose hash it then
  publishes, and publishes file.written although nothing was written
  (parse.go:157-170).

anti_attack:
- a comment in main.go (203) says that accepted connections run to their end;
  main returns without waiting and the process cuts them (`Exit` in AntiAttack);
- removePidfile (main.go:225-239) reads the file and then removes it, so one that
  another instance wrote in between is removed;
- a line is stamped before the writer's mutex is taken, so the first line of a
  day's file may bear the date before.

Dashboard:
- the comment at main.go:56 of cmd/report says that rendered pages are cached by
  options and refresh; the key has its times cut to the minute and no label, so
  two requests for different ranges within a minute get one page, with the label
  of the first.

## 6. Plan

Built, in this order: EventBus, Store with SavedEvents, SshServer, SessionRecord and
SessionChannel, SftpWriter, Vfs, Detector, Shell, Accounts, Authentication,
TtyRecorder, LineEditor, InteractiveShell, Relay, DailyLog, AntiAttack, and the
eight proof modules.

What is left, most worthwhile first.

- An abstract specification of an upload, as one atomic replacement of a file.
- gzip, crontab and rsync in Accounts: they too read and write in separate steps.
- The dashboard's cache (`cmd/report/main.go`).

## 7. Not modelled

- The text the simulated commands print, the filters that compute text (awk, sed,
  cut, tr, sort, checksums), HTML reports and the offline
  command line tools: input and output without shared state.
- The dashboard: its requests only read the database; its cache is one map under a
  mutex, looked up and filled in two separate sections, so that a report may be
  made twice and an older one replace a newer one for as long as it is valid; and a
  report is several queries outside a transaction, between which the store may commit.
- Retention in the store and the rotation of its JSONL files: deletion by date.
- Configuration, flags and host key loading: sequential, at start. For
  anti_attack also becoming a daemon, the pidfile and the list of local addresses;
  files it starts anew for their size.
- Window changes, the control bytes the editor ignores and the text of the prompt:
  the width of the terminal is fixed.
- Lines in `/etc/passwd` that something other than useradd and userdel wrote
  (echo, sed), and account names with a colon, which useradd does not refuse.
- Reading operations of the virtual file system and SFTP: they change nothing.
- The Go memory model: the shared state modelled here is guarded by mutexes,
  channels or atomics in the code, so steps are atomic at that grain.
