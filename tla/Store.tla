------------------------------- MODULE Store --------------------------------
(***************************************************************************)
(* The store, internal/store/store.go, on its channel of the event bus,    *)
(* and the shutdown sequence of cmd/honeypot/main.go.                      *)
(*                                                                         *)
(* Store.Run takes events from its channel into a pending batch, and       *)
(* flushes the batch when it is full, when the ticker fires, and after it  *)
(* has drained the channel on cancellation.  A flush first appends every   *)
(* event to the JSONL file and then applies the batch to SQLite in one     *)
(* transaction.  Pending is the interval flushed+1 .. taken of the log of  *)
(* the channel, so that nothing is copied.                                 *)
(*                                                                         *)
(* The producers are the goroutines that publish: the handler of a         *)
(* connection, the session goroutines it starts and the sftp workers these *)
(* start, all of which publish at the same time and may outlive the        *)
(* handler, and the detector.  Event 1 of a handler is connection.opened   *)
(* and event MaxEvents connection.closed; of a session goroutine they are  *)
(* session.opened and session.closed.  All others are attempts, commands,  *)
(* files, alerts and the like.                                             *)
(***************************************************************************)
EXTENDS EventBus, SequencesExt

CONSTANTS
  store,     \* the member of Subscribers that runs this code
  Owners,    \* producers with a row in connections or sessions: handlers and session goroutines
  Starter,   \* the producer that starts each, after its own first event; itself if none does
  Batch,     \* flushBatch, 128
  MaxFailures  \* bound of the model: events whose writing may fail

ASSUME StoreAssumption ==
  /\ store \in Subscribers
  /\ Owners \subseteq Producers
  /\ Starter \in [Producers -> Producers]
  /\ MaxEvents > 1  \* connection.opened is not connection.closed
  /\ Batch \in Nat \ {0}
  /\ MaxFailures \in Nat

VARIABLES
  run,         \* control state of Store.Run
  back,        \* where Run goes on after a flush
  wg,          \* Store.wg
  flushed,     \* number of events that have left pending
  written,     \* number of events of the batch in flush already put in the file
  jsonl,       \* the lines of the JSONL files
  unwritten,   \* events whose line could not be written
  rows,        \* ids in the tables connections and sessions
  closedRows,  \* those whose closed_at is set
  applied,     \* history: events whose statement took effect in a committed transaction
  skipped,     \* history: events whose statement failed, or whose transaction did
  main,        \* control state of main
  dbOpen,      \* is the database handle open?
  raced,       \* history: main passed wg.Wait before Run called wg.Add
  due          \* history: length of the log when Run saw the cancellation

batchVars == <<flushed, written>>
fileVars == <<jsonl, unwritten>>
tableVars == <<rows, closedRows, applied, skipped>>
mainVars == <<main, dbOpen, raced>>
storeVars == <<run, back, wg, due, batchVars, fileVars, tableVars, mainVars>>

vars == <<busVars, storeVars>>

\* May the writing of n more events fail?
MayFail(n) == Cardinality(unwritten) + Cardinality(skipped) + n <= MaxFailures

\* Every goroutine of the process runs until main returns.
Alive == main # "exited"

Init ==
  /\ BusInit
  /\ run = "start" /\ back = "select"
  /\ wg = 0
  /\ flushed = 0 /\ written = 0
  /\ jsonl = <<>> /\ unwritten = {}
  /\ rows = {} /\ closedRows = {}
  /\ applied = {} /\ skipped = {}
  /\ main = "serving"
  /\ dbOpen = TRUE
  /\ raced = FALSE
  /\ due = 0

(***************************************************************************)
(* Store.Run: registration, and the select loop.                           *)
(***************************************************************************)
\* s.wg.Add(1); ch := s.bus.Subscribe()
StartRun ==
  /\ run = "start"
  /\ CallSubscribe(store)
  /\ wg' = wg + 1
  /\ run' = "subscribe"
  /\ UNCHANGED <<back, due, batchVars, fileVars, tableVars, mainVars>>

Subscribed ==
  /\ run = "subscribe"
  /\ Subscribe(store)
  /\ run' = "select"
  /\ UNCHANGED <<back, wg, due, batchVars, fileVars, tableVars, mainVars>>

\* case ev := <-ch
TakeEvent ==
  /\ run = "select"
  /\ Receive(store)
  /\ IF taken'[store] - flushed >= Batch
     THEN run' = "flush" /\ back' = "select"
     ELSE UNCHANGED <<run, back>>
  /\ UNCHANGED <<wg, due, batchVars, fileVars, tableVars, mainVars>>

\* Bug: no ticker.
TickNever == FALSE /\ UNCHANGED vars

\* case <-ticker.C
Tick ==
  /\ run = "select"
  /\ taken[store] > flushed
  /\ run' = "flush" /\ back' = "select"
  /\ UNCHANGED <<wg, due, batchVars, fileVars, tableVars, mainVars, busVars>>

\* case <-ctx.Done()
SeeCancel ==
  /\ run = "select"
  /\ main # "serving"
  /\ run' = "drain"
  /\ due' = Len(log[store])
  /\ UNCHANGED <<back, wg, batchVars, fileVars, tableVars, mainVars, busVars>>

\* The inner loop takes everything the channel holds, however long the batch becomes.
DrainEvent ==
  /\ run = "drain"
  /\ Receive(store)
  /\ UNCHANGED storeVars

\* Bug: what is left in the channel is not taken.
DrainedEarly ==
  /\ run = "drain"
  /\ run' = "flush" /\ back' = "leave"
  /\ UNCHANGED <<wg, due, batchVars, fileVars, tableVars, mainVars, busVars>>

\* default: flush(); return
Drained ==
  /\ run = "drain"
  /\ Backlog(store) = 0
  /\ run' = "flush" /\ back' = "leave"
  /\ UNCHANGED <<wg, due, batchVars, fileVars, tableVars, mainVars, busVars>>

(***************************************************************************)
(* Store.flush.                                                            *)
(***************************************************************************)
Pending == SubSeq(log[store], flushed + 1, taken[store])

WriteDone == written = taken[store] - flushed

\* s.jl.write(ev): a failure is logged and the loop goes on.  A file closed by Store.Close
\* is opened again by rotate, so closing it does not make a later write fail.
WriteLine(ok) ==
  /\ run = "flush"
  /\ ~WriteDone
  /\ ok \/ MayFail(1)
  /\ written' = written + 1
  /\ LET e == log[store][flushed + written + 1]
     IN IF ok THEN jsonl' = Append(jsonl, e) /\ UNCHANGED unwritten
              ELSE unwritten' = unwritten \union {e} /\ UNCHANGED jsonl
  /\ UNCHANGED <<run, back, wg, flushed, due, tableVars, mainVars, busVars>>

\* One statement on connections or sessions: an INSERT for opened, an UPDATE, which finds no
\* row or one, for closed.  The other events only add to tables of their own.
Statement(tables, e) ==
  IF e[1] \notin Owners THEN tables
  ELSE IF e[2] = 1 THEN [tables EXCEPT !.rows = @ \union {e[1]}]
  ELSE IF e[2] = MaxEvents /\ e[1] \in tables.rows THEN [tables EXCEPT !.closed = @ \union {e[1]}]
  ELSE tables

Tables == [rows |-> rows, closed |-> closedRows]

\* Bug: the batch is applied last event first.
ExecutedReversed(batch, failed) ==
  LET tables[i \in 0..Len(batch)] ==
        IF i = 0 THEN Tables
        ELSE IF Reverse(batch)[i] \in failed THEN tables[i - 1]
        ELSE Statement(tables[i - 1], Reverse(batch)[i])
  IN tables[Len(batch)]

\* One Exec for each event of the batch, in order.  The error of one is ignored: the
\* statement has no effect and the loop goes on.
Executed(batch, failed) ==
  LET tables[i \in 0..Len(batch)] ==
        IF i = 0 THEN Tables
        ELSE IF batch[i] \in failed THEN tables[i - 1]
        ELSE Statement(tables[i - 1], batch[i])
  IN tables[Len(batch)]

\* pending = pending[:0]
EndFlush ==
  /\ flushed' = taken[store]
  /\ written' = 0
  /\ run' = back

\* Bug: the transaction does not wait for the lines.
CommitBeforeLines(failed) ==
  /\ run = "flush"
  /\ Pending # <<>>
  /\ dbOpen
  /\ failed = {} \/ MayFail(Cardinality(failed))
  /\ rows' = Executed(Pending, failed).rows
  /\ closedRows' = Executed(Pending, failed).closed
  /\ applied' = applied \union (ToSet(Pending) \ failed)
  /\ skipped' = skipped \union failed
  /\ EndFlush
  /\ UNCHANGED <<back, wg, due, fileVars, mainVars, busVars>>

\* Begin, the loop over the batch, and Commit.
Commit(failed) ==
  /\ run = "flush"
  /\ WriteDone
  /\ Pending # <<>>
  /\ dbOpen
  /\ failed = {} \/ MayFail(Cardinality(failed))
  /\ rows' = Executed(Pending, failed).rows
  /\ closedRows' = Executed(Pending, failed).closed
  /\ applied' = applied \union (ToSet(Pending) \ failed)
  /\ skipped' = skipped \union failed
  /\ EndFlush
  /\ UNCHANGED <<back, wg, due, fileVars, mainVars, busVars>>

\* Begin or Commit fails, because of an error or because the handle is closed: the batch
\* is only logged as a warning and never tried again.
TransactionLost ==
  /\ run = "flush"
  /\ WriteDone
  /\ Pending # <<>>
  /\ ~dbOpen \/ MayFail(Len(Pending))
  /\ skipped' = skipped \union ToSet(Pending)
  /\ EndFlush
  /\ UNCHANGED <<back, wg, rows, closedRows, applied, due, fileVars, mainVars, busVars>>

\* flush returns at once on an empty batch.
FlushNothing ==
  /\ run = "flush"
  /\ Pending = <<>>
  /\ run' = back
  /\ UNCHANGED <<back, wg, due, batchVars, fileVars, tableVars, mainVars, busVars>>

(***************************************************************************)
(* The deferred calls of Run, in the order they run: a flush of nothing,   *)
(* Unsubscribe, wg.Done.                                                   *)
(***************************************************************************)
LeaveBus ==
  /\ run = "leave"
  /\ CallUnsubscribe(store)
  /\ run' = "unsubscribe"
  /\ UNCHANGED <<back, wg, due, batchVars, fileVars, tableVars, mainVars>>

\* Bug: no wg.Done.
ReturnNoDone ==
  /\ run = "unsubscribe"
  /\ Unsubscribe(store)
  /\ run' = "returned"
  /\ UNCHANGED <<back, wg, due, batchVars, fileVars, tableVars, mainVars>>

Return ==
  /\ run = "unsubscribe"
  /\ Unsubscribe(store)
  /\ run' = "returned"
  /\ wg' = wg - 1
  /\ UNCHANGED <<back, due, batchVars, fileVars, tableVars, mainVars>>

RunStep ==
  \/ StartRun \/ Subscribed \/ TakeEvent \/ Tick \/ SeeCancel
  \/ DrainEvent \/ Drained
  \/ \E ok \in BOOLEAN : WriteLine(ok)
  \/ \E failed \in SUBSET ToSet(Pending) : Commit(failed)
  \/ TransactionLost \/ FlushNothing
  \/ LeaveBus \/ Return

(***************************************************************************)
(* main: a signal, or an error of the server, cancels the context; then    *)
(* srv.Close, which only closes the listeners, and st.Close.               *)
(***************************************************************************)
Signal ==
  /\ main = "serving"
  /\ main' = "cancelled"
  /\ UNCHANGED <<run, back, wg, dbOpen, raced, due, batchVars, fileVars, tableVars, busVars>>

\* s.wg.Wait()
WaitRun ==
  /\ main = "cancelled"
  /\ wg = 0
  /\ main' = "waited"
  /\ raced' = (run = "start")
  /\ UNCHANGED <<run, back, wg, dbOpen, due, batchVars, fileVars, tableVars, busVars>>

\* s.jl.close(); s.db.Close()
CloseHandles ==
  /\ main = "waited"
  /\ main' = "closed"
  /\ dbOpen' = FALSE
  /\ UNCHANGED <<run, back, wg, raced, due, batchVars, fileVars, tableVars, busVars>>

Exit ==
  /\ main = "closed"
  /\ main' = "exited"
  /\ UNCHANGED <<run, back, wg, dbOpen, raced, due, batchVars, fileVars, tableVars, busVars>>

MainStep == WaitRun \/ CloseHandles \/ Exit

\* Bug: the goroutine is started before its starter has published anything.
StartedEarly(p) == TRUE

\* Has the goroutine been started?  Its starter has published its first event before.
Started(p) ==
  LET by == Starter[p]
  IN by = p \/ sent[by] > 1 \/ (sent[by] = 1 /\ by \notin publishing)

\* A goroutine publishes; those of connections outlive srv.Close.
GoroutineStep(p) ==
  /\ (Started(p) /\ BeginPublish(p)) \/ PublishStep(p)
  /\ UNCHANGED storeVars

Next ==
  /\ Alive
  /\ \/ RunStep
     \/ MainStep
     \/ Signal
     \/ \E p \in Producers : GoroutineStep(p)

Spec == Init /\ [][Next]_vars

(***************************************************************************)
(* Fairness: the goroutines of Run, of main and of a Publish in progress   *)
(* are scheduled, and each ready case of the select is taken in the end.   *)
(* Nothing makes a goroutine publish or a signal arrive.                   *)
(***************************************************************************)
Fairness ==
  /\ WF_vars(Alive /\ RunStep)
  /\ WF_vars(Alive /\ Tick)
  /\ WF_vars(Alive /\ SeeCancel)
  /\ WF_vars(Alive /\ MainStep)
  /\ \A p \in Producers : WF_vars(Alive /\ PublishStep(p) /\ UNCHANGED storeVars)

FairSpec == Spec /\ Fairness

(***************************************************************************)
(* Properties.                                                             *)
(***************************************************************************)
TypeOK ==
  /\ BusTypeOK
  /\ run \in {"start", "subscribe", "select", "flush", "drain", "leave", "unsubscribe", "returned"}
  /\ back \in {"select", "leave"}
  /\ wg \in 0..1
  /\ flushed \in Nat /\ flushed <= taken[store]
  /\ written \in Nat /\ written <= taken[store] - flushed
  /\ jsonl \in Seq(Event) /\ unwritten \subseteq Event
  /\ rows \subseteq Producers /\ closedRows \subseteq rows
  /\ applied \subseteq Event /\ skipped \subseteq Event
  /\ main \in {"serving", "cancelled", "waited", "closed", "exited"}
  /\ dbOpen \in BOOLEAN /\ raced \in BOOLEAN
  /\ due \in Nat

\* The lines of one goroutine are in the order of its events, and none is there twice.
EachInOrder ==
  \A i, j \in 1..Len(jsonl) :
    (i < j /\ jsonl[i][1] = jsonl[j][1]) => jsonl[i][2] < jsonl[j][2]

\* The first line of a goroutine precedes all lines of those that it starts.
StarterFirst ==
  \A i, j \in 1..Len(jsonl) :
    LET p == jsonl[j][1]
    IN Starter[p] # p /\ jsonl[i] = <<Starter[p], 1>> => i < j

\* What order a reader of the JSONL files may rely on, across batches, failed writes and the
\* final drain: that of the events of each goroutine, and connection.opened before whatever
\* the sessions of the connection publish, session.opened before its uploads.  No more than
\* that: the goroutines of a connection are not ordered among each other, nor is anything
\* but the handler's own events before connection.closed.
FileOrder == EachInOrder /\ StarterFirst

\* The tables never run ahead of the files: whatever instant the process is killed at, an
\* event found in SQLite has its JSONL line, unless writing that line failed.
TablesBehindFile == applied \subseteq ToSet(jsonl) \union unwritten

Promise == INSTANCE SavedEvents WITH
  Events <- Event, arrived <- log[store],
  lined <- flushed + written, lines <- jsonl, lineless <- unwritten,
  settled <- flushed, effective <- applied, ineffective <- skipped

\* Through batching, ticks, failures and the drain of the shutdown, every event is written
\* once and goes through one transaction, in the order of the channel, after its line and
\* together with all that got their lines since the last transaction.
SavesInOrder == Promise!SavedSpec

\* A connection or session has a row when its INSERT took effect, and closed_at when its
\* UPDATE did too: the UPDATE is never applied before the INSERT of the same id, although
\* both may fall into one batch, into two, or be separated by a lost transaction.
RowsFollowStatements ==
  /\ rows = {p \in Owners : <<p, 1>> \in applied}
  /\ closedRows = {p \in Owners : <<p, 1>> \in applied /\ <<p, MaxEvents>> \in applied}

Settled(e) == e \in ToSet(jsonl) \union unwritten /\ e \in applied \union skipped

\* If Run had registered before st.Close, then when Close stops waiting every event that was
\* in the channel when Run saw the cancellation has been through a flush.
ShutdownDrains ==
  (main \in {"waited", "closed", "exited"} /\ ~raced) =>
    /\ run = "returned"
    /\ \A i \in 1..due : Settled(log[store][i])

\* A shutdown ends.
ShutdownCompletes == (main = "cancelled") ~> (main = "exited")

\* While the program serves, the store catches up with its channel: an event put there
\* leaves pending through a flush even if no further event ever fills its batch.
StoreCatchesUp ==
  (flushed < Len(log[store])) ~> (flushed = Len(log[store]) \/ main # "serving")

\* A Publish ends even if the store never reads again: while it is in its flush, and when
\* it has left its loop and waits for the lock that the publishers hold.
PublishEnds == \A p \in Producers : (p \in publishing) ~> (p \notin publishing \/ ~Alive)

\* No goroutine waits for the store for ever, and no event for its flush.
NobodyWaits == PublishEnds /\ StoreCatchesUp

\* README: a graceful shutdown drains the pending events before closing, with zero data
\* loss: once main has returned, every event put in the store's channel has its line (leaving
\* aside the start of Run racing with the shutdown).
ZeroDataLoss ==
  (main = "exited" /\ ~raced) => \A i \in 1..Len(log[store]) : log[store][i] \in ToSet(jsonl)
=============================================================================
