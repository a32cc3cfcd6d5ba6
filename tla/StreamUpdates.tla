--------------------------- MODULE StreamUpdates ---------------------------
(***************************************************************************)
(* The StreamUpdates RPC of the Arxveil server, down to the PostgreSQL     *)
(* rows it writes: server/internal/agentgrpc/server.go (the handler),      *)
(* server/internal/presence and server/internal/telemetry (the services)   *)
(* and server/internal/repository/postgres (the statements).               *)
(*                                                                         *)
(* Every call of the RPC is one element of Streams and runs in a goroutine *)
(* of its own.  It authenticates, opens a presence session in a            *)
(* transaction, handles the agent's messages one at a time, and closes the *)
(* session in a second transaction.  Several streams may authenticate as   *)
(* the same machine: an agent that reconnects does so while the server     *)
(* still holds the stream it lost.                                         *)
(*                                                                         *)
(* A transaction is a draft that only its stream sees until the database   *)
(* applies it, and it holds the lock of the machine's row from its UPDATE  *)
(* on.  Asking for the commit, the commit itself and the answer to it are  *)
(* three steps, so that a handler may give up in between.                  *)
(*                                                                         *)
(* A timestamp of a row is represented by the session whose statement      *)
(* wrote it: last_seen_at and last_disconnected_at hold the connection     *)
(* time of that session.  The code compares connection times for equality  *)
(* only.  A telemetry sample is represented by its primary key, the time   *)
(* of its collection.                                                      *)
(***************************************************************************)
EXTENDS Naturals, Sequences

CONSTANTS
  Streams,           \* the calls of StreamUpdates, each made once
  Machines,          \* the rows of machines that have an active identity
  Samples,           \* the collection times of telemetry samples
  NoMachine,         \* the machine of credentials that match no identity
  NoSample,          \* no sample is being recorded
  DatabaseMayFail,   \* may a database call fail, or exceed its deadline?
  ClockMayRepeat,    \* may two sessions read the same connection time?
  ServerMayCrash     \* may the server be killed?

ASSUME ConstantAssumption ==
  /\ NoMachine \notin Machines
  /\ NoSample \notin Samples
  /\ DatabaseMayFail \in BOOLEAN
  /\ ClockMayRepeat \in BOOLEAN
  /\ ServerMayCrash \in BOOLEAN

VARIABLES
  \* The handlers
  pc,            \* the statement of StreamUpdates the goroutine is at
  cancelled,     \* has the stream's context been cancelled?
  machine,       \* the machine whose identity the credentials match
  connectedAt,   \* ConnectedAt of the session, 0 before it is read
  session,       \* whether the handler has to close a session, or has done it
  result,        \* the status the RPC returns
  sample,        \* the sample being recorded
  received,      \* the samples the handler has accepted from the stream
  \* The transactions
  tx,            \* how far the transaction of the stream has come
  writes,        \* which UPDATE it has executed; it then holds the row lock
  event,         \* has it inserted a presence event?
  \* The database, as committed
  row,           \* machines
  events,        \* machine_presence_events, in the order of their ids
  samples,       \* telemetry_samples
  clock          \* the latest connection time given by clock_timestamp()

handlerVars == <<machine, connectedAt, session, result, sample, received>>
txVars == <<tx, writes, event>>
databaseVars == <<row, events, samples, clock>>
vars == <<pc, cancelled, handlerVars, txVars, databaseVars>>

----------------------------------------------------------------------------
(* Where a handler can be                                                  *)

Opening == {"lookup", "startBegin", "startUpdate", "startInsert",
            "startCommit", "startWait"}
Receiving == {"recv", "record", "touch"}
Closing == {"endBegin", "endUpdate", "endInsert", "endCommit", "endWait"}
Location == {"idle", "first", "done"} \cup Opening \cup Receiving \cup Closing

Result == {"none", "OK", "InvalidArgument", "Unauthenticated", "Internal",
           "Cancelled"}

Status == {"unknown", "online", "offline"}

MachineRow == [status : Status, lastConnectedAt : Nat, lastSeenAt : Nat,
               lastDisconnectedAt : Nat]

TypeOK ==
  /\ pc \in [Streams -> Location]
  /\ cancelled \in [Streams -> BOOLEAN]
  /\ machine \in [Streams -> Machines \cup {NoMachine}]
  /\ connectedAt \in [Streams -> Nat]
  /\ session \in [Streams -> {"none", "open", "closed", "error", "lost"}]
  /\ result \in [Streams -> Result]
  /\ sample \in [Streams -> Samples \cup {NoSample}]
  /\ received \in [Streams -> SUBSET Samples]
  /\ tx \in [Streams -> {"none", "open", "committing", "committed"}]
  /\ writes \in [Streams -> {"none", "start", "end"}]
  /\ event \in [Streams -> BOOLEAN]
  /\ row \in [Machines -> MachineRow]
  /\ events \in [Machines -> Seq({"online", "offline"})]
  /\ samples \in [Machines -> SUBSET Samples]
  /\ clock \in Nat

Init ==
  /\ pc = [s \in Streams |-> "idle"]
  /\ cancelled = [s \in Streams |-> FALSE]
  /\ machine = [s \in Streams |-> NoMachine]
  /\ connectedAt = [s \in Streams |-> 0]
  /\ session = [s \in Streams |-> "none"]
  /\ result = [s \in Streams |-> "none"]
  /\ sample = [s \in Streams |-> NoSample]
  /\ received = [s \in Streams |-> {}]
  /\ tx = [s \in Streams |-> "none"]
  /\ writes = [s \in Streams |-> "none"]
  /\ event = [s \in Streams |-> FALSE]
  /\ row = [m \in Machines |-> [status |-> "unknown", lastConnectedAt |-> 0,
                                lastSeenAt |-> 0, lastDisconnectedAt |-> 0]]
  /\ events = [m \in Machines |-> <<>>]
  /\ samples = [m \in Machines |-> {}]
  /\ clock = 0

----------------------------------------------------------------------------
(* Helpers                                                                 *)

Goto(s, l) == pc' = [pc EXCEPT ![s] = l]

\* The call has been accepted and has not returned.
Active(s) == pc[s] \notin {"idle", "done"}

\* The handler returns before a session is open: nothing to close.
Return(s, code) ==
  /\ Goto(s, "done")
  /\ result' = [result EXCEPT ![s] = code]

\* Mutation: a return of the loop that the deferred closeSession misses.
ReturnWithoutClose(s, code) ==
  /\ Goto(s, "done")
  /\ result' = [result EXCEPT ![s] = code]

\* The handler returns from its loop: the deferred closeSession runs first.
ReturnAndClose(s, code) ==
  /\ Goto(s, "endBegin")
  /\ result' = [result EXCEPT ![s] = code]

\* A call that runs under the stream's context can fail when that context is
\* cancelled, and any call can when the database is unavailable.
CallMayFail(s) == cancelled[s] \/ DatabaseMayFail

\* Some transaction has updated the row of machine m and has not ended.
RowLocked(m) == \E s \in Streams : machine[s] = m /\ writes[s] # "none"

\* ... and it is a StartSession, whose FOR UPDATE also blocks the foreign-key
\* check of an INSERT into telemetry_samples.
RowLockedForUpdate(m) ==
  \E s \in Streams : machine[s] = m /\ writes[s] = "start"

\* The row still carries the connection time of the session of stream s.
IsCurrent(s) == row[machine[s]].lastConnectedAt = connectedAt[s]

\* Mutation: now(), the time at which the transaction began, so that a session
\* that has waited for the row may be dated before the one it waited for.
TransactionTimes == 1 .. clock + 1

\* The connection times clock_timestamp() can give to a new session.
ConnectionTimes == IF ClockMayRepeat THEN 1 .. clock + 1 ELSE {clock + 1}

----------------------------------------------------------------------------
(* The transport: gRPC calls the handler, and cancels its context when the *)
(* client goes away, the connection breaks or the server stops.            *)

Accept(s) ==
  /\ pc[s] = "idle"
  /\ Goto(s, "first")
  /\ UNCHANGED <<cancelled, handlerVars, txVars, databaseVars>>

Cancel(s) ==
  /\ Active(s)
  /\ ~cancelled[s]
  /\ cancelled' = [cancelled EXCEPT ![s] = TRUE]
  /\ UNCHANGED <<pc, handlerVars, txVars, databaseVars>>

\* Recv fails only because the stream is broken or its context cancelled.
RecvError(s) ==
  /\ cancelled[s]
  /\ \/ pc[s] = "first" /\ Return(s, "Cancelled")
     \/ pc[s] = "recv" /\ ReturnAndClose(s, "Cancelled")
  /\ UNCHANGED <<cancelled, machine, connectedAt, session, sample, received,
                 txVars, databaseVars>>

----------------------------------------------------------------------------
(* The first message, and OpenSession                                      *)

\* The stream ends at once, starts with anything but an Authenticate, or
\* carries an agent ID that is no UUID or a blank secret.
RejectFirst(s) ==
  /\ pc[s] = "first"
  /\ \E code \in {"InvalidArgument", "Unauthenticated"} : Return(s, code)
  /\ UNCHANGED <<cancelled, machine, connectedAt, session, sample, received,
                 txVars, databaseVars>>

\* Credentials for an unknown agent or with a wrong secret match no machine.
RecvAuthenticate(s) ==
  /\ pc[s] = "first"
  /\ \E m \in Machines \cup {NoMachine} :
        machine' = [machine EXCEPT ![s] = m]
  /\ Goto(s, "lookup")
  /\ UNCHANGED <<cancelled, connectedAt, session, result, sample, received,
                 txVars, databaseVars>>

FindActiveIdentity(s) ==
  /\ pc[s] = "lookup"
  /\ ~cancelled[s]
  /\ \/ /\ machine[s] = NoMachine
        /\ Return(s, "Unauthenticated")
     \/ /\ machine[s] # NoMachine
        /\ Goto(s, "startBegin")
        /\ UNCHANGED result
  /\ UNCHANGED <<cancelled, machine, connectedAt, session, sample, received,
                 txVars, databaseVars>>

Begin(s, from, to) ==
  /\ pc[s] = from
  /\ Goto(s, to)
  /\ tx' = [tx EXCEPT ![s] = "open"]
  /\ UNCHANGED <<cancelled, handlerVars, writes, event, databaseVars>>

StartBegin(s) == ~cancelled[s] /\ Begin(s, "startBegin", "startUpdate")

\* SELECT ... FOR UPDATE and the UPDATE are one statement: it waits for the
\* row, reads its status, and sets it online.  The event is inserted only
\* when the machine was not online.
StartUpdate(s) ==
  /\ pc[s] = "startUpdate"
  /\ ~cancelled[s]
  /\ ~RowLocked(machine[s])
  /\ writes' = [writes EXCEPT ![s] = "start"]
  /\ \E t \in ConnectionTimes :
        /\ connectedAt' = [connectedAt EXCEPT ![s] = t]
        /\ clock' = IF t > clock THEN t ELSE clock
  /\ Goto(s, IF row[machine[s]].status # "online" THEN "startInsert"
                                                  ELSE "startCommit")
  /\ UNCHANGED <<cancelled, machine, session, result, sample, received,
                 tx, event, row, events, samples>>

\* Mutation: the event is inserted by the pool, outside the transaction.
InsertByPool(s, from, to) ==
  /\ pc[s] = from
  /\ Goto(s, to)
  /\ events' = [events EXCEPT ![machine[s]] =
                  Append(@, IF writes[s] = "start" THEN "online" ELSE "offline")]
  /\ UNCHANGED <<cancelled, handlerVars, txVars, row, samples, clock>>

Insert(s, from, to) ==
  /\ pc[s] = from
  /\ Goto(s, to)
  /\ event' = [event EXCEPT ![s] = TRUE]
  /\ UNCHANGED <<cancelled, handlerVars, tx, writes, databaseVars>>

StartInsert(s) == ~cancelled[s] /\ Insert(s, "startInsert", "startCommit")

Commit(s, from, to) ==
  /\ pc[s] = from
  /\ Goto(s, to)
  /\ tx' = [tx EXCEPT ![s] = "committing"]
  /\ UNCHANGED <<cancelled, handlerVars, writes, event, databaseVars>>

StartCommit(s) == ~cancelled[s] /\ Commit(s, "startCommit", "startWait")

\* Mutation: the commit is asked for and not waited for.
SessionOpenedUnchecked(s) ==
  /\ pc[s] = "startWait"
  /\ Goto(s, "recv")
  /\ session' = [session EXCEPT ![s] = "open"]
  /\ UNCHANGED <<cancelled, machine, connectedAt, result, sample, received,
                 txVars, databaseVars>>

\* The commit is confirmed: closeSession is deferred from here on.
SessionOpened(s) ==
  /\ pc[s] = "startWait"
  /\ tx[s] = "committed"
  /\ Goto(s, "recv")
  /\ session' = [session EXCEPT ![s] = "open"]
  /\ tx' = [tx EXCEPT ![s] = "none"]
  /\ UNCHANGED <<cancelled, machine, connectedAt, result, sample, received,
                 writes, event, databaseVars>>

\* Any call of OpenSession fails.  No session is open for the handler, so it
\* returns without closing one, whatever becomes of the transaction.
OpenSessionFails(s) ==
  /\ pc[s] \in Opening
  /\ CallMayFail(s)
  /\ Return(s, "Internal")
  /\ UNCHANGED <<cancelled, machine, connectedAt, session, sample, received,
                 txVars, databaseVars>>

----------------------------------------------------------------------------
(* The message loop                                                        *)

RecvHeartbeat(s) ==
  /\ pc[s] = "recv"
  /\ Goto(s, "touch")
  /\ UNCHANGED <<cancelled, handlerVars, txVars, databaseVars>>

\* A telemetry message that telemetrySample and validateSample let through.
RecvTelemetry(s) ==
  /\ pc[s] = "recv"
  /\ \E c \in Samples :
        /\ sample' = [sample EXCEPT ![s] = c]
        /\ received' = [received EXCEPT ![s] = @ \cup {c}]
  /\ Goto(s, "record")
  /\ UNCHANGED <<cancelled, machine, connectedAt, session, result,
                 txVars, databaseVars>>

\* A second Authenticate, an empty payload or an invalid telemetry update.
RecvInvalid(s) ==
  /\ pc[s] = "recv"
  /\ ReturnAndClose(s, "InvalidArgument")
  /\ UNCHANGED <<cancelled, machine, connectedAt, session, sample, received,
                 txVars, databaseVars>>

\* The agent half-closes the stream: the answer is OK if the close succeeds.
RecvEOF(s) ==
  /\ pc[s] = "recv"
  /\ ReturnAndClose(s, "OK")
  /\ UNCHANGED <<cancelled, machine, connectedAt, session, sample, received,
                 txVars, databaseVars>>

\* The upsert does not ask whether the session is still the machine's latest.
Upsert(s) == samples' = [samples EXCEPT ![machine[s]] = @ \cup {sample[s]}]

\* A new sample's foreign key is checked against the machine's row.
CanUpsert(s) ==
  sample[s] \in samples[machine[s]] \/ ~RowLockedForUpdate(machine[s])

Record(s) ==
  /\ pc[s] = "record"
  /\ ~cancelled[s]
  /\ CanUpsert(s)
  /\ Upsert(s)
  /\ sample' = [sample EXCEPT ![s] = NoSample]
  /\ Goto(s, "touch")
  /\ UNCHANGED <<cancelled, machine, connectedAt, session, result, received,
                 txVars, row, events, clock>>

\* Mutation: a failed Record is logged and the loop goes on.
RecordFailsSilently(s) ==
  /\ pc[s] = "record"
  /\ CallMayFail(s)
  /\ UNCHANGED samples
  /\ sample' = [sample EXCEPT ![s] = NoSample]
  /\ Goto(s, "touch")
  /\ UNCHANGED <<cancelled, machine, connectedAt, session, result, received,
                 txVars, row, events, clock>>

\* The statement failed, or succeeded and the handler did not learn of it.
RecordFails(s) ==
  /\ pc[s] = "record"
  /\ CallMayFail(s)
  /\ UNCHANGED samples \/ (CanUpsert(s) /\ Upsert(s))
  /\ sample' = [sample EXCEPT ![s] = NoSample]
  /\ ReturnAndClose(s, "Internal")
  /\ UNCHANGED <<cancelled, machine, connectedAt, session, received,
                 txVars, row, events, clock>>

\* Mutation: UPDATE without the condition on last_connected_at.
UpdateLastSeenOfAny(s) ==
  /\ ~RowLocked(machine[s])
  /\ row' = [row EXCEPT ![machine[s]].lastSeenAt = connectedAt[s]]

\* UPDATE ... WHERE last_connected_at = $2: no row matches once a later
\* session has started, and a row that matches has to be unlocked.
UpdateLastSeen(s) ==
  IF IsCurrent(s)
  THEN /\ ~RowLocked(machine[s])
       /\ row' = [row EXCEPT ![machine[s]].lastSeenAt = connectedAt[s]]
  ELSE UNCHANGED row

Touch(s) ==
  /\ pc[s] = "touch"
  /\ ~cancelled[s]
  /\ UpdateLastSeen(s)
  /\ Goto(s, "recv")
  /\ UNCHANGED <<cancelled, handlerVars, txVars, events, samples, clock>>

TouchFails(s) ==
  /\ pc[s] = "touch"
  /\ CallMayFail(s)
  /\ UNCHANGED row \/ UpdateLastSeen(s)
  /\ ReturnAndClose(s, "Internal")
  /\ UNCHANGED <<cancelled, machine, connectedAt, session, sample, received,
                 txVars, events, samples, clock>>

----------------------------------------------------------------------------
(* CloseSession runs under a context of its own, cancelled streams too.    *)

EndBegin(s) == Begin(s, "endBegin", "endUpdate")

\* Mutation: the UPDATE asks for the status only.
EndUpdateOfAny(s) ==
  /\ pc[s] = "endUpdate"
  /\ IF row[machine[s]].status = "online"
     THEN /\ ~RowLocked(machine[s])
          /\ writes' = [writes EXCEPT ![s] = "end"]
          /\ Goto(s, "endInsert")
     ELSE /\ UNCHANGED writes
          /\ Goto(s, "endCommit")
  /\ UNCHANGED <<cancelled, handlerVars, tx, event, databaseVars>>

\* Mutation: the UPDATE asks for the connection time only.
EndUpdateTwice(s) ==
  /\ pc[s] = "endUpdate"
  /\ IF IsCurrent(s)
     THEN /\ ~RowLocked(machine[s])
          /\ writes' = [writes EXCEPT ![s] = "end"]
          /\ Goto(s, "endInsert")
     ELSE /\ UNCHANGED writes
          /\ Goto(s, "endCommit")
  /\ UNCHANGED <<cancelled, handlerVars, tx, event, databaseVars>>

\* UPDATE ... WHERE last_connected_at = $2 AND status = 'online' RETURNING id
EndUpdate(s) ==
  /\ pc[s] = "endUpdate"
  /\ IF IsCurrent(s) /\ row[machine[s]].status = "online"
     THEN /\ ~RowLocked(machine[s])
          /\ writes' = [writes EXCEPT ![s] = "end"]
          /\ Goto(s, "endInsert")
     ELSE /\ UNCHANGED writes
          /\ Goto(s, "endCommit")
  /\ UNCHANGED <<cancelled, handlerVars, tx, event, databaseVars>>

EndInsert(s) == Insert(s, "endInsert", "endCommit")

EndCommit(s) == Commit(s, "endCommit", "endWait")

SessionClosed(s) ==
  /\ pc[s] = "endWait"
  /\ tx[s] = "committed"
  /\ Goto(s, "done")
  /\ session' = [session EXCEPT ![s] = "closed"]
  /\ tx' = [tx EXCEPT ![s] = "none"]
  /\ UNCHANGED <<cancelled, machine, connectedAt, result, sample, received,
                 writes, event, databaseVars>>

\* Mutation: closeSession answers nil when EndSession fails.
CloseSessionFailsSilently(s) ==
  /\ pc[s] \in Closing
  /\ DatabaseMayFail
  /\ Goto(s, "done")
  /\ session' = [session EXCEPT ![s] = "closed"]
  /\ UNCHANGED <<cancelled, machine, connectedAt, result, sample, received,
                 txVars, databaseVars>>

\* The close fails or takes longer than sessionCloseTimeout.  It is not tried
\* again; the answer to an agent that half-closed becomes Internal.
CloseSessionFails(s) ==
  /\ pc[s] \in Closing
  /\ DatabaseMayFail
  /\ Goto(s, "done")
  /\ session' = [session EXCEPT ![s] = "error"]
  /\ result' = [result EXCEPT ![s] = IF @ = "OK" THEN "Internal" ELSE @]
  /\ UNCHANGED <<cancelled, machine, connectedAt, sample, received,
                 txVars, databaseVars>>

----------------------------------------------------------------------------
(* The server is killed and started again.  Every call of the time before  *)
(* ends without an answer, and its transaction is left to the database.    *)
(* Nothing else is read back: streams that are idle are the calls made to  *)
(* the new process.  A statement that takes effect although its handler is *)
(* gone is the statement followed by a crash.                              *)

Crash ==
  /\ ServerMayCrash
  /\ \E s \in Streams : Active(s)
  /\ pc' = [s \in Streams |-> IF Active(s) THEN "done" ELSE pc[s]]
  /\ result' = [s \in Streams |-> IF Active(s) THEN "none" ELSE result[s]]
  /\ session' = [s \in Streams |-> IF session[s] = "open" THEN "lost"
                                                         ELSE session[s]]
  /\ UNCHANGED <<cancelled, machine, connectedAt, sample, received, txVars,
                 databaseVars>>

----------------------------------------------------------------------------
(* The database ends transactions, whether or not a handler still waits.   *)

Drop(s) ==
  /\ writes' = [writes EXCEPT ![s] = "none"]
  /\ event' = [event EXCEPT ![s] = FALSE]

\* The row and the event become visible together and the lock is released.
Apply(s) ==
  LET m == machine[s] IN
  /\ tx[s] = "committing"
  /\ tx' = [tx EXCEPT ![s] = "committed"]
  /\ row' = CASE writes[s] = "start" ->
                   [row EXCEPT ![m].status = "online",
                               ![m].lastConnectedAt = connectedAt[s],
                               ![m].lastSeenAt = connectedAt[s]]
              [] writes[s] = "end" ->
                   [row EXCEPT ![m].status = "offline",
                               ![m].lastDisconnectedAt = connectedAt[s]]
              [] OTHER -> row
  /\ events' = IF event[s]
               THEN [events EXCEPT ![m] =
                       Append(@, IF writes[s] = "start" THEN "online"
                                                        ELSE "offline")]
               ELSE events
  /\ Drop(s)
  /\ UNCHANGED <<pc, cancelled, handlerVars, samples, clock>>

\* Mutation: no deferred Rollback, so only a commit ends a transaction.
AbortNever(s) ==
  /\ pc[s] = "done"
  /\ tx[s] = "committing"
  /\ tx' = [tx EXCEPT ![s] = "none"]
  /\ Drop(s)
  /\ UNCHANGED <<pc, cancelled, handlerVars, databaseVars>>

\* A transaction whose handler gave up is rolled back, unless its commit was
\* asked for and overtakes the rollback (Apply).
Abort(s) ==
  /\ pc[s] = "done"
  /\ tx[s] \in {"open", "committing"}
  /\ tx' = [tx EXCEPT ![s] = "none"]
  /\ Drop(s)
  /\ UNCHANGED <<pc, cancelled, handlerVars, databaseVars>>

----------------------------------------------------------------------------
(* Specification                                                           *)

\* What the goroutine does without waiting for the agent.
Handle(s) ==
  \/ RecvError(s)
  \/ FindActiveIdentity(s)
  \/ StartBegin(s) \/ StartUpdate(s) \/ StartInsert(s) \/ StartCommit(s)
  \/ SessionOpened(s) \/ OpenSessionFails(s)
  \/ Record(s) \/ RecordFails(s) \/ Touch(s) \/ TouchFails(s)
  \/ EndBegin(s) \/ EndUpdate(s) \/ EndInsert(s) \/ EndCommit(s)
  \/ SessionClosed(s) \/ CloseSessionFails(s)

\* What the agent and the transport do.
Environment(s) ==
  \/ Accept(s) \/ Cancel(s)
  \/ RejectFirst(s) \/ RecvAuthenticate(s)
  \/ RecvHeartbeat(s) \/ RecvTelemetry(s) \/ RecvInvalid(s) \/ RecvEOF(s)

Database(s) == Apply(s) \/ Abort(s)

\* Every call has returned and every transaction has ended.
Terminated ==
  /\ \A s \in Streams : pc[s] = "done" /\ tx[s] \in {"none", "committed"}
  /\ UNCHANGED vars

Next ==
  \/ \E s \in Streams : Handle(s) \/ Environment(s) \/ Database(s)
  \/ Crash
  \/ Terminated

\* A goroutine that can run is scheduled, and the database ends every
\* transaction.  Nothing is assumed of the agents.
Fairness ==
  \A s \in Streams : WF_vars(Handle(s)) /\ WF_vars(Database(s))

Spec == Init /\ [][Next]_vars /\ Fairness

----------------------------------------------------------------------------
(* Properties                                                              *)

\* What Presence.tla promises, read off the rows.
Promise == INSTANCE Presence WITH
  TimesMayRepeat <- ClockMayRepeat,
  status <- [m \in Machines |-> row[m].status],
  latest <- [m \in Machines |-> row[m].lastConnectedAt],
  history <- events

\* However the transactions of a machine's streams overlap and fail, they
\* take effect as sessions that start and end one after another.
ImplementsPresence == Promise!Spec

\* What HandlerSession.tla promises, read off the handlers: a session being
\* started or closed is one step there, and one whose StartSession was given
\* up is none to the handler.
Place(l) ==
  CASE l = "idle" -> "none"
    [] l = "lookup" -> "find"
    [] l \in Opening \ {"lookup"} -> "start"
    [] l \in Closing -> "close"
    [] l = "done" -> "returned"
    [] OTHER -> l

Handlers == INSTANCE HandlerSession WITH
  Calls <- Streams,
  MayBeKilled <- ServerMayCrash,
  handler <- [s \in Streams |-> Place(pc[s])],
  session <- [s \in Streams |-> IF session[s] = "error" THEN "failed"
                                                       ELSE session[s]]

\* Whatever its statements run into, a handler opens a session once at most and
\* does not return, other than killed, before it has tried to close it.
ImplementsHandlerSession == Handlers!Spec

\* The statement of stream s waits for the lock of another transaction.
WaitsForRow(s) ==
  \/ pc[s] = "startUpdate" /\ RowLocked(machine[s])
  \/ pc[s] = "record" /\ ~CanUpsert(s)
  \/ pc[s] = "touch" /\ IsCurrent(s) /\ RowLocked(machine[s])
  \/ /\ pc[s] = "endUpdate"
     /\ IsCurrent(s) /\ row[machine[s]].status = "online"
     /\ RowLocked(machine[s])

\* No two streams wait for each other: whoever holds the row of a machine waits
\* neither for a row nor for its agent, and its transaction has yet to end.
HolderNeverWaits ==
  \A s \in Streams :
    writes[s] # "none" =>
      /\ ~WaitsForRow(s)
      /\ pc[s] \notin {"idle", "first", "recv"}
      /\ tx[s] \in {"open", "committing"}

\* The presence events of a machine alternate, and the last one is its
\* status: however StartSession and EndSession of its streams interleave and
\* fail, no event is missing, doubled, or in the table without its UPDATE.
PresenceHistory == Promise!History

\* While a handler receives, its machine is online under the handler's own
\* connection time, unless a later session has taken over.  A close of an
\* earlier session that comes late must not take the machine offline.
LiveSessionOnline ==
  \A s \in Streams : pc[s] \in Receiving =>
    LET r == row[machine[s]] IN
    \/ r.status = "online" /\ r.lastConnectedAt = connectedAt[s]
    \/ r.lastConnectedAt > connectedAt[s]

\* Once closeSession has succeeded, and so whenever the agent is answered
\* OK, its machine is no longer online on account of that session.
ClosedSessionGone ==
  \A s \in Streams :
    session[s] = "closed" \/ (pc[s] = "done" /\ result[s] = "OK") =>
      LET r == row[machine[s]] IN
      r.status = "online" => r.lastConnectedAt # connectedAt[s]

\* A machine is online only on account of a session that its handler is
\* going to close, or that no handler will ever close: its close has failed,
\* the server was killed before it, or StartSession was given up while its
\* commit was under way.
Holds(s, m) ==
  /\ machine[s] = m
  /\ IsCurrent(s)
  /\ \/ pc[s] = "startWait"
     \/ session[s] = "open" /\ pc[s] # "done"
     \/ session[s] \in {"error", "lost"}
     \/ session[s] = "none" /\ pc[s] = "done"

OnlineHasHolder ==
  \A m \in Machines :
    row[m].status = "online" => \E s \in Streams : Holds(s, m)

\* The timestamps of a row are of one session: heartbeats of a superseded
\* session do not keep a machine "seen", and an offline machine carries the
\* disconnection of its latest session.
RowOfOneSession ==
  \A m \in Machines :
    /\ row[m].lastSeenAt = row[m].lastConnectedAt
    /\ row[m].status = "offline" =>
         row[m].lastDisconnectedAt = row[m].lastConnectedAt

\* An agent that half-closes its stream and is answered OK can forget the
\* samples it sent: each is in telemetry_samples.
OkMeansRecorded ==
  \A s \in Streams :
    pc[s] = "done" /\ result[s] = "OK" => received[s] \subseteq samples[machine[s]]

\* Sessions take effect in the order of their connection times: the row never
\* goes back to an earlier session, although transactions overlap.
LaterSessionWins ==
  [][\A m \in Machines :
       row'[m].lastConnectedAt >= row[m].lastConnectedAt]_vars

\* A stream whose client has gone returns, whatever it was doing and whoever
\* held the row it needs.
CancelledStreamReturns ==
  \A s \in Streams : cancelled[s] ~> pc[s] = "done"

\* While the database answers, a session that was open does not keep its
\* machine online once the client has gone or its handler is closing it,
\* unless the server is killed before it is closed.
OnlineBy(s) ==
  machine[s] \in Machines /\ row[machine[s]].status = "online" /\ IsCurrent(s)

GoneAgentGoesOffline ==
  \A s \in Streams :
    session[s] = "open" /\ (cancelled[s] \/ pc[s] \in Closing)
      ~> ~OnlineBy(s) \/ session[s] = "lost"

----------------------------------------------------------------------------
(* Why it holds: an inductive invariant                                    *)

\* A handler that has been let in works for a known machine, and so does its
\* transaction; when it records, it has a sample.
KnownOperands ==
  \A s \in Streams :
    /\ pc[s] \in (Opening \ {"lookup"}) \cup Receiving \cup Closing
         => machine[s] \in Machines
    /\ tx[s] # "none" => machine[s] \in Machines
    /\ pc[s] = "record" => sample[s] \in Samples

\* A draft belongs to a transaction, and its event follows its UPDATE.
DraftOfTransaction ==
  \A s \in Streams :
    /\ writes[s] # "none" => tx[s] \in {"open", "committing"}
    /\ event[s] => writes[s] # "none"

\* How far the transaction has come follows from where the handler is.
TransactionOfHandler ==
  \A s \in Streams :
    /\ pc[s] \in {"idle", "first", "lookup", "startBegin", "endBegin"}
                  \cup Receiving => tx[s] = "none"
    /\ pc[s] \in {"startUpdate", "endUpdate"} => writes[s] = "none"
    /\ pc[s] \in {"startInsert", "startCommit"} => writes[s] = "start"
    /\ pc[s] = "endInsert" => writes[s] = "end"
    /\ pc[s] \in {"startUpdate", "startInsert", "startCommit", "endUpdate",
                  "endInsert", "endCommit"} => tx[s] = "open"
    /\ pc[s] \in {"startWait", "endWait"} => tx[s] \in {"committing", "committed"}
    /\ pc[s] \in {"startUpdate", "startInsert", "endUpdate", "endInsert"}
        => ~event[s]
    /\ pc[s] = "startWait" =>
         writes[s] = IF tx[s] = "committing" THEN "start" ELSE "none"
    /\ pc[s] \in {"endCommit", "endWait"} => writes[s] # "start"

\* Two transactions never hold the same row.
RowLockExcludes ==
  \A s, t \in Streams :
    s # t /\ machine[s] = machine[t] => writes[s] = "none" \/ writes[t] = "none"

\* A transaction that can still commit was drafted from the row as it is, and
\* so brings an event exactly if it changes the status (the event of a handler
\* at startInsert or endInsert is still to come).
Committable(s) == tx[s] # "none" /\ (pc[s] = "done" => tx[s] = "committing")

DraftFits(s) ==
  /\ writes[s] = "start" =>
       /\ connectedAt[s] # 0
       /\ event[s] \/ pc[s] = "startInsert" <=> row[machine[s]].status # "online"
  /\ writes[s] = "end" =>
       /\ row[machine[s]].status = "online"
       /\ IsCurrent(s)
       /\ event[s] \/ pc[s] = "endInsert"

DraftUpToDate == \A s \in Streams : Committable(s) => DraftFits(s)

\* With a clock that advances, connection times tell sessions apart, and a
\* session that is being started is later than the row's.
TimesAdvance ==
  ~ClockMayRepeat =>
    /\ \A m \in Machines : row[m].lastConnectedAt <= clock
    /\ \A s \in Streams :
         /\ connectedAt[s] <= clock
         /\ writes[s] = "start" => connectedAt[s] > row[machine[s]].lastConnectedAt
    /\ \A s, t \in Streams :
         connectedAt[s] = connectedAt[t] /\ connectedAt[s] # 0 => s = t

\* A session that has been committed and not been closed.
Committed(s) ==
  \/ pc[s] = "startWait" /\ tx[s] = "committed"
  \/ pc[s] \in Receiving

CommittedInEffect ==
  ~ClockMayRepeat =>
    \A s \in Streams : Committed(s) =>
      /\ connectedAt[s] # 0
      /\ \/ OnlineBy(s)
         \/ row[machine[s]].lastConnectedAt > connectedAt[s]

Inductive ==
  /\ TypeOK
  /\ KnownOperands
  /\ DraftOfTransaction
  /\ TransactionOfHandler
  /\ RowLockExcludes
  /\ DraftUpToDate
  /\ TimesAdvance
  /\ CommittedInEffect

\* A handler has a session to close from the moment OpenSession returns until
\* closeSession does, and a closed session has no transaction left.
SessionOfHandler ==
  \A s \in Streams :
    /\ session[s] = "open" <=> pc[s] \in Receiving \cup Closing
    /\ session[s] # "none" => machine[s] \in Machines /\ writes[s] # "start"
    /\ session[s] \notin {"none", "open"} => pc[s] = "done"
    /\ session[s] = "closed" => tx[s] = "none"

\* What a handler has accepted is stored, but for the sample at hand; it
\* answers OK only after such a loop, and after its session is closed.
RecordedSoFar ==
  \A s \in Streams :
    /\ pc[s] \in {"idle", "first"} \cup Opening => received[s] = {}
    /\ result[s] = "OK" => pc[s] \in Closing \/ session[s] = "closed"
    /\ pc[s] \in {"recv", "touch"} \/ result[s] = "OK"
         => received[s] \subseteq samples[machine[s]]
    /\ pc[s] = "record" => received[s] \ {sample[s]} \subseteq samples[machine[s]]

\* From the UPDATE of EndSession that matched no row, or from its commit on,
\* the machine is not online on account of the session.
GoneOnceEnded ==
  \A s \in Streams :
    \/ session[s] = "closed"
    \/ pc[s] \in {"endCommit", "endWait"} /\ writes[s] = "none"
    => ~OnlineBy(s)

\* The invariant on top of Inductive for what becomes of sessions.
Outcome ==
  /\ SessionOfHandler
  /\ RowOfOneSession
  /\ RecordedSoFar
  /\ ~ClockMayRepeat => GoneOnceEnded /\ OnlineHasHolder

\* The two together.
Invariant == Inductive /\ Outcome

=============================================================================
