------------------------ MODULE StreamUpdates_proofs ------------------------
(***************************************************************************)
(* Proofs about StreamUpdates, for any set of streams and machines, with   *)
(* and without faults of the database.                                     *)
(*                                                                         *)
(* The state predicate Inductive is shown to be kept by every step, one    *)
(* conjunct at a time.  Most steps are quiet: they touch no transaction    *)
(* and none of the columns the promise of presence is about (Cases), so    *)
(* each conjunct is left with the steps of Transact to look at.  Two       *)
(* lemmas say once what the UPDATE of TouchSession and the end of a        *)
(* transaction do to the rows.                                             *)
(***************************************************************************)
EXTENDS StreamUpdates, TLAPS

USE DEF handlerVars, txVars, databaseVars

\* TouchSession keeps the row's type, status and connection time.
LEMMA UpdateLastSeenEffect ==
  ASSUME NEW s \in Streams, TypeOK, machine[s] \in Machines, UpdateLastSeen(s)
  PROVE  /\ row' \in [Machines -> MachineRow]
         /\ \A m \in Machines :
              /\ row'[m].status = row[m].status
              /\ row'[m].lastConnectedAt = row[m].lastConnectedAt
<1> DEFINE r == row[machine[s]]
           seen == [r EXCEPT !.lastSeenAt = connectedAt[s]]
<1>1. row \in [Machines -> MachineRow] /\ connectedAt[s] \in Nat /\ r \in MachineRow
  BY DEF TypeOK
<1>2. /\ seen \in MachineRow
      /\ seen.status = r.status
      /\ seen.lastConnectedAt = r.lastConnectedAt
  BY <1>1 DEF MachineRow
<1>3. row' = row \/ row' = [row EXCEPT ![machine[s]] = seen]
  BY DEF UpdateLastSeen
<1> QED
  BY <1>1, <1>2, <1>3

\* What the end of a transaction leaves in the rows and in the events.
LEMMA ApplyEffect ==
  ASSUME NEW s \in Streams, TypeOK, machine[s] \in Machines, Apply(s)
  PROVE  /\ row' \in [Machines -> MachineRow]
         /\ events' \in [Machines -> Seq({"online", "offline"})]
         /\ \A m \in Machines \ {machine[s]} :
              row'[m] = row[m] /\ events'[m] = events[m]
         /\ writes[s] = "none" => row' = row
         /\ writes[s] = "start" =>
              /\ row'[machine[s]].status = "online"
              /\ row'[machine[s]].lastConnectedAt = connectedAt[s]
              /\ event[s] => events' = [events EXCEPT ![machine[s]] = Append(@, "online")]
         /\ writes[s] = "end" =>
              /\ row'[machine[s]].status = "offline"
              /\ row'[machine[s]].lastConnectedAt = row[machine[s]].lastConnectedAt
              /\ event[s] => events' = [events EXCEPT ![machine[s]] = Append(@, "offline")]
         /\ ~event[s] => events' = events
<1> DEFINE r == row[machine[s]]
           on == [r EXCEPT !.status = "online", !.lastConnectedAt = connectedAt[s],
                           !.lastSeenAt = connectedAt[s]]
           off == [r EXCEPT !.status = "offline",
                            !.lastDisconnectedAt = connectedAt[s]]
<1>1. row \in [Machines -> MachineRow] /\ connectedAt[s] \in Nat /\ r \in MachineRow
  BY DEF TypeOK
<1>2. /\ on \in MachineRow
      /\ on.status = "online" /\ on.lastConnectedAt = connectedAt[s]
  BY <1>1 DEF MachineRow, Status
<1>3. /\ off \in MachineRow
      /\ off.status = "offline" /\ off.lastConnectedAt = r.lastConnectedAt
  BY <1>1 DEF MachineRow, Status
<1>4. row' = CASE writes[s] = "start" -> [row EXCEPT ![machine[s]] = on]
               [] writes[s] = "end" -> [row EXCEPT ![machine[s]] = off]
               [] OTHER -> row
  BY <1>1 DEF Apply
<1>5. /\ events \in [Machines -> Seq({"online", "offline"})]
      /\ writes[s] \in {"none", "start", "end"}
      /\ event[s] \in BOOLEAN
  BY DEF TypeOK
<1>6. events' = IF event[s]
                THEN [events EXCEPT ![machine[s]] =
                        Append(@, IF writes[s] = "start" THEN "online"
                                                         ELSE "offline")]
                ELSE events
  BY DEF Apply
<1>7. /\ row' \in [Machines -> MachineRow]
      /\ \A m \in Machines \ {machine[s]} : row'[m] = row[m]
      /\ writes[s] = "none" => row' = row
      /\ writes[s] = "start" => row'[machine[s]] = on
      /\ writes[s] = "end" => row'[machine[s]] = off
  <2>1. CASE writes[s] = "start"
    BY <1>1, <1>2, <1>4, <2>1
  <2>2. CASE writes[s] = "end"
    BY <1>1, <1>3, <1>4, <2>2
  <2>3. CASE writes[s] = "none"
    BY <1>1, <1>4, <2>3
  <2> QED
    BY <1>5, <2>1, <2>2, <2>3
<1>8. /\ events' \in [Machines -> Seq({"online", "offline"})]
      /\ \A m \in Machines \ {machine[s]} : events'[m] = events[m]
  BY <1>5, <1>6
<1> QED
  BY <1>2, <1>3, <1>6, <1>7, <1>8

----------------------------------------------------------------------------
(* Steps that touch a transaction, and steps that do not                   *)

\* Where a handler has no transaction.
Between == {"idle", "first", "lookup", "startBegin", "endBegin", "done"}
             \cup Receiving

\* A handler moves between its transactions or returns, or an agent acts.
Quiet ==
  /\ UNCHANGED <<connectedAt, txVars, events, clock>>
  /\ \A m \in Machines : /\ row'[m].status = row[m].status
                         /\ row'[m].lastConnectedAt = row[m].lastConnectedAt
  /\ \A t \in Streams :
       \/ machine'[t] = machine[t] /\ pc'[t] \in {pc[t], "done"}
       \/ /\ tx[t] = "none"
          /\ machine'[t] = machine[t] \/ pc'[t] = "lookup"
          /\ pc'[t] \in Between
          /\ pc'[t] \in Receiving => pc[t] \in Receiving

\* The steps of the transactions of stream s.
Transact(s) ==
  \/ StartBegin(s) \/ StartUpdate(s) \/ StartInsert(s) \/ StartCommit(s)
  \/ SessionOpened(s)
  \/ EndBegin(s) \/ EndUpdate(s) \/ EndInsert(s) \/ EndCommit(s)
  \/ SessionClosed(s)
  \/ Apply(s) \/ Abort(s)

\* Every step is quiet or a step of some stream's transactions.
LEMMA Cases ==
  ASSUME TypeOK, KnownOperands, TransactionOfHandler, [Next]_vars
  PROVE  \/ Quiet
         \/ \E s \in Streams : Transact(s)
<1>1. CASE UNCHANGED vars
  BY <1>1 DEF vars, Quiet, TypeOK
<1>2. CASE Terminated
  BY <1>2 DEF Terminated, vars, Quiet, TypeOK
<1>3. ASSUME NEW s \in Streams,
             RecvError(s) \/ FindActiveIdentity(s) \/ OpenSessionFails(s) \/ Record(s) \/ RecordFails(s) \/ Touch(s) \/ TouchFails(s) \/ CloseSessionFails(s)
      PROVE  Quiet
  <2>1. CASE RecvError(s)
    BY <2>1
    DEF RecvError, Quiet, Between, TypeOK, KnownOperands,
        TransactionOfHandler, Receiving, Opening, Closing, Return,
        ReturnAndClose, Goto
  <2>2. CASE FindActiveIdentity(s)
    BY <2>2
    DEF FindActiveIdentity, Quiet, Between, TypeOK, KnownOperands,
        TransactionOfHandler, Receiving, Opening, Closing, Return, Goto
  <2>3. CASE OpenSessionFails(s)
    BY <2>3
    DEF OpenSessionFails, Quiet, Between, TypeOK, KnownOperands,
        TransactionOfHandler, Receiving, Opening, Closing, Return, Goto
  <2>4. CASE Record(s)
    BY <2>4
    DEF Record, Quiet, Between, TypeOK, KnownOperands,
        TransactionOfHandler, Receiving, Opening, Closing, Upsert, Goto
  <2>5. CASE RecordFails(s)
    BY <2>5
    DEF RecordFails, Quiet, Between, TypeOK, KnownOperands,
        TransactionOfHandler, Receiving, Opening, Closing, Upsert,
        ReturnAndClose, Goto
  <2>6. CASE Touch(s)
    BY <2>6, UpdateLastSeenEffect
    DEF Touch, Quiet, Between, TypeOK, KnownOperands, TransactionOfHandler,
        Receiving, Opening, Closing, Goto
  <2>7. CASE TouchFails(s)
    BY <2>7, UpdateLastSeenEffect
    DEF TouchFails, Quiet, Between, TypeOK, KnownOperands,
        TransactionOfHandler, Receiving, Opening, Closing, ReturnAndClose,
        Goto
  <2>8. CASE CloseSessionFails(s)
    BY <2>8
    DEF CloseSessionFails, Quiet, Between, TypeOK, KnownOperands,
        TransactionOfHandler, Receiving, Opening, Closing, Goto
  <2> QED
    BY <1>3, <2>1, <2>2, <2>3, <2>4, <2>5, <2>6, <2>7, <2>8
<1>4. ASSUME NEW s \in Streams,
             Accept(s) \/ Cancel(s) \/ RejectFirst(s) \/ RecvAuthenticate(s) \/ RecvHeartbeat(s) \/ RecvTelemetry(s) \/ RecvInvalid(s) \/ RecvEOF(s)
      PROVE  Quiet
  <2>1. CASE Accept(s)
    BY <2>1
    DEF Accept, Quiet, Between, TypeOK, KnownOperands,
        TransactionOfHandler, Receiving, Opening, Closing, Goto
  <2>2. CASE Cancel(s)
    BY <2>2
    DEF Cancel, Quiet, Between, TypeOK, KnownOperands,
        TransactionOfHandler, Receiving, Opening, Closing
  <2>3. CASE RejectFirst(s)
    BY <2>3
    DEF RejectFirst, Quiet, Between, TypeOK, KnownOperands,
        TransactionOfHandler, Receiving, Opening, Closing, Return, Goto
  <2>4. CASE RecvAuthenticate(s)
    BY <2>4
    DEF RecvAuthenticate, Quiet, Between, TypeOK, KnownOperands,
        TransactionOfHandler, Receiving, Opening, Closing, Goto
  <2>5. CASE RecvHeartbeat(s)
    BY <2>5
    DEF RecvHeartbeat, Quiet, Between, TypeOK, KnownOperands,
        TransactionOfHandler, Receiving, Opening, Closing, Goto
  <2>6. CASE RecvTelemetry(s)
    BY <2>6
    DEF RecvTelemetry, Quiet, Between, TypeOK, KnownOperands,
        TransactionOfHandler, Receiving, Opening, Closing, Goto
  <2>7. CASE RecvInvalid(s)
    BY <2>7
    DEF RecvInvalid, Quiet, Between, TypeOK, KnownOperands,
        TransactionOfHandler, Receiving, Opening, Closing, ReturnAndClose,
        Goto
  <2>8. CASE RecvEOF(s)
    BY <2>8
    DEF RecvEOF, Quiet, Between, TypeOK, KnownOperands,
        TransactionOfHandler, Receiving, Opening, Closing, ReturnAndClose,
        Goto
  <2> QED
    BY <1>4, <2>1, <2>2, <2>3, <2>4, <2>5, <2>6, <2>7, <2>8
<1>5. CASE Crash
  BY <1>5 DEF Crash, Quiet, TypeOK
<1> QED
  BY <1>1, <1>2, <1>3, <1>4, <1>5
  DEF Next, Handle, Environment, Database, Transact

----------------------------------------------------------------------------
(* The conjuncts of Inductive are kept                                     *)

\* Connection times of rows are numbers, so that they can be compared.
LEMMA ConnectedAtNat ==
  ASSUME TypeOK
  PROVE  \A m \in Machines : row[m].lastConnectedAt \in Nat
  BY DEF TypeOK, MachineRow

\* Drafts are made in open transactions and dropped at their end.
LEMMA DraftOfTransactionStep ==
  ASSUME TypeOK, KnownOperands, TransactionOfHandler, DraftOfTransaction, [Next]_vars
  PROVE  DraftOfTransaction'
<1>1. CASE Quiet
  BY <1>1 DEF Quiet, TypeOK, DraftOfTransaction, TransactionOfHandler
<1>2. ASSUME NEW s \in Streams, Transact(s)
      PROVE  DraftOfTransaction'
  <2>1. CASE StartBegin(s)
    BY <2>1
    DEF StartBegin, Begin, Goto, TypeOK, DraftOfTransaction,
        TransactionOfHandler
  <2>2. CASE StartUpdate(s)
    BY <2>2
    DEF StartUpdate, Goto, TypeOK, DraftOfTransaction,
        TransactionOfHandler
  <2>3. CASE StartInsert(s)
    BY <2>3
    DEF StartInsert, Insert, Goto, TypeOK, DraftOfTransaction,
        TransactionOfHandler
  <2>4. CASE StartCommit(s)
    BY <2>4
    DEF StartCommit, Commit, Goto, TypeOK, DraftOfTransaction,
        TransactionOfHandler
  <2>5. CASE SessionOpened(s)
    BY <2>5
    DEF SessionOpened, Goto, TypeOK, DraftOfTransaction,
        TransactionOfHandler
  <2>6. CASE EndBegin(s)
    BY <2>6
    DEF EndBegin, Begin, Goto, TypeOK, DraftOfTransaction,
        TransactionOfHandler
  <2>7. CASE EndUpdate(s)
    BY <2>7
    DEF EndUpdate, Goto, TypeOK, DraftOfTransaction, TransactionOfHandler
  <2>8. CASE EndInsert(s)
    BY <2>8
    DEF EndInsert, Insert, Goto, TypeOK, DraftOfTransaction,
        TransactionOfHandler
  <2>9. CASE EndCommit(s)
    BY <2>9
    DEF EndCommit, Commit, Goto, TypeOK, DraftOfTransaction,
        TransactionOfHandler
  <2>10. CASE SessionClosed(s)
    BY <2>10
    DEF SessionClosed, Goto, TypeOK, DraftOfTransaction,
        TransactionOfHandler
  <2>11. CASE Apply(s)
    BY <2>11 DEF Apply, Drop, TypeOK, DraftOfTransaction, TransactionOfHandler
  <2>12. CASE Abort(s)
    BY <2>12 DEF Abort, Drop, TypeOK, DraftOfTransaction, TransactionOfHandler
  <2> QED
    BY <1>2, <2>1, <2>2, <2>3, <2>4, <2>5, <2>6, <2>7, <2>8, <2>9, <2>10,
       <2>11, <2>12
    DEF Transact
<1> QED
  BY <1>1, <1>2, Cases

\* Only a statement that found the row unlocked locks it.
LEMMA RowLockExcludesStep ==
  ASSUME TypeOK, KnownOperands, TransactionOfHandler, DraftOfTransaction,
         RowLockExcludes, [Next]_vars
  PROVE  RowLockExcludes'
<1>1. CASE Quiet
  BY <1>1
  DEF Quiet, TypeOK, RowLockExcludes, DraftOfTransaction,
      TransactionOfHandler
<1>2. ASSUME NEW s \in Streams, Transact(s)
      PROVE  RowLockExcludes'
  <2>1. CASE StartBegin(s)
    BY <2>1
    DEF StartBegin, Begin, Goto, TypeOK, RowLockExcludes,
        DraftOfTransaction, TransactionOfHandler
  <2>2. CASE StartUpdate(s)
    BY <2>2
    DEF StartUpdate, Goto, RowLocked, TypeOK, RowLockExcludes,
        DraftOfTransaction, TransactionOfHandler
  <2>3. CASE StartInsert(s)
    BY <2>3
    DEF StartInsert, Insert, Goto, TypeOK, RowLockExcludes,
        DraftOfTransaction, TransactionOfHandler
  <2>4. CASE StartCommit(s)
    BY <2>4
    DEF StartCommit, Commit, Goto, TypeOK, RowLockExcludes,
        DraftOfTransaction, TransactionOfHandler
  <2>5. CASE SessionOpened(s)
    BY <2>5
    DEF SessionOpened, Goto, TypeOK, RowLockExcludes, DraftOfTransaction,
        TransactionOfHandler
  <2>6. CASE EndBegin(s)
    BY <2>6
    DEF EndBegin, Begin, Goto, TypeOK, RowLockExcludes,
        DraftOfTransaction, TransactionOfHandler
  <2>7. CASE EndUpdate(s)
    <3>1. UNCHANGED machine
      BY <2>7 DEF EndUpdate
    <3>2. \/ UNCHANGED writes
          \/ ~RowLocked(machine[s]) /\ writes' = [writes EXCEPT ![s] = "end"]
      BY <2>7 DEF EndUpdate
    <3> QED
      BY <3>1, <3>2 DEF RowLocked, TypeOK, RowLockExcludes
  <2>8. CASE EndInsert(s)
    BY <2>8
    DEF EndInsert, Insert, Goto, TypeOK, RowLockExcludes,
        DraftOfTransaction, TransactionOfHandler
  <2>9. CASE EndCommit(s)
    BY <2>9
    DEF EndCommit, Commit, Goto, TypeOK, RowLockExcludes,
        DraftOfTransaction, TransactionOfHandler
  <2>10. CASE SessionClosed(s)
    BY <2>10
    DEF SessionClosed, Goto, TypeOK, RowLockExcludes, DraftOfTransaction,
        TransactionOfHandler
  <2>11. CASE Apply(s)
    BY <2>11
    DEF Apply, Drop, TypeOK, RowLockExcludes, DraftOfTransaction,
        TransactionOfHandler
  <2>12. CASE Abort(s)
    BY <2>12
    DEF Abort, Drop, TypeOK, RowLockExcludes, DraftOfTransaction,
        TransactionOfHandler
  <2> QED
    BY <1>2, <2>1, <2>2, <2>3, <2>4, <2>5, <2>6, <2>7, <2>8, <2>9, <2>10,
       <2>11, <2>12
    DEF Transact
<1> QED
  BY <1>1, <1>2, Cases

\* A draft stays fit for the row it was read from: its transaction holds the
\* row's lock, so that no other transaction changes the row.
LEMMA DraftUpToDateStep ==
  ASSUME TypeOK, KnownOperands, TransactionOfHandler, DraftOfTransaction,
         RowLockExcludes, DraftUpToDate, [Next]_vars
  PROVE  DraftUpToDate'
<1>1. CASE Quiet
  <2>1. UNCHANGED <<connectedAt, tx, writes, event>>
    BY <1>1 DEF Quiet
  <2>2. SUFFICES ASSUME NEW t \in Streams, Committable(t)', writes[t] # "none"
                 PROVE  DraftFits(t)'
    BY <2>1 DEF DraftUpToDate, DraftFits
  <2>3. /\ machine'[t] = machine[t] /\ machine[t] \in Machines
        /\ pc'[t] \in {pc[t], "done"}
        /\ Committable(t)
    BY <1>1, <2>1, <2>2
    DEF Quiet, Committable, KnownOperands, DraftOfTransaction
  <2>4. /\ row'[machine[t]].status = row[machine[t]].status
        /\ row'[machine[t]].lastConnectedAt = row[machine[t]].lastConnectedAt
    BY <1>1, <2>3 DEF Quiet
  <2>5. pc'[t] = "done" => pc[t] \notin {"startInsert", "endInsert"}
    BY <2>1, <2>2 DEF Committable, TransactionOfHandler
  <2>6. DraftFits(t)
    BY <2>3 DEF DraftUpToDate
  <2> QED
    BY <2>1, <2>3, <2>4, <2>5, <2>6 DEF DraftFits, IsCurrent
<1>2. ASSUME NEW s \in Streams, Transact(s)
      PROVE  DraftUpToDate'
  <2>1. CASE StartBegin(s)
    BY <2>1
    DEF StartBegin, Begin, Goto, TypeOK, DraftUpToDate, DraftFits,
        Committable, IsCurrent, KnownOperands, TransactionOfHandler,
        DraftOfTransaction
  <2>2. CASE StartUpdate(s)
    <3>1. /\ connectedAt'[s] # 0
          /\ \A t \in Streams \ {s} : connectedAt'[t] = connectedAt[t]
      BY <2>2, ConstantAssumption DEF StartUpdate, ConnectionTimes, TypeOK
    <3>2. DraftFits(s)'
      BY <2>2, <3>1
      DEF StartUpdate, Goto, DraftFits, TypeOK, TransactionOfHandler
    <3>3. ASSUME NEW t \in Streams \ {s}, Committable(t)'
          PROVE  DraftFits(t)'
      BY <2>2, <3>1, <3>3
      DEF StartUpdate, Goto, DraftUpToDate, Committable, DraftFits, IsCurrent, TypeOK
    <3> QED
      BY <3>2, <3>3 DEF DraftUpToDate
  <2>3. CASE StartInsert(s)
    BY <2>3
    DEF StartInsert, Insert, Goto, TypeOK, DraftUpToDate, DraftFits,
        Committable, IsCurrent, KnownOperands, TransactionOfHandler,
        DraftOfTransaction
  <2>4. CASE StartCommit(s)
    BY <2>4
    DEF StartCommit, Commit, Goto, TypeOK, DraftUpToDate, DraftFits,
        Committable, IsCurrent, KnownOperands, TransactionOfHandler,
        DraftOfTransaction
  <2>5. CASE SessionOpened(s)
    BY <2>5
    DEF SessionOpened, Goto, TypeOK, DraftUpToDate, DraftFits,
        Committable, IsCurrent, KnownOperands, TransactionOfHandler,
        DraftOfTransaction
  <2>6. CASE EndBegin(s)
    BY <2>6
    DEF EndBegin, Begin, Goto, TypeOK, DraftUpToDate, DraftFits,
        Committable, IsCurrent, KnownOperands, TransactionOfHandler,
        DraftOfTransaction
  <2>7. CASE EndUpdate(s)
    <3>1. /\ UNCHANGED <<tx, event, machine, connectedAt, row>>
          /\ \A t \in Streams \ {s} : pc'[t] = pc[t] /\ writes'[t] = writes[t]
      BY <2>7 DEF EndUpdate, Goto, TypeOK
    <3>2. DraftFits(s)'
      <4>1. CASE IsCurrent(s) /\ row[machine[s]].status = "online"
        BY <2>7, <3>1, <4>1 DEF EndUpdate, Goto, DraftFits, IsCurrent, TypeOK
      <4>2. CASE ~(IsCurrent(s) /\ row[machine[s]].status = "online")
        BY <2>7, <4>2 DEF EndUpdate, DraftFits, TransactionOfHandler
      <4> QED
        BY <4>1, <4>2
    <3>3. ASSUME NEW t \in Streams \ {s}, Committable(t)'
          PROVE  DraftFits(t)'
      BY <3>1, <3>3 DEF DraftUpToDate, Committable, DraftFits, IsCurrent
    <3> QED
      BY <3>2, <3>3 DEF DraftUpToDate
  <2>8. CASE EndInsert(s)
    BY <2>8
    DEF EndInsert, Insert, Goto, TypeOK, DraftUpToDate, DraftFits,
        Committable, IsCurrent, KnownOperands, TransactionOfHandler,
        DraftOfTransaction
  <2>9. CASE EndCommit(s)
    BY <2>9
    DEF EndCommit, Commit, Goto, TypeOK, DraftUpToDate, DraftFits,
        Committable, IsCurrent, KnownOperands, TransactionOfHandler,
        DraftOfTransaction
  <2>10. CASE SessionClosed(s)
    BY <2>10
    DEF SessionClosed, Goto, TypeOK, DraftUpToDate, DraftFits,
        Committable, IsCurrent, KnownOperands, TransactionOfHandler,
        DraftOfTransaction
  <2>11. CASE Apply(s)
    <3>1. machine[s] \in Machines
      BY <2>11 DEF Apply, KnownOperands
    <3>2. /\ writes' = [writes EXCEPT ![s] = "none"]
          /\ tx' = [tx EXCEPT ![s] = "committed"]
          /\ event' = [event EXCEPT ![s] = FALSE]
          /\ UNCHANGED <<pc, machine, connectedAt, clock>>
      BY <2>11 DEF Apply, Drop
    <3>3. ASSUME NEW t \in Streams \ {s}, writes[t] # "none"
          PROVE  row'[machine[t]] = row[machine[t]]
      <4>1. machine[t] \in Machines
        BY <3>3 DEF KnownOperands, DraftOfTransaction
      <4>2. writes[s] = "none" \/ machine[t] # machine[s]
        BY <3>3 DEF RowLockExcludes
      <4> QED
        BY <2>11, <3>1, <4>1, <4>2, ApplyEffect
    <3>4. ASSUME NEW t \in Streams \ {s}, Committable(t)'
          PROVE  DraftFits(t)'
      <4>1. Committable(t) /\ DraftFits(t)
        BY <3>2, <3>4 DEF Committable, DraftUpToDate
      <4> QED
        BY <3>2, <3>3, <4>1 DEF DraftFits, IsCurrent
    <3>5. DraftFits(s)'
      BY <3>2 DEF DraftFits, TypeOK
    <3> QED
      BY <3>4, <3>5 DEF DraftUpToDate
  <2>12. CASE Abort(s)
    BY <2>12
    DEF Abort, Drop, TypeOK, DraftUpToDate, DraftFits, Committable,
        IsCurrent, KnownOperands, TransactionOfHandler, DraftOfTransaction
  <2> QED
    BY <1>2, <2>1, <2>2, <2>3, <2>4, <2>5, <2>6, <2>7, <2>8, <2>9, <2>10,
       <2>11, <2>12
    DEF Transact
<1> QED
  BY <1>1, <1>2, Cases

\* A session that starts reads a time later than all others, and only a
\* session that starts moves the row's connection time.
LEMMA TimesAdvanceStep ==
  ASSUME TypeOK, KnownOperands, TransactionOfHandler, DraftOfTransaction,
         RowLockExcludes, DraftUpToDate, TimesAdvance, [Next]_vars
  PROVE  TimesAdvance'
<1> SUFFICES ASSUME ~ClockMayRepeat PROVE TimesAdvance'
  BY DEF TimesAdvance
<1>1. CASE Quiet
  <2>1. UNCHANGED <<connectedAt, writes, clock>>
    BY <1>1 DEF Quiet
  <2>2. \A m \in Machines : row'[m].lastConnectedAt = row[m].lastConnectedAt
    BY <1>1 DEF Quiet
  <2>3. ASSUME NEW t \in Streams, writes[t] # "none"
        PROVE  machine'[t] = machine[t] /\ machine[t] \in Machines
    BY <1>1, <2>3 DEF Quiet, KnownOperands, DraftOfTransaction
  <2> QED
    BY <2>1, <2>2, <2>3 DEF TimesAdvance
<1>2. ASSUME NEW s \in Streams, Transact(s)
      PROVE  TimesAdvance'
  <2>1. CASE StartBegin(s)
    BY <2>1 DEF StartBegin, Begin, Goto, TypeOK, TimesAdvance
  <2>2. CASE StartUpdate(s)
    <3>1. connectedAt' = [connectedAt EXCEPT ![s] = clock + 1] /\ clock' = clock + 1
      BY <2>2 DEF StartUpdate, ConnectionTimes, TypeOK
    <3>2. machine[s] \in Machines /\ UNCHANGED <<machine, row>>
      BY <2>2 DEF StartUpdate, KnownOperands, Opening
    <3>3. writes' = [writes EXCEPT ![s] = "start"]
      BY <2>2 DEF StartUpdate
    <3>4. \A m \in Machines : row[m].lastConnectedAt \in Nat
      BY ConnectedAtNat
    <3> QED
      BY <3>1, <3>2, <3>3, <3>4 DEF TimesAdvance, TypeOK
  <2>3. CASE StartInsert(s)
    BY <2>3 DEF StartInsert, Insert, Goto, TypeOK, TimesAdvance
  <2>4. CASE StartCommit(s)
    BY <2>4 DEF StartCommit, Commit, Goto, TypeOK, TimesAdvance
  <2>5. CASE SessionOpened(s)
    BY <2>5 DEF SessionOpened, Goto, TypeOK, TimesAdvance
  <2>6. CASE EndBegin(s)
    BY <2>6 DEF EndBegin, Begin, Goto, TypeOK, TimesAdvance
  <2>7. CASE EndUpdate(s)
    BY <2>7 DEF EndUpdate, Goto, TypeOK, TimesAdvance
  <2>8. CASE EndInsert(s)
    BY <2>8 DEF EndInsert, Insert, Goto, TypeOK, TimesAdvance
  <2>9. CASE EndCommit(s)
    BY <2>9 DEF EndCommit, Commit, Goto, TypeOK, TimesAdvance
  <2>10. CASE SessionClosed(s)
    BY <2>10 DEF SessionClosed, Goto, TypeOK, TimesAdvance
  <2>11. CASE Apply(s)
    <3>1. machine[s] \in Machines
      BY <2>11 DEF Apply, KnownOperands
    <3>2. /\ writes' = [writes EXCEPT ![s] = "none"]
          /\ tx' = [tx EXCEPT ![s] = "committed"]
          /\ event' = [event EXCEPT ![s] = FALSE]
          /\ UNCHANGED <<pc, machine, connectedAt, clock>>
      BY <2>11 DEF Apply, Drop
    <3>3. ASSUME NEW t \in Streams \ {s}, writes[t] # "none"
          PROVE  row'[machine[t]] = row[machine[t]]
      <4>1. machine[t] \in Machines
        BY <3>3 DEF KnownOperands, DraftOfTransaction
      <4>2. writes[s] = "none" \/ machine[t] # machine[s]
        BY <3>3 DEF RowLockExcludes
      <4> QED
        BY <2>11, <3>1, <4>1, <4>2, ApplyEffect
    <3>4. ASSUME NEW m \in Machines
          PROVE  row'[m].lastConnectedAt \in {row[m].lastConnectedAt, connectedAt[s]}
      <4>1. writes[s] \in {"none", "start", "end"}
        BY DEF TypeOK
      <4> QED
        BY <2>11, <3>1, <4>1, ApplyEffect
    <3>5. \A m \in Machines : row'[m].lastConnectedAt <= clock'
      BY <3>2, <3>4 DEF TimesAdvance
    <3>6. ASSUME NEW t \in Streams, writes'[t] = "start"
          PROVE  connectedAt'[t] > row'[machine'[t]].lastConnectedAt
      <4>1. t # s /\ writes[t] = "start"
        BY <3>2, <3>6 DEF TypeOK
      <4> QED
        BY <3>2, <3>3, <4>1 DEF TimesAdvance
    <3> QED
      BY <3>2, <3>5, <3>6 DEF TimesAdvance
  <2>12. CASE Abort(s)
    BY <2>12 DEF Abort, Drop, TypeOK, TimesAdvance
  <2> QED
    BY <1>2, <2>1, <2>2, <2>3, <2>4, <2>5, <2>6, <2>7, <2>8, <2>9, <2>10,
       <2>11, <2>12
    DEF Transact
<1> QED
  BY <1>1, <1>2, Cases

\* A committed session stays in effect: only its own EndSession, which is yet
\* to come, matches its connection time.
LEMMA CommittedInEffectStep ==
  ASSUME TypeOK, KnownOperands, TransactionOfHandler, DraftOfTransaction,
         RowLockExcludes, DraftUpToDate, TimesAdvance, CommittedInEffect, [Next]_vars
  PROVE  CommittedInEffect'
<1> SUFFICES ASSUME ~ClockMayRepeat PROVE CommittedInEffect'
  BY DEF CommittedInEffect
<1>1. CASE Quiet
  <2>1. UNCHANGED connectedAt
    BY <1>1 DEF Quiet
  <2>2. SUFFICES ASSUME NEW t \in Streams, Committed(t)'
                 PROVE  /\ connectedAt[t] # 0
                        /\ \/ OnlineBy(t)'
                           \/ row'[machine'[t]].lastConnectedAt > connectedAt[t]
    BY <2>1 DEF CommittedInEffect
  <2>3. Committed(t) /\ machine'[t] = machine[t]
    BY <1>1, <2>2 DEF Quiet, Committed, Receiving
  <2>4. machine[t] \in Machines
    BY <2>3 DEF Committed, KnownOperands, Opening
  <2>5. /\ row'[machine[t]].status = row[machine[t]].status
        /\ row'[machine[t]].lastConnectedAt = row[machine[t]].lastConnectedAt
    BY <1>1, <2>4 DEF Quiet
  <2> QED
    BY <2>1, <2>3, <2>4, <2>5 DEF CommittedInEffect, OnlineBy, IsCurrent
<1>2. ASSUME NEW s \in Streams, Transact(s)
      PROVE  CommittedInEffect'
  <2>1. CASE StartBegin(s)
    BY <2>1
    DEF StartBegin, Begin, Goto, TypeOK, CommittedInEffect, Committed,
        OnlineBy, IsCurrent, Receiving, TransactionOfHandler
  <2>2. CASE StartUpdate(s)
    BY <2>2
    DEF StartUpdate, Goto, TypeOK, CommittedInEffect, Committed, OnlineBy,
        IsCurrent, Receiving, TransactionOfHandler
  <2>3. CASE StartInsert(s)
    BY <2>3
    DEF StartInsert, Insert, Goto, TypeOK, CommittedInEffect, Committed,
        OnlineBy, IsCurrent, Receiving, TransactionOfHandler
  <2>4. CASE StartCommit(s)
    BY <2>4
    DEF StartCommit, Commit, Goto, TypeOK, CommittedInEffect, Committed,
        OnlineBy, IsCurrent, Receiving, TransactionOfHandler
  <2>5. CASE SessionOpened(s)
    BY <2>5
    DEF SessionOpened, Goto, TypeOK, CommittedInEffect, Committed,
        OnlineBy, IsCurrent, Receiving, TransactionOfHandler
  <2>6. CASE EndBegin(s)
    BY <2>6
    DEF EndBegin, Begin, Goto, TypeOK, CommittedInEffect, Committed,
        OnlineBy, IsCurrent, Receiving, TransactionOfHandler
  <2>7. CASE EndUpdate(s)
    BY <2>7
    DEF EndUpdate, Goto, TypeOK, CommittedInEffect, Committed, OnlineBy,
        IsCurrent, Receiving, TransactionOfHandler
  <2>8. CASE EndInsert(s)
    BY <2>8
    DEF EndInsert, Insert, Goto, TypeOK, CommittedInEffect, Committed,
        OnlineBy, IsCurrent, Receiving, TransactionOfHandler
  <2>9. CASE EndCommit(s)
    BY <2>9
    DEF EndCommit, Commit, Goto, TypeOK, CommittedInEffect, Committed,
        OnlineBy, IsCurrent, Receiving, TransactionOfHandler
  <2>10. CASE SessionClosed(s)
    BY <2>10
    DEF SessionClosed, Goto, TypeOK, CommittedInEffect, Committed,
        OnlineBy, IsCurrent, Receiving, TransactionOfHandler
  <2>11. CASE Apply(s)
    <3>1. machine[s] \in Machines
      BY <2>11 DEF Apply, KnownOperands
    <3>2. /\ writes' = [writes EXCEPT ![s] = "none"]
          /\ tx' = [tx EXCEPT ![s] = "committed"]
          /\ event' = [event EXCEPT ![s] = FALSE]
          /\ UNCHANGED <<pc, machine, connectedAt, clock>>
      BY <2>11 DEF Apply, Drop
    <3>3. ASSUME NEW t \in Streams \ {s}, Committed(t)
          PROVE  OnlineBy(t)' \/ row'[machine[t]].lastConnectedAt > connectedAt[t]
      <4>1. machine[t] \in Machines
        BY <3>3 DEF Committed, KnownOperands, Opening
      <4>2. /\ connectedAt[t] # 0
            /\ OnlineBy(t) \/ row[machine[t]].lastConnectedAt > connectedAt[t]
        BY <3>3 DEF CommittedInEffect
      <4>3. CASE row'[machine[t]] = row[machine[t]]
        BY <3>2, <4>2, <4>3 DEF OnlineBy, IsCurrent
      <4>4. CASE machine[t] = machine[s] /\ writes[s] = "start"
        <5>1. row'[machine[t]].lastConnectedAt = connectedAt[s]
          BY <2>11, <3>1, <4>4, ApplyEffect
        <5>2. connectedAt[s] > row[machine[t]].lastConnectedAt
          BY <4>4 DEF TimesAdvance
        <5>3. /\ connectedAt[s] \in Nat /\ connectedAt[t] \in Nat
              /\ row[machine[t]].lastConnectedAt \in Nat
          BY <4>1, ConnectedAtNat DEF TypeOK
        <5> QED
          BY <4>2, <5>1, <5>2, <5>3 DEF OnlineBy, IsCurrent
      <4>5. CASE machine[t] = machine[s] /\ writes[s] = "end"
        <5>1. row'[machine[t]].lastConnectedAt = row[machine[t]].lastConnectedAt
          BY <2>11, <3>1, <4>5, ApplyEffect
        <5>2. row[machine[t]].lastConnectedAt = connectedAt[s]
          BY <2>11, <4>5
          DEF Apply, DraftUpToDate, DraftFits, Committable, IsCurrent
        <5>3. connectedAt[t] # connectedAt[s]
          BY <4>2 DEF TimesAdvance
        <5> QED
          BY <4>2, <5>1, <5>2, <5>3 DEF OnlineBy, IsCurrent
      <4>6. CASE machine[t] # machine[s] \/ writes[s] = "none"
        BY <2>11, <3>1, <4>1, <4>3, <4>6, ApplyEffect
      <4> QED
        BY <4>4, <4>5, <4>6 DEF TypeOK
    <3>4. ASSUME Committed(s)'
          PROVE  connectedAt[s] # 0 /\ OnlineBy(s)'
      <4>1. pc[s] = "startWait" /\ writes[s] = "start"
        BY <2>11, <3>2, <3>4 DEF Apply, Committed, TransactionOfHandler
      <4>2. connectedAt[s] # 0
        BY <2>11, <4>1 DEF Apply, DraftUpToDate, DraftFits, Committable
      <4>3. row'[machine[s]].status = "online" /\ row'[machine[s]].lastConnectedAt = connectedAt[s]
        BY <2>11, <3>1, <4>1, ApplyEffect
      <4> QED
        BY <3>1, <3>2, <4>2, <4>3 DEF OnlineBy, IsCurrent
    <3>5. ASSUME NEW t \in Streams \ {s}, Committed(t)'
          PROVE  Committed(t) /\ connectedAt[t] # 0
      BY <3>2, <3>5 DEF Committed, CommittedInEffect
    <3> QED
      BY <3>2, <3>3, <3>4, <3>5 DEF CommittedInEffect
  <2>12. CASE Abort(s)
    BY <2>12
    DEF Abort, Drop, TypeOK, CommittedInEffect, Committed, OnlineBy,
        IsCurrent, Receiving, TransactionOfHandler
  <2> QED
    BY <1>2, <2>1, <2>2, <2>3, <2>4, <2>5, <2>6, <2>7, <2>8, <2>9, <2>10,
       <2>11, <2>12
    DEF Transact
<1> QED
  BY <1>1, <1>2, Cases

\* The initial values have their types.
LEMMA TypeInit == Init => TypeOK
  BY ConstantAssumption
  DEF Init, TypeOK, Location, Opening, Receiving, Closing, Result, Status, MachineRow

\* Types are kept by a handler whose machine and sample are known.
LEMMA TypeStep ==
  ASSUME TypeOK, KnownOperands, [Next]_vars
  PROVE  TypeOK'
<1> USE DEF TypeOK, Location, Opening, Receiving, Closing, Result
<1>1. CASE UNCHANGED vars
  BY <1>1 DEF vars
<1>2. ASSUME NEW s \in Streams, Handle(s)
      PROVE  TypeOK'
  <2>1. CASE RecvError(s)
    BY <2>1 DEF RecvError, Return, ReturnAndClose, Goto
  <2>2. CASE FindActiveIdentity(s)
    BY <2>2 DEF FindActiveIdentity, Return, Goto
  <2>3. CASE OpenSessionFails(s)
    BY <2>3 DEF OpenSessionFails, Return, Goto
  <2>4. CASE Record(s)
    BY <2>4 DEF Record, Goto, Upsert, KnownOperands
  <2>5. CASE RecordFails(s)
    <3>1. machine[s] \in Machines /\ sample[s] \in Samples
      BY <2>5 DEF RecordFails, KnownOperands
    <3>2. samples' \in [Machines -> SUBSET Samples]
      <4>1. CASE UNCHANGED samples
        BY <4>1
      <4>2. CASE Upsert(s)
        BY <3>1, <4>2 DEF Upsert
      <4> QED
        BY <2>5, <4>1, <4>2 DEF RecordFails
    <3> QED
      BY <2>5, <3>2 DEF RecordFails, ReturnAndClose, Goto
  <2>6. CASE Touch(s)
    <3>1. machine[s] \in Machines
      BY <2>6 DEF Touch, KnownOperands
    <3> QED
      BY <2>6, <3>1, UpdateLastSeenEffect DEF Touch, Goto
  <2>7. CASE TouchFails(s)
    <3>1. machine[s] \in Machines
      BY <2>7 DEF TouchFails, KnownOperands
    <3> QED
      BY <2>7, <3>1, UpdateLastSeenEffect DEF TouchFails, ReturnAndClose, Goto
  <2>8. CASE CloseSessionFails(s)
    BY <2>8 DEF CloseSessionFails, Goto
  <2>9. CASE StartBegin(s)
    BY <2>9 DEF StartBegin, Begin, Goto
  <2>10. CASE StartUpdate(s)
    BY <2>10 DEF StartUpdate, Goto, ConnectionTimes
  <2>11. CASE StartInsert(s)
    BY <2>11 DEF StartInsert, Insert, Goto
  <2>12. CASE StartCommit(s)
    BY <2>12 DEF StartCommit, Commit, Goto
  <2>13. CASE SessionOpened(s)
    BY <2>13 DEF SessionOpened, Goto
  <2>14. CASE EndBegin(s)
    BY <2>14 DEF EndBegin, Begin, Goto
  <2>15. CASE EndUpdate(s)
    BY <2>15 DEF EndUpdate, Goto
  <2>16. CASE EndInsert(s)
    BY <2>16 DEF EndInsert, Insert, Goto
  <2>17. CASE EndCommit(s)
    BY <2>17 DEF EndCommit, Commit, Goto
  <2>18. CASE SessionClosed(s)
    BY <2>18 DEF SessionClosed, Goto
  <2> QED
    BY <1>2, <2>1, <2>2, <2>3, <2>4, <2>5, <2>6, <2>7, <2>8,
       <2>9, <2>10, <2>11, <2>12, <2>13, <2>14, <2>15, <2>16, <2>17, <2>18
       DEF Handle
<1>3. ASSUME NEW s \in Streams, Environment(s)
      PROVE  TypeOK'
  <2>1. CASE Accept(s)
    BY <2>1 DEF Accept, Goto
  <2>2. CASE Cancel(s)
    BY <2>2 DEF Cancel
  <2>3. CASE RejectFirst(s)
    BY <2>3 DEF RejectFirst, Return, Goto
  <2>4. CASE RecvAuthenticate(s)
    BY <2>4 DEF RecvAuthenticate, Goto
  <2>5. CASE RecvHeartbeat(s)
    BY <2>5 DEF RecvHeartbeat, Goto
  <2>6. CASE RecvTelemetry(s)
    BY <2>6 DEF RecvTelemetry, Goto
  <2>7. CASE RecvInvalid(s)
    BY <2>7 DEF RecvInvalid, ReturnAndClose, Goto
  <2>8. CASE RecvEOF(s)
    BY <2>8 DEF RecvEOF, ReturnAndClose, Goto
  <2> QED
    BY <1>3, <2>1, <2>2, <2>3, <2>4, <2>5, <2>6, <2>7, <2>8 DEF
       Environment
<1>4. ASSUME NEW s \in Streams, Database(s)
      PROVE  TypeOK'
  <2>1. CASE Apply(s)
    <3>1. machine[s] \in Machines
      BY <2>1 DEF Apply, KnownOperands
    <3> QED
      BY <2>1, <3>1, ApplyEffect DEF Apply, Drop
  <2>2. CASE Abort(s)
    BY <2>2 DEF Abort, Drop
  <2> QED
    BY <1>4, <2>1, <2>2 DEF Database
<1>5. CASE Terminated
  BY <1>5 DEF Terminated, vars
<1>6. CASE Crash
  BY <1>6 DEF Crash
<1> QED
  BY <1>1, <1>2, <1>3, <1>4, <1>5, <1>6 DEF Next

\* The machine of a handler stays known until it has returned, and a sample is
\* at hand while the handler records.
LEMMA KnownOperandsStep ==
  ASSUME TypeOK, KnownOperands, TransactionOfHandler, [Next]_vars
  PROVE  KnownOperands'
<1>1. CASE UNCHANGED vars
  BY <1>1 DEF vars, KnownOperands
<1>2. ASSUME NEW s \in Streams, Handle(s)
      PROVE  KnownOperands'
  <2>1. CASE RecvError(s)
    BY <2>1
    DEF RecvError, Return, ReturnAndClose, Goto, KnownOperands, TransactionOfHandler, TypeOK,
        Opening, Receiving, Closing
  <2>2. CASE FindActiveIdentity(s)
    BY <2>2
    DEF FindActiveIdentity, Return, Goto, KnownOperands, TransactionOfHandler, TypeOK,
        Opening, Receiving, Closing
  <2>3. CASE OpenSessionFails(s)
    BY <2>3
    DEF OpenSessionFails, Return, Goto, KnownOperands, TransactionOfHandler, TypeOK,
        Opening, Receiving, Closing
  <2>4. CASE Record(s)
    BY <2>4
    DEF Record, Goto, KnownOperands, TransactionOfHandler, TypeOK,
        Opening, Receiving, Closing
  <2>5. CASE RecordFails(s)
    BY <2>5
    DEF RecordFails, ReturnAndClose, Goto, KnownOperands, TransactionOfHandler, TypeOK,
        Opening, Receiving, Closing
  <2>6. CASE Touch(s)
    BY <2>6
    DEF Touch, Goto, KnownOperands, TransactionOfHandler, TypeOK,
        Opening, Receiving, Closing
  <2>7. CASE TouchFails(s)
    BY <2>7
    DEF TouchFails, ReturnAndClose, Goto, KnownOperands, TransactionOfHandler, TypeOK,
        Opening, Receiving, Closing
  <2>8. CASE CloseSessionFails(s)
    BY <2>8
    DEF CloseSessionFails, Goto, KnownOperands, TransactionOfHandler, TypeOK,
        Opening, Receiving, Closing
  <2>9. CASE StartBegin(s)
    BY <2>9
    DEF StartBegin, Begin, Goto, KnownOperands, TransactionOfHandler, TypeOK,
        Opening, Receiving, Closing
  <2>10. CASE StartUpdate(s)
    BY <2>10
    DEF StartUpdate, Goto, KnownOperands, TransactionOfHandler, TypeOK,
        Opening, Receiving, Closing
  <2>11. CASE StartInsert(s)
    BY <2>11
    DEF StartInsert, Insert, Goto, KnownOperands, TransactionOfHandler, TypeOK,
        Opening, Receiving, Closing
  <2>12. CASE StartCommit(s)
    BY <2>12
    DEF StartCommit, Commit, Goto, KnownOperands, TransactionOfHandler, TypeOK,
        Opening, Receiving, Closing
  <2>13. CASE SessionOpened(s)
    BY <2>13
    DEF SessionOpened, Goto, KnownOperands, TransactionOfHandler, TypeOK,
        Opening, Receiving, Closing
  <2>14. CASE EndBegin(s)
    BY <2>14
    DEF EndBegin, Begin, Goto, KnownOperands, TransactionOfHandler, TypeOK,
        Opening, Receiving, Closing
  <2>15. CASE EndUpdate(s)
    BY <2>15
    DEF EndUpdate, Goto, KnownOperands, TransactionOfHandler, TypeOK,
        Opening, Receiving, Closing
  <2>16. CASE EndInsert(s)
    BY <2>16
    DEF EndInsert, Insert, Goto, KnownOperands, TransactionOfHandler, TypeOK,
        Opening, Receiving, Closing
  <2>17. CASE EndCommit(s)
    BY <2>17
    DEF EndCommit, Commit, Goto, KnownOperands, TransactionOfHandler, TypeOK,
        Opening, Receiving, Closing
  <2>18. CASE SessionClosed(s)
    BY <2>18
    DEF SessionClosed, Goto, KnownOperands, TransactionOfHandler, TypeOK,
        Opening, Receiving, Closing
  <2> QED
    BY <1>2, <2>1, <2>2, <2>3, <2>4, <2>5, <2>6, <2>7, <2>8,
       <2>9, <2>10, <2>11, <2>12, <2>13, <2>14, <2>15, <2>16, <2>17, <2>18
       DEF Handle
<1>3. ASSUME NEW s \in Streams, Environment(s)
      PROVE  KnownOperands'
  <2>1. CASE Accept(s)
    BY <2>1
    DEF Accept, Goto, KnownOperands, TransactionOfHandler, TypeOK,
        Opening, Receiving, Closing
  <2>2. CASE Cancel(s)
    BY <2>2
    DEF Cancel, KnownOperands, TransactionOfHandler, TypeOK,
        Opening, Receiving, Closing
  <2>3. CASE RejectFirst(s)
    BY <2>3
    DEF RejectFirst, Return, Goto, KnownOperands, TransactionOfHandler, TypeOK,
        Opening, Receiving, Closing
  <2>4. CASE RecvAuthenticate(s)
    BY <2>4
    DEF RecvAuthenticate, Goto, KnownOperands, TransactionOfHandler, TypeOK,
        Opening, Receiving, Closing
  <2>5. CASE RecvHeartbeat(s)
    BY <2>5
    DEF RecvHeartbeat, Goto, KnownOperands, TransactionOfHandler, TypeOK,
        Opening, Receiving, Closing
  <2>6. CASE RecvTelemetry(s)
    BY <2>6
    DEF RecvTelemetry, Goto, KnownOperands, TransactionOfHandler, TypeOK,
        Opening, Receiving, Closing
  <2>7. CASE RecvInvalid(s)
    BY <2>7
    DEF RecvInvalid, ReturnAndClose, Goto, KnownOperands, TransactionOfHandler, TypeOK,
        Opening, Receiving, Closing
  <2>8. CASE RecvEOF(s)
    BY <2>8
    DEF RecvEOF, ReturnAndClose, Goto, KnownOperands, TransactionOfHandler, TypeOK,
        Opening, Receiving, Closing
  <2> QED
    BY <1>3, <2>1, <2>2, <2>3, <2>4, <2>5, <2>6, <2>7, <2>8 DEF
       Environment
<1>4. ASSUME NEW s \in Streams, Database(s)
      PROVE  KnownOperands'
  <2>1. CASE Apply(s)
    BY <2>1
    DEF Apply, Drop, KnownOperands, TransactionOfHandler, TypeOK,
        Opening, Receiving, Closing
  <2>2. CASE Abort(s)
    BY <2>2
    DEF Abort, Drop, KnownOperands, TransactionOfHandler, TypeOK,
        Opening, Receiving, Closing
  <2> QED
    BY <1>4, <2>1, <2>2 DEF Database
<1>5. CASE Terminated
  BY <1>5 DEF Terminated, vars, KnownOperands
<1>6. CASE Crash
  BY <1>6 DEF Crash, KnownOperands, TypeOK, Opening, Receiving, Closing
<1> QED
  BY <1>1, <1>2, <1>3, <1>4, <1>5, <1>6 DEF Next

\* Each statement of a handler leaves its transaction where the next expects it.
LEMMA TransactionOfHandlerStep ==
  ASSUME TypeOK, KnownOperands, TransactionOfHandler, DraftOfTransaction, [Next]_vars
  PROVE  TransactionOfHandler'
<1>1. CASE Quiet
  BY <1>1
  DEF Quiet, Between, TypeOK, TransactionOfHandler, DraftOfTransaction,
      Receiving
<1>2. ASSUME NEW s \in Streams, Transact(s)
      PROVE  TransactionOfHandler'
  <2>1. CASE StartBegin(s)
    BY <2>1
    DEF StartBegin, Begin, Goto, TypeOK, TransactionOfHandler,
        DraftOfTransaction, Receiving
  <2>2. CASE StartUpdate(s)
    BY <2>2
    DEF StartUpdate, Goto, TypeOK, TransactionOfHandler,
        DraftOfTransaction, Receiving
  <2>3. CASE StartInsert(s)
    BY <2>3
    DEF StartInsert, Insert, Goto, TypeOK, TransactionOfHandler,
        DraftOfTransaction, Receiving
  <2>4. CASE StartCommit(s)
    BY <2>4
    DEF StartCommit, Commit, Goto, TypeOK, TransactionOfHandler,
        DraftOfTransaction, Receiving
  <2>5. CASE SessionOpened(s)
    BY <2>5
    DEF SessionOpened, Goto, TypeOK, TransactionOfHandler,
        DraftOfTransaction, Receiving
  <2>6. CASE EndBegin(s)
    BY <2>6
    DEF EndBegin, Begin, Goto, TypeOK, TransactionOfHandler,
        DraftOfTransaction, Receiving
  <2>7. CASE EndUpdate(s)
    BY <2>7
    DEF EndUpdate, Goto, TypeOK, TransactionOfHandler, DraftOfTransaction,
        Receiving
  <2>8. CASE EndInsert(s)
    BY <2>8
    DEF EndInsert, Insert, Goto, TypeOK, TransactionOfHandler,
        DraftOfTransaction, Receiving
  <2>9. CASE EndCommit(s)
    BY <2>9
    DEF EndCommit, Commit, Goto, TypeOK, TransactionOfHandler,
        DraftOfTransaction, Receiving
  <2>10. CASE SessionClosed(s)
    BY <2>10
    DEF SessionClosed, Goto, TypeOK, TransactionOfHandler,
        DraftOfTransaction, Receiving
  <2>11. CASE Apply(s)
    BY <2>11
    DEF Apply, Drop, TypeOK, TransactionOfHandler, DraftOfTransaction,
        Receiving
  <2>12. CASE Abort(s)
    BY <2>12
    DEF Abort, Drop, TypeOK, TransactionOfHandler, DraftOfTransaction,
        Receiving
  <2> QED
    BY <1>2, <2>1, <2>2, <2>3, <2>4, <2>5, <2>6, <2>7, <2>8, <2>9, <2>10,
       <2>11, <2>12
    DEF Transact
<1> QED
  BY <1>1, <1>2, Cases

----------------------------------------------------------------------------
(* The invariants                                                          *)

\* The invariant holds initially.
LEMMA InductiveInit == Init => Inductive
  BY TypeInit, ConstantAssumption
  DEF Init, Inductive, KnownOperands, DraftOfTransaction, TransactionOfHandler,
      RowLockExcludes, DraftUpToDate, Committable, TimesAdvance,
      CommittedInEffect, Committed, Opening, Receiving, Closing

\* The invariant is kept by every step.
LEMMA InductiveStep == Inductive /\ [Next]_vars => Inductive'
  BY TypeStep, KnownOperandsStep, DraftOfTransactionStep,
     TransactionOfHandlerStep,
     RowLockExcludesStep, DraftUpToDateStep, TimesAdvanceStep, CommittedInEffectStep
  DEF Inductive

\* The strengthened invariant, for any streams, machines and faults.
THEOREM InductiveInvariant == Spec => []Inductive
  BY InductiveInit, InductiveStep, PTL DEF Spec

\* Every variable keeps to its type, whatever the constants.
THEOREM TypeCorrect == Spec => []TypeOK
<1>1. Inductive => TypeOK
  BY DEF Inductive
<1> QED
  BY <1>1, InductiveInvariant, PTL

\* With a clock that advances, a handler that receives has its machine online
\* unless a later session has taken over.
THEOREM LiveSession ==
  ASSUME ~ClockMayRepeat
  PROVE  Spec => []LiveSessionOnline
<1>1. Inductive => LiveSessionOnline
  BY
  DEF Inductive, CommittedInEffect, Committed, LiveSessionOnline, OnlineBy,
      IsCurrent
<1> QED
  BY <1>1, InductiveInvariant, PTL

----------------------------------------------------------------------------
(* The refinement                                                          *)

\* Machines start as Presence.tla has them: unknown, and without history.
LEMMA RefinesInit == Init => Promise!Init
  BY DEF Init, Promise!Init

\* Committing a StartSession connects the machine.
LEMMA StartConnects ==
  ASSUME Inductive, NEW s \in Streams, Apply(s), writes[s] = "start",
         NEW m \in Machines, m = machine[s]
  PROVE  Promise!Connect(m)
<1>1. TypeOK /\ Committable(s) /\ DraftFits(s)
  BY DEF Inductive, Apply, Committable, DraftUpToDate
<1>2. /\ row' \in [Machines -> MachineRow]
      /\ \A n \in Machines \ {m} : row'[n] = row[n]
      /\ row'[m].status = "online"
      /\ row'[m].lastConnectedAt = connectedAt[s]
      /\ event[s] => events' = [events EXCEPT ![m] = Append(@, "online")]
      /\ ~event[s] => events' = events
  BY <1>1, ApplyEffect
<1>3. connectedAt[s] \in Nat \ {0}
  BY <1>1 DEF DraftFits, TypeOK
<1>4. ClockMayRepeat \/ connectedAt[s] > row[m].lastConnectedAt
  BY ConstantAssumption DEF Inductive, TimesAdvance
<1>5. event[s] <=> row[m].status # "online"
  BY <1>1 DEF DraftFits, Inductive, TransactionOfHandler, Apply
<1>6. [n \in Machines |-> row[n].lastConnectedAt]'
        = [[n \in Machines |-> row[n].lastConnectedAt] EXCEPT ![m] = connectedAt[s]]
  BY <1>2
<1>7. CASE row[m].status = "online"
  <2>1. [n \in Machines |-> row[n].status]' = [n \in Machines |-> row[n].status]
    BY <1>2, <1>7
  <2> QED
    BY <1>2, <1>3, <1>4, <1>5, <1>6, <1>7, <2>1 DEF Promise!Connect
<1>8. CASE row[m].status # "online"
  <2>1. [n \in Machines |-> row[n].status]'
          = [[n \in Machines |-> row[n].status] EXCEPT ![m] = "online"]
    BY <1>2
  <2> QED
    BY <1>2, <1>3, <1>4, <1>5, <1>6, <1>8, <2>1
    DEF Promise!Connect, Promise!Change
<1> QED
  BY <1>7, <1>8

\* Committing an EndSession that matched disconnects the machine.
LEMMA EndDisconnects ==
  ASSUME Inductive, NEW s \in Streams, Apply(s), writes[s] = "end",
         NEW m \in Machines, m = machine[s]
  PROVE  Promise!Disconnect(m)
<1>1. TypeOK /\ Committable(s) /\ DraftFits(s)
  BY DEF Inductive, Apply, Committable, DraftUpToDate
<1>2. /\ row' \in [Machines -> MachineRow]
      /\ \A n \in Machines \ {m} : row'[n] = row[n]
      /\ row'[m].status = "offline"
      /\ row'[m].lastConnectedAt = row[m].lastConnectedAt
      /\ event[s] => events' = [events EXCEPT ![m] = Append(@, "offline")]
  BY <1>1, ApplyEffect
<1>3. event[s] /\ row[m].status = "online"
  BY <1>1 DEF DraftFits, Inductive, TransactionOfHandler, Apply
<1> QED
  BY <1>1, <1>2, <1>3 DEF Promise!Disconnect, Promise!Change

\* Every other step leaves status, connection time and history alone.
LEMMA OthersStutter ==
  ASSUME Inductive, [Next]_vars,
         \A s \in Streams : Apply(s) => writes[s] = "none"
  PROVE  UNCHANGED Promise!vars
<1>1. CASE Quiet
  BY <1>1 DEF Quiet, Promise!vars
<1>2. ASSUME NEW s \in Streams, Transact(s)
      PROVE  UNCHANGED Promise!vars
  <2>1. CASE Apply(s)
    <3>1. machine[s] \in Machines /\ ~event[s] /\ writes[s] = "none"
      BY <2>1 DEF Inductive, KnownOperands, Apply, DraftOfTransaction
    <3> QED
      BY <2>1, <3>1, ApplyEffect DEF Inductive, Promise!vars
  <2>2. CASE ~Apply(s)
    BY <1>2, <2>2
    DEF Transact, StartBegin, StartUpdate, StartInsert, StartCommit,
        SessionOpened, EndBegin, EndUpdate, EndInsert, EndCommit,
        SessionClosed, Abort, Begin, Insert, Commit, Promise!vars
  <2> QED
    BY <2>1, <2>2
<1> QED
  BY <1>1, <1>2, Cases DEF Inductive

\* The transactions of any number of streams, and any faults, implement the
\* promise of Presence.tla.
THEOREM Implementation == Spec => ImplementsPresence
<1>1. Inductive /\ [Next]_vars => [Promise!Next]_(Promise!vars)
  <2> SUFFICES ASSUME Inductive, [Next]_vars
               PROVE  [Promise!Next]_(Promise!vars)
    OBVIOUS
  <2>1. ASSUME NEW s \in Streams, Apply(s), writes[s] # "none"
        PROVE  Promise!Next
    <3>1. machine[s] \in Machines /\ writes[s] \in {"start", "end"}
      BY <2>1 DEF Inductive, KnownOperands, DraftOfTransaction, TypeOK
    <3> QED
      BY <2>1, <3>1, StartConnects, EndDisconnects DEF Promise!Next
  <2> QED
    BY <2>1, OthersStutter
<1> QED
  BY <1>1, RefinesInit, InductiveInvariant, PTL
  DEF Spec, ImplementsPresence, Promise!Spec

\* What is proved of Presence.tla, read off the rows.
PromiseTheorems == INSTANCE Presence_proofs WITH
  TimesMayRepeat <- ClockMayRepeat,
  status <- [m \in Machines |-> row[m].status],
  latest <- [m \in Machines |-> row[m].lastConnectedAt],
  history <- events

\* The presence events of every machine alternate and end with its status.
THEOREM PresenceHistoryInvariant == Spec => []PresenceHistory
<1>1. Promise!Init => PromiseTheorems!Init
  BY DEF Promise!Init, PromiseTheorems!Init
<1>2. [Promise!Next]_(Promise!vars)
        => [PromiseTheorems!Next]_(PromiseTheorems!vars)
  BY DEF Promise!Next, Promise!vars, Promise!Connect, Promise!Disconnect,
         Promise!Change, PromiseTheorems!Next, PromiseTheorems!vars,
         PromiseTheorems!Connect, PromiseTheorems!Disconnect,
         PromiseTheorems!Change
<1>3. PromiseTheorems!History => PresenceHistory
  BY DEF PromiseTheorems!History, PromiseTheorems!Alternates, PresenceHistory,
         Promise!History, Promise!Alternates
<1> QED
  BY <1>1, <1>2, <1>3, Implementation, PromiseTheorems!HistoryInvariant, PTL
  DEF ImplementsPresence, Promise!Spec, PromiseTheorems!Spec

\* With a clock that advances, the row never goes back to an earlier session.
THEOREM LaterSession ==
  ASSUME ~ClockMayRepeat
  PROVE  Spec => LaterSessionWins
<1>1. Inductive /\ [Next]_vars
        => \A m \in Machines : row'[m].lastConnectedAt >= row[m].lastConnectedAt
  <2> SUFFICES ASSUME Inductive, [Next]_vars, NEW m \in Machines
               PROVE  row'[m].lastConnectedAt >= row[m].lastConnectedAt
    OBVIOUS
  <2>1. row[m].lastConnectedAt \in Nat
    BY ConnectedAtNat DEF Inductive
  <2>2. CASE row'[m].lastConnectedAt = row[m].lastConnectedAt
    BY <2>1, <2>2
  <2>3. ASSUME NEW s \in Streams, Apply(s), writes[s] = "start", m = machine[s]
        PROVE  row'[m].lastConnectedAt >= row[m].lastConnectedAt
    <3>1. row'[m].lastConnectedAt = connectedAt[s]
      BY <2>3, ApplyEffect DEF Inductive
    <3>2. connectedAt[s] > row[m].lastConnectedAt /\ connectedAt[s] \in Nat
      BY <2>3 DEF Inductive, TimesAdvance, TypeOK
    <3> QED
      BY <2>1, <3>1, <3>2
  <2>4. ASSUME NEW s \in Streams, Apply(s), writes[s] # "start" \/ m # machine[s]
        PROVE  row'[m].lastConnectedAt = row[m].lastConnectedAt
    <3>1. machine[s] \in Machines /\ writes[s] \in {"none", "start", "end"}
      BY <2>4 DEF Inductive, KnownOperands, Apply, TypeOK
    <3> QED
      BY <2>4, <3>1, ApplyEffect DEF Inductive
  <2>5. ASSUME \A s \in Streams : ~Apply(s)
        PROVE  row'[m].lastConnectedAt = row[m].lastConnectedAt
    BY <2>5, OthersStutter DEF Promise!vars
  <2> QED
    BY <2>2, <2>3, <2>4, <2>5
<1> QED
  BY <1>1, InductiveInvariant, PTL DEF Spec, LaterSessionWins

=============================================================================
