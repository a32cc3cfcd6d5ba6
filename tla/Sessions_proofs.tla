--------------------------- MODULE Sessions_proofs ---------------------------
(***************************************************************************)
(* Proofs about what becomes of the sessions of StreamUpdates, for any set *)
(* of streams and machines, with faults of the database and crashes of the *)
(* server: a session that has been closed is gone, a machine is online     *)
(* only as long as somebody holds it so, a row is of one session, and an   *)
(* agent answered OK has its samples stored.                               *)
(*                                                                         *)
(* Outcome is inductive relative to Inductive.  The lemma HandlerSteps     *)
(* goes through the actions once; what follows about rows only tells apart *)
(* the end of a transaction from all other steps.                          *)
(***************************************************************************)
EXTENDS StreamUpdates_proofs

USE DEF handlerVars, txVars, databaseVars

\* Where a session that took effect is not yet known to be closed.
Held(t) ==
  \/ pc[t] = "startWait"
  \/ session[t] \in {"open", "error", "lost"}
  \/ session[t] = "none" /\ pc[t] = "done"

\* A session stays held until closeSession succeeds, and then stays closed.
Fates ==
  \A t \in Streams :
    /\ Held(t) /\ ~SessionClosed(t) =>
         /\ Held(t)'
         /\ machine'[t] = machine[t] /\ connectedAt'[t] = connectedAt[t]
    /\ session'[t] = "closed" =>
         /\ session[t] = "closed" \/ SessionClosed(t)
         /\ machine'[t] = machine[t] /\ connectedAt'[t] = connectedAt[t]

\* Each statement of a handler leaves its session where the next expects it.
LEMMA HandlerSteps ==
  ASSUME Inductive, SessionOfHandler, [Next]_vars
  PROVE  SessionOfHandler' /\ Fates
<1> USE DEF TypeOK, Opening, Receiving, Closing
<1>0. TypeOK /\ KnownOperands /\ DraftOfTransaction /\ TransactionOfHandler
  BY DEF Inductive
<1>1. CASE UNCHANGED vars \/ Terminated
  BY <1>0, <1>1 DEF Terminated, vars, SessionOfHandler, Held, Fates
<1>2. ASSUME NEW s \in Streams, Handle(s)
      PROVE  SessionOfHandler' /\ Fates
  <2>1. CASE RecvError(s)
    BY <1>0, <2>1
    DEF RecvError, Return, ReturnAndClose, Goto, KnownOperands,
        DraftOfTransaction, TransactionOfHandler, SessionOfHandler, Held,
        Fates
  <2>2. CASE FindActiveIdentity(s)
    BY <1>0, <2>2
    DEF FindActiveIdentity, Return, Goto, KnownOperands, DraftOfTransaction,
        TransactionOfHandler, SessionOfHandler, Held, Fates
  <2>3. CASE OpenSessionFails(s)
    BY <1>0, <2>3
    DEF OpenSessionFails, Return, Goto, KnownOperands, DraftOfTransaction,
        TransactionOfHandler, SessionOfHandler, Held, Fates
  <2>4. CASE Record(s)
    BY <1>0, <2>4
    DEF Record, Goto, KnownOperands, DraftOfTransaction,
        TransactionOfHandler, SessionOfHandler, Held, Fates
  <2>5. CASE RecordFails(s)
    BY <1>0, <2>5
    DEF RecordFails, ReturnAndClose, Goto, KnownOperands,
        DraftOfTransaction, TransactionOfHandler, SessionOfHandler, Held,
        Fates
  <2>6. CASE Touch(s)
    BY <1>0, <2>6
    DEF Touch, Goto, KnownOperands, DraftOfTransaction,
        TransactionOfHandler, SessionOfHandler, Held, Fates
  <2>7. CASE TouchFails(s)
    BY <1>0, <2>7
    DEF TouchFails, ReturnAndClose, Goto, KnownOperands, DraftOfTransaction,
        TransactionOfHandler, SessionOfHandler, Held, Fates
  <2>8. CASE CloseSessionFails(s)
    BY <1>0, <2>8
    DEF CloseSessionFails, Goto, KnownOperands, DraftOfTransaction,
        TransactionOfHandler, SessionOfHandler, Held, Fates
  <2>9. CASE StartBegin(s)
    BY <1>0, <2>9
    DEF StartBegin, Begin, Goto, KnownOperands, DraftOfTransaction,
        TransactionOfHandler, SessionOfHandler, Held, Fates
  <2>10. CASE StartUpdate(s)
    BY <1>0, <2>10
    DEF StartUpdate, Goto, KnownOperands, DraftOfTransaction,
        TransactionOfHandler, SessionOfHandler, Held, Fates
  <2>11. CASE StartInsert(s)
    BY <1>0, <2>11
    DEF StartInsert, Insert, Goto, KnownOperands, DraftOfTransaction,
        TransactionOfHandler, SessionOfHandler, Held, Fates
  <2>12. CASE StartCommit(s)
    BY <1>0, <2>12
    DEF StartCommit, Commit, Goto, KnownOperands, DraftOfTransaction,
        TransactionOfHandler, SessionOfHandler, Held, Fates
  <2>13. CASE SessionOpened(s)
    BY <1>0, <2>13
    DEF SessionOpened, Goto, KnownOperands, DraftOfTransaction,
        TransactionOfHandler, SessionOfHandler, Held, Fates
  <2>14. CASE EndBegin(s)
    BY <1>0, <2>14
    DEF EndBegin, Begin, Goto, KnownOperands, DraftOfTransaction,
        TransactionOfHandler, SessionOfHandler, Held, Fates
  <2>15. CASE EndUpdate(s)
    BY <1>0, <2>15
    DEF EndUpdate, Goto, KnownOperands, DraftOfTransaction,
        TransactionOfHandler, SessionOfHandler, Held, Fates
  <2>16. CASE EndInsert(s)
    BY <1>0, <2>16
    DEF EndInsert, Insert, Goto, KnownOperands, DraftOfTransaction,
        TransactionOfHandler, SessionOfHandler, Held, Fates
  <2>17. CASE EndCommit(s)
    BY <1>0, <2>17
    DEF EndCommit, Commit, Goto, KnownOperands, DraftOfTransaction,
        TransactionOfHandler, SessionOfHandler, Held, Fates
  <2>18. CASE SessionClosed(s)
    BY <1>0, <2>18
    DEF SessionClosed, Goto, KnownOperands, DraftOfTransaction,
        TransactionOfHandler, SessionOfHandler, Held, Fates
  <2> QED
    BY <1>2, <2>1, <2>2, <2>3, <2>4, <2>5, <2>6, <2>7, <2>8, <2>9, <2>10,
       <2>11, <2>12, <2>13, <2>14, <2>15, <2>16, <2>17, <2>18
    DEF Handle
<1>3. ASSUME NEW s \in Streams, Environment(s)
      PROVE  SessionOfHandler' /\ Fates
  <2>1. CASE Accept(s)
    BY <1>0, <2>1
    DEF Accept, Goto, KnownOperands, DraftOfTransaction,
        TransactionOfHandler, SessionOfHandler, Held, Fates
  <2>2. CASE Cancel(s)
    BY <1>0, <2>2
    DEF Cancel, KnownOperands, DraftOfTransaction, TransactionOfHandler,
        SessionOfHandler, Held, Fates
  <2>3. CASE RejectFirst(s)
    BY <1>0, <2>3
    DEF RejectFirst, Return, Goto, KnownOperands, DraftOfTransaction,
        TransactionOfHandler, SessionOfHandler, Held, Fates
  <2>4. CASE RecvAuthenticate(s)
    BY <1>0, <2>4
    DEF RecvAuthenticate, Goto, KnownOperands, DraftOfTransaction,
        TransactionOfHandler, SessionOfHandler, Held, Fates
  <2>5. CASE RecvHeartbeat(s)
    BY <1>0, <2>5
    DEF RecvHeartbeat, Goto, KnownOperands, DraftOfTransaction,
        TransactionOfHandler, SessionOfHandler, Held, Fates
  <2>6. CASE RecvTelemetry(s)
    BY <1>0, <2>6
    DEF RecvTelemetry, Goto, KnownOperands, DraftOfTransaction,
        TransactionOfHandler, SessionOfHandler, Held, Fates
  <2>7. CASE RecvInvalid(s)
    BY <1>0, <2>7
    DEF RecvInvalid, ReturnAndClose, Goto, KnownOperands,
        DraftOfTransaction, TransactionOfHandler, SessionOfHandler, Held,
        Fates
  <2>8. CASE RecvEOF(s)
    BY <1>0, <2>8
    DEF RecvEOF, ReturnAndClose, Goto, KnownOperands, DraftOfTransaction,
        TransactionOfHandler, SessionOfHandler, Held, Fates
  <2> QED
    BY <1>3, <2>1, <2>2, <2>3, <2>4, <2>5, <2>6, <2>7, <2>8
    DEF Environment
<1>4. ASSUME NEW s \in Streams, Database(s)
      PROVE  SessionOfHandler' /\ Fates
  <2>1. CASE Apply(s)
    BY <1>0, <2>1
    DEF Apply, Drop, KnownOperands, DraftOfTransaction,
        TransactionOfHandler, SessionOfHandler, Held, Fates
  <2>2. CASE Abort(s)
    BY <1>0, <2>2
    DEF Abort, Drop, KnownOperands, DraftOfTransaction,
        TransactionOfHandler, SessionOfHandler, Held, Fates
  <2> QED
    BY <1>4, <2>1, <2>2
    DEF Database
<1>5. CASE Crash
  BY <1>0, <1>5 DEF Crash, Active, SessionOfHandler, Held, Fates, SessionClosed
<1> QED
  BY <1>1, <1>2, <1>3, <1>4, <1>5 DEF Next

----------------------------------------------------------------------------
(* Samples                                                                 *)

\* Samples are never removed, and a handler goes on only with a sample stored.
LEMMA RecordedSoFarStep ==
  ASSUME Inductive, SessionOfHandler, RecordedSoFar, [Next]_vars
  PROVE  RecordedSoFar'
<1> USE DEF TypeOK, Opening, Receiving, Closing
<1>0. TypeOK /\ KnownOperands
  BY DEF Inductive
<1>1. CASE UNCHANGED vars \/ Terminated
  BY <1>0, <1>1 DEF Terminated, vars, RecordedSoFar
<1>2. ASSUME NEW s \in Streams, Handle(s)
      PROVE  RecordedSoFar'
  <2>1. CASE RecvError(s)
    BY <1>0, <2>1
    DEF RecvError, Return, ReturnAndClose, Goto, KnownOperands,
        SessionOfHandler, RecordedSoFar
  <2>2. CASE FindActiveIdentity(s)
    BY <1>0, <2>2
    DEF FindActiveIdentity, Return, Goto, KnownOperands, SessionOfHandler, RecordedSoFar
  <2>3. CASE OpenSessionFails(s)
    BY <1>0, <2>3
    DEF OpenSessionFails, Return, Goto, KnownOperands, SessionOfHandler, RecordedSoFar
  <2>4. CASE Record(s)
    BY <1>0, <2>4
    DEF Record, Goto, KnownOperands, SessionOfHandler, RecordedSoFar, Upsert
  <2>5. CASE RecordFails(s)
    <3>1. /\ machine[s] \in Machines /\ result[s] # "OK"
          /\ machine' = machine /\ received' = received /\ session' = session
          /\ pc' = [pc EXCEPT ![s] = "endBegin"]
          /\ result' = [result EXCEPT ![s] = "Internal"]
          /\ sample' = [sample EXCEPT ![s] = NoSample]
      BY <1>0, <2>5
      DEF RecordFails, ReturnAndClose, Goto, KnownOperands, SessionOfHandler,
          RecordedSoFar
    <3>2. \A m \in Machines : samples[m] \subseteq samples'[m]
      <4>1. UNCHANGED samples \/ Upsert(s)
        BY <1>0, <2>5 DEF RecordFails
      <4> QED
        BY <1>0, <3>1, <4>1 DEF Upsert
    <3>3. \A t \in Streams :
            pc[t] \in Receiving \/ result[t] = "OK" => machine[t] \in Machines
      BY <1>0 DEF KnownOperands, SessionOfHandler, RecordedSoFar
    <3> QED
      BY <1>0, <2>5, <3>1, <3>2, <3>3 DEF RecordFails, RecordedSoFar
  <2>6. CASE Touch(s)
    BY <1>0, <2>6
    DEF Touch, Goto, KnownOperands, SessionOfHandler, RecordedSoFar
  <2>7. CASE TouchFails(s)
    BY <1>0, <2>7
    DEF TouchFails, ReturnAndClose, Goto, KnownOperands, SessionOfHandler, RecordedSoFar
  <2>8. CASE CloseSessionFails(s)
    BY <1>0, <2>8
    DEF CloseSessionFails, Goto, KnownOperands, SessionOfHandler, RecordedSoFar
  <2>9. CASE StartBegin(s)
    BY <1>0, <2>9
    DEF StartBegin, Begin, Goto, KnownOperands, SessionOfHandler, RecordedSoFar
  <2>10. CASE StartUpdate(s)
    BY <1>0, <2>10
    DEF StartUpdate, Goto, KnownOperands, SessionOfHandler, RecordedSoFar
  <2>11. CASE StartInsert(s)
    BY <1>0, <2>11
    DEF StartInsert, Insert, Goto, KnownOperands, SessionOfHandler, RecordedSoFar
  <2>12. CASE StartCommit(s)
    BY <1>0, <2>12
    DEF StartCommit, Commit, Goto, KnownOperands, SessionOfHandler, RecordedSoFar
  <2>13. CASE SessionOpened(s)
    BY <1>0, <2>13
    DEF SessionOpened, Goto, KnownOperands, SessionOfHandler, RecordedSoFar
  <2>14. CASE EndBegin(s)
    BY <1>0, <2>14
    DEF EndBegin, Begin, Goto, KnownOperands, SessionOfHandler, RecordedSoFar
  <2>15. CASE EndUpdate(s)
    BY <1>0, <2>15
    DEF EndUpdate, Goto, KnownOperands, SessionOfHandler, RecordedSoFar
  <2>16. CASE EndInsert(s)
    BY <1>0, <2>16
    DEF EndInsert, Insert, Goto, KnownOperands, SessionOfHandler, RecordedSoFar
  <2>17. CASE EndCommit(s)
    BY <1>0, <2>17
    DEF EndCommit, Commit, Goto, KnownOperands, SessionOfHandler, RecordedSoFar
  <2>18. CASE SessionClosed(s)
    BY <1>0, <2>18
    DEF SessionClosed, Goto, KnownOperands, SessionOfHandler, RecordedSoFar
  <2> QED
    BY <1>2, <2>1, <2>2, <2>3, <2>4, <2>5, <2>6, <2>7, <2>8, <2>9, <2>10,
       <2>11, <2>12, <2>13, <2>14, <2>15, <2>16, <2>17, <2>18
    DEF Handle
<1>3. ASSUME NEW s \in Streams, Environment(s)
      PROVE  RecordedSoFar'
  <2>1. CASE Accept(s)
    BY <1>0, <2>1
    DEF Accept, Goto, KnownOperands, SessionOfHandler, RecordedSoFar
  <2>2. CASE Cancel(s)
    BY <1>0, <2>2
    DEF Cancel, KnownOperands, SessionOfHandler, RecordedSoFar
  <2>3. CASE RejectFirst(s)
    BY <1>0, <2>3
    DEF RejectFirst, Return, Goto, KnownOperands, SessionOfHandler, RecordedSoFar
  <2>4. CASE RecvAuthenticate(s)
    BY <1>0, <2>4
    DEF RecvAuthenticate, Goto, KnownOperands, SessionOfHandler, RecordedSoFar
  <2>5. CASE RecvHeartbeat(s)
    BY <1>0, <2>5
    DEF RecvHeartbeat, Goto, KnownOperands, SessionOfHandler, RecordedSoFar
  <2>6. CASE RecvTelemetry(s)
    BY <1>0, <2>6
    DEF RecvTelemetry, Goto, KnownOperands, SessionOfHandler, RecordedSoFar
  <2>7. CASE RecvInvalid(s)
    BY <1>0, <2>7
    DEF RecvInvalid, ReturnAndClose, Goto, KnownOperands, SessionOfHandler, RecordedSoFar
  <2>8. CASE RecvEOF(s)
    BY <1>0, <2>8
    DEF RecvEOF, ReturnAndClose, Goto, KnownOperands, SessionOfHandler, RecordedSoFar
  <2> QED
    BY <1>3, <2>1, <2>2, <2>3, <2>4, <2>5, <2>6, <2>7, <2>8
    DEF Environment
<1>4. ASSUME NEW s \in Streams, Database(s)
      PROVE  RecordedSoFar'
  <2>1. CASE Apply(s)
    BY <1>0, <2>1
    DEF Apply, Drop, KnownOperands, SessionOfHandler, RecordedSoFar
  <2>2. CASE Abort(s)
    BY <1>0, <2>2
    DEF Abort, Drop, KnownOperands, SessionOfHandler, RecordedSoFar
  <2> QED
    BY <1>4, <2>1, <2>2
    DEF Database
<1>5. CASE Crash
  BY <1>0, <1>5 DEF Crash, Active, RecordedSoFar, SessionOfHandler
<1> QED
  BY <1>1, <1>2, <1>3, <1>4, <1>5 DEF Next

----------------------------------------------------------------------------
(* Rows                                                                    *)

\* A row changes by the UPDATE of TouchSession and at the end of a transaction.
LEMMA RowSteps ==
  ASSUME Inductive, [Next]_vars
  PROVE  \/ UNCHANGED row
         \/ \E s \in Streams : machine[s] \in Machines /\ UpdateLastSeen(s)
         \/ \E s \in Streams : machine[s] \in Machines /\ Apply(s)
<1>1. ASSUME NEW s \in Streams, Touch(s) \/ TouchFails(s)
      PROVE  UNCHANGED row \/ (machine[s] \in Machines /\ UpdateLastSeen(s))
  BY <1>1 DEF Touch, TouchFails, Inductive, KnownOperands, Receiving
<1>2. ASSUME NEW s \in Streams, Apply(s)
      PROVE  machine[s] \in Machines
  BY <1>2 DEF Apply, Inductive, KnownOperands
<1> QED
  BY <1>1, <1>2
  DEF Next, Handle, Environment, Database, Terminated, vars, Crash,
      RecvError, FindActiveIdentity, StartBegin, StartUpdate, StartInsert,
      StartCommit, SessionOpened, OpenSessionFails, Record, RecordFails,
      EndBegin, EndUpdate, EndInsert, EndCommit, SessionClosed,
      CloseSessionFails, Accept, Cancel, RejectFirst, RecvAuthenticate,
      RecvHeartbeat, RecvTelemetry, RecvInvalid, RecvEOF, Abort,
      Begin, Insert, Commit

\* Every UPDATE leaves the timestamps of the row with one session.
LEMMA RowOfOneSessionStep ==
  ASSUME Inductive, RowOfOneSession, [Next]_vars
  PROVE  RowOfOneSession'
<1>0. row \in [Machines -> MachineRow] /\ writes \in [Streams -> {"none", "start", "end"}]
  BY DEF Inductive, TypeOK
<1>1. ASSUME NEW s \in Streams, machine[s] \in Machines, UpdateLastSeen(s)
      PROVE  RowOfOneSession'
  BY <1>0, <1>1 DEF UpdateLastSeen, IsCurrent, RowOfOneSession, MachineRow
<1>2. ASSUME NEW s \in Streams, machine[s] \in Machines, Apply(s)
      PROVE  RowOfOneSession'
  <2>1. CASE writes[s] = "start"
    BY <1>0, <1>2, <2>1 DEF Apply, RowOfOneSession, MachineRow
  <2>2. CASE writes[s] = "end"
    <3>1. IsCurrent(s)
      BY <1>2, <2>2 DEF Inductive, DraftUpToDate, DraftFits, Committable, Apply
    <3> QED
      BY <1>0, <1>2, <2>2, <3>1 DEF Apply, RowOfOneSession, MachineRow, IsCurrent
  <2>3. CASE writes[s] = "none"
    BY <1>2, <2>3 DEF Apply, RowOfOneSession
  <2> QED
    BY <1>0, <2>1, <2>2, <2>3
<1> QED
  BY <1>1, <1>2, RowSteps DEF RowOfOneSession

\* Where a machine comes out online, a session has just started, or nothing has
\* changed about it.
LEMMA OnlineSteps ==
  ASSUME Inductive, [Next]_vars, NEW m \in Machines, row'[m].status = "online"
  PROVE  \/ \E s \in Streams :
              /\ Apply(s) /\ machine[s] = m /\ writes[s] = "start"
              /\ row'[m].lastConnectedAt = connectedAt[s]
         \/ /\ row[m].status = "online"
            /\ row'[m].lastConnectedAt = row[m].lastConnectedAt
<1>0. TypeOK
  BY DEF Inductive
<1>1. ASSUME NEW s \in Streams, machine[s] \in Machines, UpdateLastSeen(s)
      PROVE  /\ row[m].status = "online"
             /\ row'[m].lastConnectedAt = row[m].lastConnectedAt
  BY <1>0, <1>1, UpdateLastSeenEffect
<1>2. ASSUME NEW s \in Streams, machine[s] \in Machines, Apply(s),
             machine[s] # m \/ writes[s] # "start"
      PROVE  /\ row[m].status = "online"
             /\ row'[m].lastConnectedAt = row[m].lastConnectedAt
  <2>1. writes[s] \in {"none", "start", "end"}
    BY <1>0 DEF TypeOK
  <2> QED
    BY <1>0, <1>2, <2>1, ApplyEffect
<1>3. ASSUME NEW s \in Streams, machine[s] = m, Apply(s), writes[s] = "start"
      PROVE  row'[m].lastConnectedAt = connectedAt[s]
  BY <1>0, <1>3, ApplyEffect
<1> QED
  BY <1>1, <1>2, <1>3, RowSteps

\* What EndSession has taken offline, or found superseded, stays that way:
\* another session of the machine has another connection time.
LEMMA GoneOnceEndedStep ==
  ASSUME Inductive, SessionOfHandler, ~ClockMayRepeat, GoneOnceEnded, [Next]_vars
  PROVE  GoneOnceEnded'
<1> DEFINE Ended(t) == \/ session[t] = "closed"
                       \/ pc[t] \in {"endCommit", "endWait"} /\ writes[t] = "none"
<1>0. TypeOK /\ TransactionOfHandler /\ DraftOfTransaction
  BY DEF Inductive
<1> SUFFICES ASSUME NEW t \in Streams, Ended(t)', OnlineBy(t)'
             PROVE  FALSE
  BY DEF GoneOnceEnded
<1>1. Fates
  BY HandlerSteps
\* Before the step the session was ended, or its EndSession has just found out.
<1>2. \/ /\ Ended(t)
         /\ machine'[t] = machine[t] /\ connectedAt'[t] = connectedAt[t]
      \/ EndUpdate(t) /\ UNCHANGED writes
      \/ Apply(t) /\ pc[t] = "endWait" /\ writes[t] = "end"
  <2>1. CASE session'[t] = "closed"
    <3>1. SessionClosed(t) => Ended(t)
      BY <1>0 DEF SessionClosed, DraftOfTransaction, TypeOK
    <3> QED
      BY <1>1, <2>1, <3>1 DEF Fates
  <2>2. CASE pc'[t] \in {"endCommit", "endWait"} /\ writes'[t] = "none"
    <3>1. CASE Quiet
      BY <2>2, <3>1 DEF Quiet, Between, Receiving
    <3>2. ASSUME NEW s \in Streams, Transact(s), s # t
          PROVE  /\ pc'[t] = pc[t] /\ writes'[t] = writes[t]
                 /\ machine'[t] = machine[t] /\ connectedAt'[t] = connectedAt[t]
      BY <1>0, <3>2
      DEF Transact, StartBegin, StartUpdate, StartInsert, StartCommit,
          SessionOpened, EndBegin, EndUpdate, EndInsert, EndCommit,
          SessionClosed, Apply, Abort, Begin, Insert, Commit, Drop, Goto, TypeOK
    <3>3. CASE Apply(t) \/ Abort(t)
      BY <1>0, <2>2, <3>3 DEF Apply, Abort, TransactionOfHandler, TypeOK
    <3>4. CASE EndInsert(t) \/ EndCommit(t)
      BY <1>0, <2>2, <3>4
      DEF EndInsert, EndCommit, Insert, Commit, Goto, TypeOK, TransactionOfHandler
    <3>5. CASE EndUpdate(t)
      BY <1>0, <2>2, <3>5 DEF EndUpdate, TypeOK
    <3>6. CASE StartBegin(t) \/ StartUpdate(t) \/ StartInsert(t) \/ StartCommit(t)
                 \/ SessionOpened(t) \/ EndBegin(t) \/ SessionClosed(t)
      BY <1>0, <2>2, <3>6
      DEF StartBegin, StartUpdate, StartInsert, StartCommit, SessionOpened,
          EndBegin, SessionClosed, Begin, Insert, Commit, Goto, TypeOK
    <3> QED
      BY <2>2, <3>1, <3>2, <3>3, <3>4, <3>5, <3>6, Cases
      DEF Inductive, Transact
  <2> QED
    BY <2>1, <2>2
<1>3. CASE EndUpdate(t) /\ UNCHANGED writes
  <2>1. ~(IsCurrent(t) /\ row[machine[t]].status = "online")
    BY <1>0, <1>3 DEF EndUpdate, TransactionOfHandler, TypeOK
  <2> QED
    BY <1>3, <2>1 DEF EndUpdate, OnlineBy, IsCurrent
<1>4. CASE Apply(t) /\ pc[t] = "endWait" /\ writes[t] = "end"
  <2>1. machine[t] \in Machines /\ machine'[t] = machine[t]
    BY <1>4 DEF Apply, Inductive, KnownOperands
  <2> QED
    BY <1>0, <1>4, <2>1, ApplyEffect DEF OnlineBy
<1>5. CASE Ended(t) /\ machine'[t] = machine[t] /\ connectedAt'[t] = connectedAt[t]
  <2>1. machine[t] \in Machines /\ row'[machine[t]].status = "online"
        /\ row'[machine[t]].lastConnectedAt = connectedAt[t]
    BY <1>5 DEF OnlineBy, IsCurrent
  <2>2. ~OnlineBy(t)
    BY <1>5 DEF GoneOnceEnded
  <2>3. PICK s \in Streams : Apply(s) /\ writes[s] = "start" /\ connectedAt[s] = connectedAt[t]
    BY <2>1, <2>2, OnlineSteps DEF OnlineBy, IsCurrent
  <2>4. connectedAt[s] # 0
    BY <2>3 DEF Inductive, DraftUpToDate, DraftFits, Committable, Apply
  <2>5. s = t
    BY <2>3, <2>4 DEF Inductive, TimesAdvance
  <2> QED
    BY <1>5, <2>3, <2>5 DEF Apply, SessionOfHandler
<1> QED
  BY <1>2, <1>3, <1>4, <1>5

\* A machine stays held: the session that brought it online is held until it is
\* closed, and closing it has taken the machine offline.
LEMMA OnlineHasHolderStep ==
  ASSUME Inductive, SessionOfHandler, GoneOnceEnded, OnlineHasHolder, [Next]_vars
  PROVE  OnlineHasHolder'
<1>0. TypeOK /\ TransactionOfHandler /\ DraftOfTransaction
  BY DEF Inductive
<1> SUFFICES ASSUME NEW m \in Machines, row'[m].status = "online"
             PROVE  (\E s \in Streams : Holds(s, m))'
  BY DEF OnlineHasHolder
<1>1. Fates /\ SessionOfHandler'
  BY HandlerSteps
<1>2. ASSUME NEW s \in Streams, Apply(s), machine[s] = m, writes[s] = "start",
             row'[m].lastConnectedAt = connectedAt[s]
      PROVE  Holds(s, m)'
  <2>1. UNCHANGED <<pc, machine, connectedAt, session>>
    BY <1>2 DEF Apply
  <2>2. session[s] = "none" /\ pc[s] \in {"startWait", "done"}
    BY <1>0, <1>2
    DEF Apply, SessionOfHandler, TransactionOfHandler, TypeOK, Location,
        Opening, Receiving, Closing
  <2> QED
    BY <1>2, <2>1, <2>2 DEF Holds, IsCurrent
<1>3. ASSUME row[m].status = "online",
             row'[m].lastConnectedAt = row[m].lastConnectedAt
      PROVE  \E s \in Streams : Holds(s, m)'
  <2>1. PICK s \in Streams : Holds(s, m)
    BY <1>3 DEF OnlineHasHolder
  <2>2. Held(s)
    BY <2>1 DEF Holds, Held
  <2>3. ~SessionClosed(s)
    <3>1. SUFFICES ASSUME SessionClosed(s) PROVE FALSE
      OBVIOUS
    <3>2. pc[s] = "endWait" /\ writes[s] = "none"
      BY <1>0, <3>1 DEF SessionClosed, DraftOfTransaction, TypeOK
    <3> QED
      BY <1>3, <2>1, <3>2 DEF GoneOnceEnded, OnlineBy, Holds, IsCurrent
  <2>4. Held(s)' /\ machine'[s] = machine[s] /\ connectedAt'[s] = connectedAt[s]
    BY <1>1, <2>2, <2>3 DEF Fates
  <2> QED
    BY <1>1, <1>3, <2>1, <2>4
    DEF Held, Holds, IsCurrent, SessionOfHandler, Receiving, Closing
<1> QED
  BY <1>2, <1>3, OnlineSteps

----------------------------------------------------------------------------
(* The invariants                                                          *)

\* No session exists initially, and no machine is online.
LEMMA OutcomeInit == Init => Outcome
  BY DEF Init, Outcome, SessionOfHandler, RecordedSoFar, RowOfOneSession,
         GoneOnceEnded, OnlineHasHolder, Opening, Receiving, Closing

\* The invariant about sessions is kept by every step.
LEMMA OutcomeStep == Inductive /\ Outcome /\ [Next]_vars => Outcome'
  BY HandlerSteps, RowOfOneSessionStep, RecordedSoFarStep, GoneOnceEndedStep,
     OnlineHasHolderStep
  DEF Outcome

\* What becomes of sessions, for any streams, machines, faults and crashes.
THEOREM OutcomeInvariant == Spec => []Outcome
  BY OutcomeInit, OutcomeStep, InductiveInvariant, PTL DEF Spec

\* The timestamps of every row are of one session, whatever the clock.
THEOREM RowsOfOneSession == Spec => []RowOfOneSession
<1>1. Outcome => RowOfOneSession
  BY DEF Outcome
<1> QED
  BY <1>1, OutcomeInvariant, PTL

\* An agent answered OK has every sample it sent stored, whatever the clock.
THEOREM AnswerOk == Spec => []OkMeansRecorded
<1>1. Outcome => OkMeansRecorded
  BY DEF Outcome, RecordedSoFar, OkMeansRecorded
<1> QED
  BY <1>1, OutcomeInvariant, PTL

\* With a clock that advances, a machine is not online by a closed session.
THEOREM ClosedSession ==
  ASSUME ~ClockMayRepeat
  PROVE  Spec => []ClosedSessionGone
<1>1. Inductive /\ Outcome => ClosedSessionGone
  BY DEF Outcome, ClosedSessionGone, GoneOnceEnded, OnlineBy, IsCurrent,
         SessionOfHandler, RecordedSoFar, Closing
<1> QED
  BY <1>1, OutcomeInvariant, InductiveInvariant, PTL

\* With a clock that advances, an online machine has a session that is going to
\* be closed, or whose close is known to have failed.
THEOREM OnlineHeld ==
  ASSUME ~ClockMayRepeat
  PROVE  Spec => []OnlineHasHolder
<1>1. Outcome => OnlineHasHolder
  BY DEF Outcome
<1> QED
  BY <1>1, OutcomeInvariant, PTL

----------------------------------------------------------------------------
(* Waiting for a row                                                       *)

\* The two invariants together.
THEOREM BothInvariants == Spec => []Invariant
<1>1. Inductive /\ Outcome => Invariant
  BY DEF Invariant
<1> QED
  BY <1>1, InductiveInvariant, OutcomeInvariant, PTL

\* Whoever holds the row of a machine waits for nobody: the streams of any
\* number of machines cannot block each other for ever.
THEOREM HolderProceeds == Spec => []HolderNeverWaits
<1>1. Inductive => HolderNeverWaits
  <2> SUFFICES ASSUME Inductive, NEW s \in Streams, writes[s] # "none"
               PROVE  /\ ~WaitsForRow(s)
                      /\ pc[s] \notin {"idle", "first", "recv"}
                      /\ tx[s] \in {"open", "committing"}
    BY DEF HolderNeverWaits
  <2>1. tx[s] \in {"open", "committing"}
    BY DEF Inductive, DraftOfTransaction
  <2>2. pc[s] \notin {"idle", "first", "startUpdate", "endUpdate"} \cup Receiving
    BY <2>1 DEF Inductive, TransactionOfHandler
  <2> QED
    BY <2>1, <2>2 DEF WaitsForRow, Receiving
<1> QED
  BY <1>1, InductiveInvariant, PTL

\* A session is opened once and comes to one end, by closeSession or with the
\* server (the flag "closed", server.go:109-114): none ends twice, none comes back.
THEOREM SessionsOnce ==
  Spec => [][\A s \in Streams :
               session'[s] # session[s] =>
                 \/ session[s] = "none" /\ session'[s] = "open"
                 \/ session[s] = "open" /\ session'[s] \in {"closed", "error", "lost"}]_vars
<1>1. Inductive /\ Outcome /\ [Next]_vars =>
        \A s \in Streams :
          session'[s] # session[s] =>
            \/ session[s] = "none" /\ session'[s] = "open"
            \/ session[s] = "open" /\ session'[s] \in {"closed", "error", "lost"}
  <2> SUFFICES ASSUME Inductive, Outcome, [Next]_vars, NEW s \in Streams,
                      session'[s] # session[s]
               PROVE  \/ session[s] = "none" /\ session'[s] = "open"
                      \/ session[s] = "open" /\ session'[s] \in {"closed", "error", "lost"}
    OBVIOUS
  <2>0. TypeOK /\ SessionOfHandler
    BY DEF Inductive, Outcome
  <2>1. CASE SessionOpened(s)
    BY <2>0, <2>1 DEF SessionOpened, SessionOfHandler, TypeOK, Receiving, Closing
  <2>2. CASE SessionClosed(s) \/ CloseSessionFails(s)
    BY <2>0, <2>2 DEF SessionClosed, CloseSessionFails, SessionOfHandler, TypeOK,
                      Closing
  <2>3. CASE Crash
    BY <2>3 DEF Crash
\* No other step touches the session of s.
  <2>4. ASSUME NEW t \in Streams, Handle(t)
        PROVE  \/ UNCHANGED session
               \/ SessionOpened(t) \/ SessionClosed(t) \/ CloseSessionFails(t)
    BY <2>4 DEF Handle, RecvError, FindActiveIdentity, OpenSessionFails, Record,
       RecordFails, Touch, TouchFails, StartBegin, StartUpdate, StartInsert,
       StartCommit, EndBegin, EndUpdate, EndInsert, EndCommit, Begin, Insert,
       Commit, Return, ReturnAndClose
  <2>5. ASSUME NEW t \in Streams \ {s},
               SessionOpened(t) \/ SessionClosed(t) \/ CloseSessionFails(t)
        PROVE  FALSE
    BY <2>0, <2>5 DEF SessionOpened, SessionClosed, CloseSessionFails, TypeOK
  <2>6. ASSUME NEW t \in Streams, Environment(t) \/ Database(t) PROVE FALSE
    BY <2>6 DEF Environment, Database, Accept, Cancel, RejectFirst, RecvAuthenticate,
       RecvHeartbeat, RecvTelemetry, RecvInvalid, RecvEOF, Apply, Abort, Return,
       ReturnAndClose
  <2>7. CASE UNCHANGED vars \/ Terminated
    BY <2>7 DEF vars, Terminated
  <2> QED
    BY <2>1, <2>2, <2>3, <2>4, <2>5, <2>6, <2>7 DEF Next
<1> QED
  BY <1>1, InductiveInvariant, OutcomeInvariant, PTL DEF Spec

----------------------------------------------------------------------------
(* The refinement of HandlerSession                                        *)

\* Where the statements of a handler are in HandlerSession.
LEMMA Places ==
  /\ Place("idle") = "none" /\ Place("first") = "first" /\ Place("lookup") = "find"
  /\ \A l \in Opening \ {"lookup"} : Place(l) = "start"
  /\ Place("recv") = "recv" /\ Place("record") = "record" /\ Place("touch") = "touch"
  /\ \A l \in Closing : Place(l) = "close"
  /\ Place("done") = "returned"
BY DEF Place, Opening, Closing

\* A handler that goes from one statement to another makes one step or none.
LEMMA PlaceMoves ==
  ASSUME TypeOK, NEW s \in Streams, NEW l, Goto(s, l)
  PROVE  [t \in Streams |-> Place(pc[t])]'
           = [[t \in Streams |-> Place(pc[t])] EXCEPT ![s] = Place(l)]
BY DEF TypeOK, Goto

LEMMA Moves ==
  ASSUME TypeOK, NEW s \in Streams, NEW l, Goto(s, l), session' = session,
         NEW from, Place(pc[s]) = from, NEW places, Place(l) \in places
  PROVE  Handlers!Move(s, from, places)
BY PlaceMoves DEF Handlers!Move, Handlers!Step

LEMMA Stays ==
  ASSUME TypeOK, NEW s \in Streams, NEW l, Goto(s, l), session' = session,
         Place(l) = Place(pc[s])
  PROVE  UNCHANGED Handlers!vars
<1>1. [t \in Streams |-> Place(pc[t])]' = [t \in Streams |-> Place(pc[t])]
  BY DEF TypeOK, Goto
<1> QED
  BY <1>1 DEF Handlers!vars

\* A session a handler ends or opens.
LEMMA SessionMoves ==
  ASSUME TypeOK, NEW s \in Streams, NEW x \in {"open", "closed", "error"},
         session' = [session EXCEPT ![s] = x]
  PROVE  [t \in Streams |-> IF session[t] = "error" THEN "failed" ELSE session[t]]'
           = [[t \in Streams |-> IF session[t] = "error" THEN "failed" ELSE session[t]]
                EXCEPT ![s] = IF x = "error" THEN "failed" ELSE x]
BY DEF TypeOK

\* A handler of StreamUpdates does with its session what HandlerSession says,
\* with every fault of the database and every crash of the server.
THEOREM HandlerRefinement == Spec => ImplementsHandlerSession
<1> USE DEF handlerVars, txVars, databaseVars
<1>1. Init => Handlers!Init
  BY Places DEF Init, Handlers!Init
<1>2. Inductive /\ [Next]_vars => [Handlers!Next]_(Handlers!vars)
  <2> SUFFICES ASSUME Inductive, [Next]_vars
               PROVE  [Handlers!Next]_(Handlers!vars)
    OBVIOUS
  <2>0. TypeOK
    BY DEF Inductive
  <2>1. ASSUME NEW s \in Streams, Accept(s) \/ RejectFirst(s) \/ RecvAuthenticate(s)
        PROVE  Handlers!Next
    <3>1. CASE Accept(s)
      BY <2>0, <3>1, Places, Moves DEF Accept, Handlers!Next, Handlers!Accept
    <3>2. CASE RejectFirst(s)
      BY <2>0, <3>2, Places, Moves
      DEF RejectFirst, Return, Handlers!Next, Handlers!Authenticate
    <3>3. CASE RecvAuthenticate(s)
      BY <2>0, <3>3, Places, Moves
      DEF RecvAuthenticate, Handlers!Next, Handlers!Authenticate
    <3> QED
      BY <2>1, <3>1, <3>2, <3>3
  <2>2. ASSUME NEW s \in Streams, FindActiveIdentity(s)
        PROVE  Handlers!Next
    <3>1. Place(pc[s]) = "find" /\ session' = session
      BY <2>2, Places DEF FindActiveIdentity
    <3>2. Goto(s, "done") \/ Goto(s, "startBegin")
      BY <2>2 DEF FindActiveIdentity, Return
    <3> QED
      BY <2>0, <3>1, <3>2, Places, Moves DEF Opening, Handlers!Next, Handlers!Find
  <2>3. ASSUME NEW s \in Streams,
               \/ StartBegin(s) \/ StartUpdate(s) \/ StartInsert(s) \/ StartCommit(s)
               \/ EndBegin(s) \/ EndUpdate(s) \/ EndInsert(s) \/ EndCommit(s)
        PROVE  UNCHANGED Handlers!vars
    <3>1. session' = session
      BY <2>3 DEF StartBegin, StartUpdate, StartInsert, StartCommit, EndBegin,
                  EndUpdate, EndInsert, EndCommit, Begin, Insert, Commit
    <3>2. CASE StartBegin(s) \/ StartUpdate(s) \/ StartInsert(s) \/ StartCommit(s)
      <4>1. \E l \in Opening \ {"lookup"} : Goto(s, l) /\ pc[s] \in Opening \ {"lookup"}
        BY <3>2 DEF StartBegin, StartUpdate, StartInsert, StartCommit, Begin,
                    Insert, Commit, Opening
      <4> QED
        BY <2>0, <3>1, <4>1, Places, Stays
    <3>3. CASE EndBegin(s) \/ EndUpdate(s) \/ EndInsert(s) \/ EndCommit(s)
      <4>1. \E l \in Closing : Goto(s, l) /\ pc[s] \in Closing
        BY <3>3 DEF EndBegin, EndUpdate, EndInsert, EndCommit, Begin, Insert,
                    Commit, Closing
      <4> QED
        BY <2>0, <3>1, <4>1, Places, Stays
    <3> QED
      BY <2>3, <3>2, <3>3
  <2>4. ASSUME NEW s \in Streams, SessionOpened(s)
        PROVE  Handlers!Next
    <3>1. /\ Goto(s, "recv") /\ session' = [session EXCEPT ![s] = "open"]
          /\ Place(pc[s]) = "start"
      BY <2>4, Places DEF SessionOpened, Opening
    <3>2. Handlers!Step(s, "start", "recv")
      BY <2>0, <3>1, Places, PlaceMoves DEF Handlers!Step
    <3>3. Handlers!Open(s)
      BY <2>0, <3>1, <3>2, SessionMoves DEF Handlers!Open
    <3> QED
      BY <3>3 DEF Handlers!Next
  <2>5. ASSUME NEW s \in Streams, OpenSessionFails(s)
        PROVE  Handlers!Next
    <3>1. Goto(s, "done") /\ session' = session /\ pc[s] \in Opening
      BY <2>5 DEF OpenSessionFails, Return
    <3>2. CASE pc[s] = "lookup"
      BY <2>0, <3>1, <3>2, Places, Moves DEF Handlers!Next, Handlers!Find
    <3>3. CASE pc[s] # "lookup"
      BY <2>0, <3>1, <3>3, Places, Moves DEF Handlers!Next, Handlers!OpenFails
    <3> QED
      BY <3>2, <3>3
  <2>6. ASSUME NEW s \in Streams,
               \/ RecvHeartbeat(s) \/ RecvTelemetry(s) \/ RecvInvalid(s)
               \/ RecvEOF(s) \/ RecvError(s)
        PROVE  Handlers!Next
    <3>1. CASE pc[s] = "first"
      <4>1. Goto(s, "done") /\ session' = session
        BY <2>6, <3>1 DEF RecvHeartbeat, RecvTelemetry, RecvInvalid, RecvEOF,
                          RecvError, Return
      <4> QED
        BY <2>0, <3>1, <4>1, Places, Moves DEF Handlers!Next, Handlers!Authenticate
    <3>2. CASE pc[s] # "first"
      <4>1. /\ pc[s] = "recv" /\ session' = session
            /\ \E l \in {"touch", "record", "endBegin"} : Goto(s, l)
        BY <2>6, <3>2 DEF RecvHeartbeat, RecvTelemetry, RecvInvalid, RecvEOF,
                          RecvError, ReturnAndClose
      <4> QED
        BY <2>0, <4>1, Places, Moves DEF Closing, Handlers!Next, Handlers!Receive
    <3> QED
      BY <3>1, <3>2
  <2>7. ASSUME NEW s \in Streams, Record(s) \/ RecordFails(s)
        PROVE  Handlers!Next
    <3>1. /\ pc[s] = "record" /\ session' = session
          /\ \E l \in {"touch", "endBegin"} : Goto(s, l)
      BY <2>7 DEF Record, RecordFails, ReturnAndClose
    <3> QED
      BY <2>0, <3>1, Places, Moves DEF Closing, Handlers!Next, Handlers!Record
  <2>8. ASSUME NEW s \in Streams, Touch(s) \/ TouchFails(s)
        PROVE  Handlers!Next
    <3>1. /\ pc[s] = "touch" /\ session' = session
          /\ \E l \in {"recv", "endBegin"} : Goto(s, l)
      BY <2>8 DEF Touch, TouchFails, ReturnAndClose
    <3> QED
      BY <2>0, <3>1, Places, Moves DEF Closing, Handlers!Next, Handlers!Touch
  <2>9. ASSUME NEW s \in Streams, SessionClosed(s) \/ CloseSessionFails(s)
        PROVE  Handlers!Next
    <3>1. Goto(s, "done") /\ Place(pc[s]) = "close"
      BY <2>9, Places DEF SessionClosed, CloseSessionFails, Closing
    <3>2. PICK x \in {"closed", "error"} : session' = [session EXCEPT ![s] = x]
      BY <2>9 DEF SessionClosed, CloseSessionFails
    <3>3. Handlers!Step(s, "close", "returned")
      BY <2>0, <3>1, Places, PlaceMoves DEF Handlers!Step
    <3>4. Handlers!Close(s)
      BY <2>0, <3>2, <3>3, SessionMoves DEF Handlers!Close
    <3> QED
      BY <3>4 DEF Handlers!Next
  <2>10. ASSUME NEW s \in Streams, Cancel(s) \/ Apply(s) \/ Abort(s)
         PROVE  UNCHANGED Handlers!vars
    <3>1. UNCHANGED <<pc, session>>
      BY <2>10 DEF Cancel, Apply, Abort
    <3> QED
      BY <3>1 DEF Handlers!vars
  <2>11. CASE Crash
    <3>1. \A s \in Streams : pc[s] \in Location
      BY <2>0 DEF TypeOK
    <3>2. \A s \in Streams :
            Place(pc'[s]) = IF Place(pc[s]) = "none" THEN "none" ELSE "returned"
      BY <2>11, <3>1, Places DEF Crash, Active, Location, Opening, Receiving, Closing
    <3>3. \A s \in Streams :
            session'[s] = IF session[s] = "open" THEN "lost" ELSE session[s]
      BY <2>11 DEF Crash
    <3>4. ServerMayCrash
      BY <2>11 DEF Crash
    <3> QED
      BY <3>2, <3>3, <3>4 DEF Handlers!Next, Handlers!Kill
  <2>12. CASE UNCHANGED vars \/ Terminated
    BY <2>12 DEF vars, Terminated, Handlers!vars
  <2> QED
    BY <2>1, <2>2, <2>3, <2>4, <2>5, <2>6, <2>7, <2>8, <2>9, <2>10, <2>11, <2>12
    DEF Next, Handle, Environment, Database
<1> QED
  BY <1>1, <1>2, InductiveInvariant, PTL
  DEF Spec, ImplementsHandlerSession, Handlers!Spec

=============================================================================
