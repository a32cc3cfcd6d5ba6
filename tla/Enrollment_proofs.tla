-------------------------- MODULE Enrollment_proofs --------------------------
(***************************************************************************)
(* Proofs about Enrollment, for any set of starts and hosts and all the    *)
(* failures they can meet.                                                 *)
(*                                                                         *)
(* Inductive is shown to be kept by every step, one conjunct at a time.    *)
(* Lemma Cases sorts the steps by what they touch: the server and the      *)
(* database touch nothing of the hosts, an agent touches its own memory    *)
(* and its own disk, and only Rename, Flush and PowerLoss touch a disk's   *)
(* identity.json.                                                          *)
(***************************************************************************)
EXTENDS Enrollment, TLAPS

USE DEF agentVars, diskVars, serverVars, databaseVars

\* A step of the server or of the database, for the call of start r.
ServerSide(r) == Server(r) \/ Database(r)

\* A step of agent r that leaves every disk's identity.json as it is.
AgentSide(r) ==
  \/ Load(r) \/ Request(r) \/ Response(r) \/ Refused(r)
  \/ Check(r) \/ Write(r) \/ Sync(r) \/ Stop(r)

\* Every step is one of these.
LEMMA Cases ==
  ASSUME [Next]_vars
  PROVE  \/ \E r \in Starts : ServerSide(r) \/ AgentSide(r) \/ Rename(r)
         \/ \E h \in Hosts : Flush(h) \/ PowerLoss(h)
         \/ \E r \in Starts, h \in Hosts : Start(r, h)
         \/ UNCHANGED vars
BY DEF Next, Agent, Host, Terminated, ServerSide, AgentSide

\* What the server and the database leave alone.
LEMMA ServerSideLeaves ==
  ASSUME NEW r \in Starts, ServerSide(r)
  PROVE  UNCHANGED <<agentVars, diskVars>>
BY DEF ServerSide, Server, Database, BeginEnroll, InsertMachine, InsertIdentity,
       CommitEnroll, Reply, EnrollFails, Apply, Abort

\* What an agent can do without touching identity.json: it changes nothing of
\* the others, nothing in the database, and it keeps to the order of run.
LEMMA AgentSideLeaves ==
  ASSUME TypeOK, NEW r \in Starts, AgentSide(r)
  PROVE  /\ UNCHANGED <<home, visible, durable, tx, inserted, databaseVars>>
         /\ pc[r] \in Running
         /\ pc' = [pc EXCEPT ![r] = pc'[r]]
         /\ identity' = [identity EXCEPT ![r] = identity'[r]]
         /\ synced' = synced \/ (pc[r] = "sync" /\ synced' = synced \cup {identity[r]})
         /\ pc'[r] \in Location \ {"idle"}
         /\ call' = call \/ (pc[r] = "enroll" /\ call' = [call EXCEPT ![r] = "received"])
         /\ identity'[r] \in {identity[r], visible[home[r]], r, NoIdentity}
<1> USE DEF Running, Saving, Location, Goto, Serve, TypeOK
<1>1. CASE Load(r)
  BY <1>1 DEF Load
<1>2. CASE Request(r)
  BY <1>2 DEF Request
<1>3. CASE Response(r)
  BY <1>3 DEF Response
<1>4. CASE Refused(r)
  BY <1>4 DEF Refused
<1>5. CASE Check(r)
  BY <1>5 DEF Check
<1>6. CASE Write(r)
  BY <1>6 DEF Write
<1>7. CASE Sync(r)
  BY <1>7 DEF Sync
<1>8. CASE Stop(r)
  BY <1>8 DEF Stop
<1> QED
  BY <1>1, <1>2, <1>3, <1>4, <1>5, <1>6, <1>7, <1>8 DEF AgentSide

----------------------------------------------------------------------------
(* Types                                                                   *)

LEMMA TypeStep ==
  ASSUME ConstantAssumption, Inductive, [Next]_vars
  PROVE  TypeOK'
<1> USE DEF Inductive, Location, Running, Saving, Call, Serving, Goto, Serve
<1>1. ASSUME NEW r \in Starts, ServerSide(r) PROVE TypeOK'
  <2> USE DEF TypeOK
  <2>1. UNCHANGED <<agentVars, diskVars>>
    BY <1>1, ServerSideLeaves
  <2>2. CASE BeginEnroll(r) \/ InsertMachine(r) \/ InsertIdentity(r)
    BY <2>1, <2>2 DEF BeginEnroll, InsertMachine, InsertIdentity
  <2>3. CASE CommitEnroll(r) \/ Reply(r) \/ EnrollFails(r)
    BY <2>1, <2>3 DEF CommitEnroll, Reply, EnrollFails
  <2>4. CASE Apply(r) \/ Abort(r)
    BY <2>1, <2>4 DEF Apply, Abort
  <2> QED
    BY <1>1, <2>2, <2>3, <2>4 DEF ServerSide, Server, Database
<1>2. ASSUME NEW r \in Starts, AgentSide(r) PROVE TypeOK'
  <2>1. visible[home[r]] \in Starts \cup {NoIdentity}
    BY <1>2, AgentSideLeaves DEF TypeOK, HomeAndIdentity, NeverTorn
  <2> QED
    BY <1>2, <2>1, AgentSideLeaves DEF TypeOK, HomeAndIdentity
<1>3. ASSUME NEW r \in Starts, Rename(r) PROVE TypeOK'
  BY <1>3 DEF TypeOK, Rename, HomeAndIdentity
<1>4. ASSUME NEW h \in Hosts, Flush(h) PROVE TypeOK'
  BY <1>4 DEF TypeOK, Flush
<1>5. ASSUME NEW h \in Hosts, PowerLoss(h) PROVE TypeOK'
  BY <1>5 DEF TypeOK, PowerLoss, Remains
<1>6. ASSUME NEW r \in Starts, NEW h \in Hosts, Start(r, h) PROVE TypeOK'
  BY <1>6 DEF TypeOK, Start
<1>7. CASE UNCHANGED vars
  BY <1>7 DEF TypeOK, vars
<1> QED
  BY <1>1, <1>2, <1>3, <1>4, <1>5, <1>6, <1>7, Cases

----------------------------------------------------------------------------
(* The server's transactions and the rows they leave                       *)

LEMMA TransactionStep ==
  ASSUME Inductive, [Next]_vars
  PROVE  TransactionOfCall'
<1> USE DEF Inductive, TransactionOfCall
<1>1. ASSUME NEW r \in Starts, ServerSide(r) PROVE TransactionOfCall'
  <2> USE DEF TypeOK, Serve, Tables
  <2>1. UNCHANGED pc
    BY <1>1, ServerSideLeaves
  <2>2. CASE BeginEnroll(r)
    BY <2>1, <2>2 DEF BeginEnroll
  <2>3. CASE InsertMachine(r)
    BY <2>1, <2>3 DEF InsertMachine
  <2>4. CASE InsertIdentity(r)
    BY <2>1, <2>4 DEF InsertIdentity
  <2>5. CASE CommitEnroll(r)
    BY <2>1, <2>5 DEF CommitEnroll
  <2>6. CASE Reply(r)
    BY <2>1, <2>6 DEF Reply
  <2>7. CASE EnrollFails(r)
    BY <2>1, <2>7 DEF EnrollFails, Serving
  <2>8. CASE Apply(r)
    BY <2>1, <2>8 DEF Apply
  <2>9. CASE Abort(r)
    BY <2>1, <2>9 DEF Abort
  <2> QED
    BY <1>1, <2>2, <2>3, <2>4, <2>5, <2>6, <2>7, <2>8, <2>9
       DEF ServerSide, Server, Database
\* An agent is heard of by the server when it calls, and calls once.
<1>2. ASSUME NEW r \in Starts, AgentSide(r) PROVE TransactionOfCall'
  <2> USE DEF TypeOK, Goto, Serve
  <2>1. CASE Request(r)
    BY <2>1 DEF Request
  <2>2. CASE Load(r)
    BY <2>2 DEF Load
  <2>3. CASE Response(r) \/ Refused(r) \/ Check(r)
    BY <2>3 DEF Response, Refused, Check
  <2>4. CASE Write(r) \/ Sync(r) \/ Stop(r)
    BY <2>4 DEF Write, Sync, Stop
  <2> QED
    BY <1>2, <2>1, <2>2, <2>3, <2>4 DEF AgentSide
<1>3. ASSUME NEW r \in Starts, Rename(r) PROVE TransactionOfCall'
  BY <1>3 DEF TypeOK, Rename, Goto
<1>4. ASSUME NEW h \in Hosts, Flush(h) \/ PowerLoss(h) PROVE TransactionOfCall'
  BY <1>4 DEF Flush, PowerLoss
<1>5. ASSUME NEW r \in Starts, NEW h \in Hosts, Start(r, h) PROVE TransactionOfCall'
  BY <1>5 DEF TypeOK, Start, Goto
<1>6. CASE UNCHANGED vars
  BY <1>6 DEF vars
<1> QED
  BY <1>1, <1>2, <1>3, <1>4, <1>5, <1>6, Cases

\* Only Apply commits rows, and it commits both.
LEMMA RowsStep ==
  ASSUME Inductive, [Next]_vars
  PROVE  RowsCommitted' /\ Enrolled \subseteq Enrolled'
<1> USE DEF Inductive, RowsCommitted, Enrolled
<1>1. ASSUME NEW r \in Starts, Apply(r)
      PROVE  RowsCommitted' /\ Enrolled \subseteq Enrolled'
  <2>1. inserted[r] = {"machines", "agent_identities"}
    BY <1>1 DEF Apply, TransactionOfCall, Tables
  <2>2. machines' = machines \cup {r} /\ agentIdentities' = agentIdentities \cup {r}
    BY <1>1, <2>1 DEF Apply
  <2> QED
    BY <1>1, <2>2 DEF Apply, TypeOK
<1>2. ASSUME NEW r \in Starts, Server(r) \/ Abort(r)
      PROVE  RowsCommitted' /\ Enrolled \subseteq Enrolled'
  <2>1. UNCHANGED databaseVars
    BY <1>2 DEF Server, BeginEnroll, InsertMachine, InsertIdentity,
                CommitEnroll, Reply, EnrollFails, Abort
  <2>2. \A q \in Starts : tx'[q] = "committed" <=> tx[q] = "committed"
    BY <1>2 DEF TypeOK, TransactionOfCall, Server, BeginEnroll, InsertMachine,
                InsertIdentity, CommitEnroll, Reply, EnrollFails, Abort
  <2> QED
    BY <2>1, <2>2
<1>3. ASSUME NEW r \in Starts, AgentSide(r) \/ Rename(r)
      PROVE  UNCHANGED <<tx, databaseVars>>
  BY <1>3, AgentSideLeaves DEF Rename
<1>4. ASSUME NEW h \in Hosts,
             \/ Flush(h) \/ PowerLoss(h) \/ \E r \in Starts : Start(r, h)
      PROVE  UNCHANGED <<tx, databaseVars>>
  BY <1>4 DEF Flush, PowerLoss, Start
<1>5. CASE UNCHANGED <<tx, databaseVars>>
  BY <1>5
<1>6. UNCHANGED vars => UNCHANGED <<tx, databaseVars>>
  BY DEF vars
<1> QED
  BY <1>1, <1>2, <1>3, <1>4, <1>5, <1>6, Cases DEF ServerSide, Database

----------------------------------------------------------------------------
(* What agents and disks hold                                              *)

LEMMA HomeStep ==
  ASSUME ConstantAssumption, Inductive, [Next]_vars
  PROVE  HomeAndIdentity'
<1> USE DEF Inductive, HomeAndIdentity, Running, Saving
<1>1. ASSUME NEW r \in Starts, ServerSide(r) PROVE HomeAndIdentity'
  BY <1>1, ServerSideLeaves
<1>2. ASSUME NEW r \in Starts, AgentSide(r) PROVE HomeAndIdentity'
  <2> USE DEF TypeOK, Goto
  <2>1. CASE Load(r) \/ Request(r) \/ Response(r)
    BY <2>1 DEF Load, Request, Response
  <2>2. CASE Refused(r) \/ Check(r)
    BY <2>2 DEF Refused, Check
  <2>3. CASE Write(r) \/ Sync(r) \/ Stop(r)
    BY <2>3 DEF Write, Sync, Stop
  <2> QED
    BY <1>2, <2>1, <2>2, <2>3 DEF AgentSide
<1>3. ASSUME NEW r \in Starts, Rename(r) PROVE HomeAndIdentity'
  BY <1>3 DEF TypeOK, Rename, Goto
<1>4. ASSUME NEW h \in Hosts, Flush(h) \/ PowerLoss(h) PROVE HomeAndIdentity'
  BY <1>4 DEF Flush, PowerLoss
<1>5. ASSUME NEW r \in Starts, NEW h \in Hosts, Start(r, h) PROVE HomeAndIdentity'
  BY <1>5 DEF TypeOK, Start, Goto
<1>6. CASE UNCHANGED vars
  BY <1>6 DEF vars
<1> QED
  BY <1>1, <1>2, <1>3, <1>4, <1>5, <1>6, Cases

\* An agent gets an identity from a response, which comes after the commit, or
\* from its disk, where Rename puts one that the agent held.
LEMMA BackedStep ==
  ASSUME ConstantAssumption, Inductive, [Next]_vars
  PROVE  IdentityBacked'
<1> USE DEF Inductive, IdentityBacked
<1>0. Enrolled \subseteq Enrolled'
  BY RowsStep
<1>1. ASSUME NEW r \in Starts, ServerSide(r) PROVE IdentityBacked'
  BY <1>0, <1>1, ServerSideLeaves
<1>2. ASSUME NEW r \in Starts, AgentSide(r) PROVE IdentityBacked'
  <2> USE DEF TypeOK, Goto
  <2>1. CASE Response(r)
    <3>1. r \in Enrolled
      BY <2>1 DEF Response, TransactionOfCall, RowsCommitted, Enrolled
    <3> QED
      BY <1>0, <2>1, <3>1 DEF Response
  <2>2. CASE Load(r)
    BY <1>0, <2>2 DEF Load, HomeAndIdentity, Running
  <2>3. CASE Request(r) \/ Refused(r) \/ Write(r) \/ Sync(r)
    BY <1>0, <2>3 DEF Request, Refused, Write, Sync
  <2>4. CASE Check(r) \/ Stop(r)
    BY <1>0, <2>4 DEF Check, Stop
  <2> QED
    BY <1>2, <2>1, <2>2, <2>3, <2>4 DEF AgentSide
<1>3. ASSUME NEW r \in Starts, Rename(r) PROVE IdentityBacked'
  <2>1. identity[r] = r /\ r \in Enrolled
    BY <1>3 DEF Rename, HomeAndIdentity, Saving, ConstantAssumption
  <2> QED
    BY <1>0, <1>3, <2>1 DEF TypeOK, Rename, Goto
<1>4. ASSUME NEW h \in Hosts, Flush(h) PROVE IdentityBacked'
  BY <1>0, <1>4 DEF TypeOK, Flush
<1>5. ASSUME NEW h \in Hosts, PowerLoss(h) PROVE IdentityBacked'
  BY <1>0, <1>5 DEF TypeOK, PowerLoss, Remains, ConstantAssumption
<1>6. ASSUME NEW r \in Starts, NEW h \in Hosts, Start(r, h) PROVE IdentityBacked'
  BY <1>0, <1>6 DEF Start
<1>7. CASE UNCHANGED vars
  BY <1>0, <1>7 DEF vars
<1> QED
  BY <1>1, <1>2, <1>3, <1>4, <1>5, <1>6, <1>7, Cases

\* A start whose identity is on some disk has happened.
LEMMA OnDiskNotIdle ==
  ASSUME Inductive, NEW h \in Hosts, NEW e \in OnDisk(h)
  PROVE  e \in Starts /\ pc[e] # "idle"
BY DEF Inductive, OnDisk, IdentityBacked, Enrolled, RowsCommitted, TransactionOfCall

\* A name never gets to a disk before its contents.
LEMMA DiskStep ==
  ASSUME ConstantAssumption, Inductive, [Next]_vars
  PROVE  NeverTorn' /\ DiskComplete'
<1> USE DEF Inductive, NeverTorn, DiskComplete, OnDisk
<1>1. ASSUME NEW r \in Starts, ServerSide(r) PROVE NeverTorn' /\ DiskComplete'
  BY <1>1, ServerSideLeaves
<1>2. ASSUME NEW r \in Starts, AgentSide(r) PROVE NeverTorn' /\ DiskComplete'
  <2>1. UNCHANGED <<home, visible, durable>> /\ synced \subseteq synced'
    BY <1>2, AgentSideLeaves
  <2>2. ASSUME NEW q \in Starts, pc'[q] = "rename" PROVE q \in synced'
    <3>1. CASE Sync(r)
      BY <2>2, <3>1 DEF Sync, TypeOK, Goto, HomeAndIdentity, Saving
    <3>2. CASE ~Sync(r)
      <4>1. pc'[q] = pc[q]
        BY <1>2, <2>2, <3>2 DEF AgentSide, TypeOK, Goto, Load, Request, Response,
                                Refused, Check, Write, Stop
      <4> QED
        BY <2>1, <2>2, <4>1
    <3> QED
      BY <3>1, <3>2
  <2> QED
    BY <2>1, <2>2
<1>3. ASSUME NEW r \in Starts, Rename(r) PROVE NeverTorn' /\ DiskComplete'
  <2>1. identity[r] = r /\ r \in synced
    BY <1>3 DEF Rename, HomeAndIdentity, Saving
  <2> QED
    BY <1>3, <2>1 DEF TypeOK, Rename, Goto, ConstantAssumption
<1>4. ASSUME NEW h \in Hosts, Flush(h) PROVE NeverTorn' /\ DiskComplete'
  BY <1>4 DEF TypeOK, Flush
<1>5. ASSUME NEW h \in Hosts, PowerLoss(h) PROVE NeverTorn' /\ DiskComplete'
  <2>1. Remains(visible[h]) = {visible[h]} /\ Remains(durable[h]) = {durable[h]}
    BY DEF Remains
  <2> QED
    BY <1>5, <2>1 DEF TypeOK, PowerLoss
<1>6. ASSUME NEW r \in Starts, NEW h \in Hosts, Start(r, h)
      PROVE  NeverTorn' /\ DiskComplete'
  <2>1. \A g \in Hosts : \A e \in OnDisk(g) : e # r
    BY <1>6, OnDiskNotIdle DEF Start
  <2> QED
    BY <1>6, <2>1 DEF TypeOK, Start, Goto
<1>7. CASE UNCHANGED vars
  BY <1>7 DEF vars
<1> QED
  BY <1>1, <1>2, <1>3, <1>4, <1>5, <1>6, <1>7, Cases

----------------------------------------------------------------------------
(* One agent at a time                                                     *)

\* What save_new found free stays free, because nobody else is there to take
\* it; and a flush finds nothing of an earlier identity on the disk.
LEMMA AloneStep ==
  ASSUME ConstantAssumption, Inductive, [Next]_vars
  PROVE  Alone'
<1> SUFFICES ASSUME ~Overlap
             PROVE  Alone'
  BY DEF Alone
<1> USE DEF Inductive, Alone, ReadyIsSaved
<1>1. ASSUME NEW r \in Starts, ServerSide(r) PROVE Alone'
  BY <1>1, ServerSideLeaves
<1>2. ASSUME NEW r \in Starts, AgentSide(r) PROVE Alone'
  <2>1. /\ UNCHANGED <<home, visible, durable>>
        /\ \A q \in Starts : pc'[q] \in Running => pc[q] \in Running
        /\ \A q \in Starts : q # r => pc'[q] = pc[q] /\ identity'[q] = identity[q]
    BY <1>2, AgentSideLeaves DEF TypeOK
  <2>2. pc'[r] \in {"write", "sync", "rename"} => visible[home[r]] = NoIdentity
    BY <1>2 DEF AgentSide, TypeOK, Goto, Load, Request, Response, Refused, Check,
                Write, Sync, Stop
  <2>3. pc'[r] = "ready" => visible[home[r]] = identity'[r]
    BY <1>2 DEF AgentSide, TypeOK, Goto, Load, Request, Response, Refused, Check,
                Write, Sync, Stop
  <2> QED
    BY <2>1, <2>2, <2>3
<1>3. ASSUME NEW r \in Starts, Rename(r) PROVE Alone'
  <2>1. /\ home[r] \in Hosts
        /\ visible[home[r]] = NoIdentity
        /\ \A q \in Starts : pc[q] \in Running /\ home[q] = home[r] => q = r
    BY <1>3 DEF Rename, HomeAndIdentity, Running, Saving
  <2>2. /\ pc' = [pc EXCEPT ![r] = "ready"]
        /\ visible' = [visible EXCEPT ![home[r]] = identity[r]]
        /\ UNCHANGED <<home, identity, durable>>
    BY <1>3 DEF Rename, Goto
  <2>3. pc[r] \in Running /\ \A q \in Starts : pc'[q] \in Running => pc[q] \in Running
    BY <1>3, <2>2 DEF TypeOK, Rename, Running, Saving
  <2>4. \A q \in Starts : pc'[q] \in {"ready", "write", "sync", "rename"}
                            => pc[q] \in Running
    BY <2>2, <2>3 DEF TypeOK, Running, Saving
  <2> QED
    BY <2>1, <2>2, <2>3, <2>4 DEF TypeOK
<1>4. ASSUME NEW h \in Hosts, Flush(h) PROVE Alone'
  BY <1>4 DEF TypeOK, Flush
<1>5. ASSUME NEW h \in Hosts, PowerLoss(h) PROVE Alone'
  <2>1. \A q \in Starts : pc'[q] \in Running => pc'[q] = pc[q] /\ home[q] # h
    BY <1>5 DEF PowerLoss, Running, Saving
  <2>2. \A q \in Starts : home[q] # h => identity'[q] = identity[q]
    BY <1>5 DEF PowerLoss
  <2>3. /\ home' = home
        /\ visible'[h] = durable'[h]
        /\ \A g \in Hosts \ {h} : visible'[g] = visible[g] /\ durable'[g] = durable[g]
    BY <1>5 DEF PowerLoss, TypeOK
  <2> QED
    BY <2>1, <2>2, <2>3 DEF Running, Saving, HomeAndIdentity
<1>6. ASSUME NEW r \in Starts, NEW h \in Hosts, Start(r, h) PROVE Alone'
  <2>1. \A q \in Starts : home[q] = h => pc[q] \notin Running
    BY <1>6 DEF Start
  <2> QED
    BY <1>6, <2>1 DEF TypeOK, Start, Goto
<1>7. CASE UNCHANGED vars
  BY <1>7 DEF vars
<1> QED
  BY <1>1, <1>2, <1>3, <1>4, <1>5, <1>6, <1>7, Cases

----------------------------------------------------------------------------
(* The theorems                                                            *)

LEMMA InductiveInit ==
  ASSUME ConstantAssumption, Init
  PROVE  Inductive
<1> USE DEF Init
<1>1. TypeOK
  BY DEF TypeOK, Location, Call
<1>2. TransactionOfCall /\ RowsCommitted
  BY DEF TransactionOfCall, RowsCommitted
<1>3. HomeAndIdentity /\ Alone
  BY DEF HomeAndIdentity, Alone, ReadyIsSaved, Running, Saving
<1>4. IdentityBacked /\ NeverTorn /\ DiskComplete
  BY DEF IdentityBacked, NeverTorn, DiskComplete, OnDisk, ConstantAssumption
<1> QED
  BY <1>1, <1>2, <1>3, <1>4 DEF Inductive

\* The strengthened invariant, wherever agents, hosts and server stop.
THEOREM InductiveInvariant == Spec => []Inductive
<1>1. Init => Inductive
  BY InductiveInit, ConstantAssumption
<1>2. Inductive /\ [Next]_vars => Inductive'
  <2> SUFFICES ASSUME Inductive, [Next]_vars
               PROVE  Inductive'
    OBVIOUS
  <2> QED
    BY ConstantAssumption, TypeStep, TransactionStep, RowsStep, HomeStep,
       BackedStep, DiskStep, AloneStep DEF Inductive
<1> QED
  BY <1>1, <1>2, PTL DEF Spec

\* Every variable keeps to its type.
THEOREM TypeCorrect == Spec => []TypeOK
<1>1. Inductive => TypeOK
  BY DEF Inductive
<1> QED
  BY <1>1, InductiveInvariant, PTL

\* An identity that an agent holds or a disk will give back is committed on the
\* server, with two agents on one state directory too.
THEOREM Backed == Spec => []IdentityBacked
<1>1. Inductive => IdentityBacked
  BY DEF Inductive
<1> QED
  BY <1>1, InductiveInvariant, PTL

\* Enroll leaves both of its rows or none.
THEOREM Together == Spec => []EnrolledTogether
<1>1. Inductive => EnrolledTogether
  BY DEF Inductive, RowsCommitted, EnrolledTogether
<1> QED
  BY <1>1, InductiveInvariant, PTL

\* No loss of power leaves an identity file that cannot be parsed.
THEOREM Untorn == Spec => []NeverTorn
<1>1. Inductive => NeverTorn
  BY DEF Inductive
<1> QED
  BY <1>1, InductiveInvariant, PTL

\* With one agent at a time on a state directory, an agent that is ready has
\* its identity where the next start looks for it.
THEOREM Saved ==
  ASSUME ~Overlap
  PROVE  Spec => []ReadyIsSaved
<1>1. Inductive => ReadyIsSaved
  BY DEF Inductive, Alone
<1> QED
  BY <1>1, InductiveInvariant, PTL

----------------------------------------------------------------------------
(* The refinement                                                          *)

\* With one agent at a time on a state directory, enrollment implements
\* HostIdentity.tla: Apply registers, Rename adopts, PowerLoss may forget.
THEOREM Implementation ==
  ASSUME ~Overlap
  PROVE  Spec => ImplementsHostIdentity
<1>1. Init => Promise!Init
  BY DEF Init, Promise!Init
<1>2. Inductive /\ [Next]_vars => [Promise!Next]_(Promise!vars)
  <2> SUFFICES ASSUME Inductive, [Next]_vars
               PROVE  [Promise!Next]_(Promise!vars)
    OBVIOUS
  <2> USE DEF Inductive
  <2>1. ASSUME NEW r \in Starts, Apply(r) PROVE [Promise!Next]_(Promise!vars)
    <3>1. agentIdentities' \in {agentIdentities, agentIdentities \cup {r}}
      BY <2>1 DEF Apply
    <3>2. UNCHANGED visible
      BY <2>1 DEF Apply
    <3> QED
      BY <3>1, <3>2 DEF Promise!Next, Promise!Register, Promise!vars
  <2>2. ASSUME NEW r \in Starts, Server(r) \/ Abort(r) PROVE UNCHANGED Promise!vars
    BY <2>2 DEF Server, BeginEnroll, InsertMachine, InsertIdentity, CommitEnroll,
                Reply, EnrollFails, Abort, Promise!vars
  <2>3. ASSUME NEW r \in Starts, AgentSide(r) PROVE UNCHANGED Promise!vars
    BY <2>3, AgentSideLeaves DEF Promise!vars
  <2>4. ASSUME NEW r \in Starts, Rename(r) PROVE Promise!Next
    <3>1. /\ home[r] \in Hosts
          /\ identity[r] = r
          /\ r \in agentIdentities
          /\ visible[home[r]] = NoIdentity
      BY <2>4, ConstantAssumption
      DEF Rename, HomeAndIdentity, Running, Saving, IdentityBacked, Enrolled,
          Alone, ConstantAssumption
    <3>2. \A g \in Hosts : visible[g] # r
      BY <3>1, ConstantAssumption DEF DiskComplete, OnDisk, ConstantAssumption
    <3>3. Promise!Adopt(home[r], r)
      BY <2>4, <3>1, <3>2 DEF Rename, Promise!Adopt
    <3> QED
      BY <3>1, <3>3 DEF Promise!Next
  <2>5. ASSUME NEW h \in Hosts, PowerLoss(h) PROVE [Promise!Next]_(Promise!vars)
    <3>1. Remains(visible[h]) = {visible[h]} /\ Remains(durable[h]) = {durable[h]}
      BY DEF Remains, DiskComplete, OnDisk
    <3>2. /\ PowerMayFail
          /\ \E c \in {visible[h], NoIdentity} : visible' = [visible EXCEPT ![h] = c]
          /\ UNCHANGED agentIdentities
      BY <2>5, <3>1 DEF PowerLoss, Alone
    <3>3. CASE visible' = [visible EXCEPT ![h] = NoIdentity]
      BY <3>2, <3>3 DEF Promise!Next, Promise!Forget
    <3>4. CASE visible' = [visible EXCEPT ![h] = visible[h]]
      BY <3>2, <3>4 DEF TypeOK, Promise!vars
    <3> QED
      BY <3>2, <3>3, <3>4
  <2>6. ASSUME NEW h \in Hosts, Flush(h) \/ \E r \in Starts : Start(r, h)
        PROVE  UNCHANGED Promise!vars
    BY <2>6 DEF Flush, Start, Promise!vars
  <2>7. CASE UNCHANGED vars
    BY <2>7 DEF vars, Promise!vars
  <2> QED
    BY <2>1, <2>2, <2>3, <2>4, <2>5, <2>6, <2>7, Cases DEF ServerSide, Database
<1> QED
  BY <1>1, <1>2, InductiveInvariant, PTL
  DEF Spec, ImplementsHostIdentity, Promise!Spec

----------------------------------------------------------------------------
(* What an identity on a disk is safe from                                 *)

\* A step replaces no identity of a host; only the loss of power takes one away.
LEMMA KeptOrLost ==
  ASSUME Inductive, [Next]_vars, ~Overlap, NEW h \in Hosts, visible[h] \in Starts
  PROVE  visible'[h] = visible[h] \/ (PowerMayFail /\ visible'[h] = NoIdentity)
<1> USE DEF Inductive
<1>1. ASSUME NEW r \in Starts, ServerSide(r) \/ AgentSide(r)
      PROVE  UNCHANGED visible
  BY <1>1, ServerSideLeaves, AgentSideLeaves
\* The place that Rename takes has been free since Check.
<1>2. ASSUME NEW r \in Starts, Rename(r) PROVE visible'[h] = visible[h]
  <2>1. visible[home[r]] = NoIdentity
    BY <1>2 DEF Rename, Alone
  <2>2. home[r] # h
    BY <2>1, ConstantAssumption DEF ConstantAssumption
  <2> QED
    BY <1>2, <2>2 DEF TypeOK, Rename
<1>3. ASSUME NEW g \in Hosts, PowerLoss(g)
      PROVE  visible'[h] = visible[h] \/ (PowerMayFail /\ visible'[h] = NoIdentity)
  <2>1. Remains(visible[g]) = {visible[g]} /\ Remains(durable[g]) = {durable[g]}
    BY DEF Remains, DiskComplete, OnDisk
  <2>2. durable[g] \in {NoIdentity, visible[g]}
    BY DEF Alone
  <2> QED
    BY <1>3, <2>1, <2>2 DEF PowerLoss, TypeOK
<1>4. ASSUME NEW g \in Hosts, Flush(g) \/ \E r \in Starts : Start(r, g)
      PROVE  UNCHANGED visible
  BY <1>4 DEF Flush, Start
<1>5. UNCHANGED vars => UNCHANGED visible
  BY DEF vars
<1> QED
  BY <1>1, <1>2, <1>3, <1>4, <1>5, Cases

\* With one agent at a time on a state directory, which identity.rs does not
\* ensure, an identity is kept, or lost with the power, and never replaced.
THEOREM NeverReplaced ==
  ASSUME ~Overlap
  PROVE  Spec => [][\A h \in Hosts :
                      visible[h] \in Starts =>
                        visible'[h] \in {visible[h], NoIdentity}]_vars
<1>1. Inductive /\ [Next]_vars =>
        \A h \in Hosts :
          visible[h] \in Starts => visible'[h] \in {visible[h], NoIdentity}
  BY KeptOrLost
<1> QED
  BY <1>1, InductiveInvariant, PTL DEF Spec

\* So the promise of "refuses_to_overwrite_identity", which the run "overwrite"
\* refutes for two agents, holds for one as long as the host keeps its power.
THEOREM RefusesAlone ==
  ASSUME ~Overlap, ~PowerMayFail
  PROVE  Spec => RefusesToOverwrite
<1>1. Inductive /\ [Next]_vars =>
        \A h \in Hosts : visible[h] \in Starts => visible'[h] = visible[h]
  BY KeptOrLost
<1> QED
  BY <1>1, InductiveInvariant, PTL DEF Spec, RefusesToOverwrite

\* Two hosts never have the same identity, with any number of agents on either,
\* nor will they have it after a loss of power.
THEOREM NeverShared ==
  Spec => [](\A g, h \in Hosts : OnDisk(g) \cap OnDisk(h) # {} => g = h)
<1>1. Inductive => \A g, h \in Hosts : OnDisk(g) \cap OnDisk(h) # {} => g = h
  BY DEF Inductive, DiskComplete
<1> QED
  BY <1>1, InductiveInvariant, PTL

=============================================================================
