----------------------------- MODULE Enrollment -----------------------------
(***************************************************************************)
(* Enrollment, from the start of an agent to the identity on its disk:     *)
(* agent/src/lib.rs (run), agent/src/enrollment.rs (the call),             *)
(* agent/src/identity.rs (the identity file), and on the server            *)
(* server/internal/agentgrpc/server.go (Enroll), server/internal/          *)
(* enrollment/service.go and repository/postgres/enrollment_store.go.      *)
(*                                                                         *)
(* Every start of an agent is one element of Starts; a restarted agent is  *)
(* another.  A start makes at most one call of Enroll, so that the call,   *)
(* its transaction, the rows it inserts, the secret they belong to and the *)
(* identity made of all that are known by the start they are for.          *)
(*                                                                         *)
(* A host is a state directory.  What its file system shows and what would *)
(* survive the loss of power differ until they are flushed, for the name   *)
(* identity.json and for the contents of the file.  Temporary files that a *)
(* killed agent leaves behind are never read, and are left out.            *)
(***************************************************************************)

CONSTANTS
  Starts,            \* the starts of agents, each happens once
  Hosts,             \* the state directories
  NoHost,            \* the host of a start that has not happened
  NoIdentity,        \* there is no identity
  Torn,              \* an identity.json that is not complete
  DatabaseMayFail,   \* may a database call fail?
  PowerMayFail,      \* may a host lose power?
  Overlap            \* may two agents run on one state directory?

ASSUME ConstantAssumption ==
  /\ NoHost \notin Hosts
  /\ NoIdentity \notin Starts
  /\ Torn \notin Starts \cup {NoIdentity}
  /\ DatabaseMayFail \in BOOLEAN
  /\ PowerMayFail \in BOOLEAN
  /\ Overlap \in BOOLEAN

VARIABLES
  \* The agents
  pc,               \* the statement of run or save_new the agent is at
  home,             \* the state directory of the agent
  identity,         \* the identity the agent holds in memory
  \* Their disks
  visible,          \* what identity.json holds, as the file system shows it
  durable,          \* what identity.json would hold after the loss of power
  synced,           \* the identities whose file contents have reached the disk
  \* The server
  call,             \* the statement of Enroll the server is at for this start
  tx,               \* how far the transaction of the call has come
  inserted,         \* the tables the transaction has inserted a row into
  machines,         \* the starts that have a row in machines
  agentIdentities   \* the starts that have a row in agent_identities

agentVars == <<pc, home, identity>>
diskVars == <<visible, durable, synced>>
serverVars == <<call, tx, inserted>>
databaseVars == <<machines, agentIdentities>>
vars == <<agentVars, diskVars, serverVars, databaseVars>>

----------------------------------------------------------------------------

Saving == {"check", "write", "sync", "rename"}
Running == {"load", "enroll", "waiting", "ready"} \cup Saving
Location == {"idle", "exited"} \cup Running

Serving == {"received", "machine", "identity", "commit", "answer"}
Call == {"none", "replied", "refused"} \cup Serving

TypeOK ==
  /\ pc \in [Starts -> Location]
  /\ home \in [Starts -> Hosts \cup {NoHost}]
  /\ identity \in [Starts -> Starts \cup {NoIdentity}]
  /\ visible \in [Hosts -> Starts \cup {NoIdentity, Torn}]
  /\ durable \in [Hosts -> Starts \cup {NoIdentity, Torn}]
  /\ synced \in SUBSET Starts
  /\ call \in [Starts -> Call]
  /\ tx \in [Starts -> {"none", "open", "committing", "committed"}]
  /\ inserted \in [Starts -> SUBSET {"machines", "agent_identities"}]
  /\ machines \in SUBSET Starts
  /\ agentIdentities \in SUBSET Starts

Init ==
  /\ pc = [r \in Starts |-> "idle"]
  /\ home = [r \in Starts |-> NoHost]
  /\ identity = [r \in Starts |-> NoIdentity]
  /\ visible = [h \in Hosts |-> NoIdentity]
  /\ durable = [h \in Hosts |-> NoIdentity]
  /\ synced = {}
  /\ call = [r \in Starts |-> "none"]
  /\ tx = [r \in Starts |-> "none"]
  /\ inserted = [r \in Starts |-> {}]
  /\ machines = {}
  /\ agentIdentities = {}

Goto(r, l) == pc' = [pc EXCEPT ![r] = l]

Serve(r, l) == call' = [call EXCEPT ![r] = l]

----------------------------------------------------------------------------
(* The agent: run                                                          *)

\* The container runtime, or an operator, starts the agent.
Start(r, h) ==
  /\ pc[r] = "idle"
  /\ Overlap \/ \A q \in Starts : home[q] = h => pc[q] \notin Running
  /\ Goto(r, "load")
  /\ home' = [home EXCEPT ![r] = h]
  /\ UNCHANGED <<identity, diskVars, serverVars, databaseVars>>

\* Only a missing file leads to enrollment; one that does not parse ends run.
Load(r) ==
  /\ pc[r] = "load"
  /\ LET found == visible[home[r]] IN
     \/ /\ found = NoIdentity
        /\ Goto(r, "enroll")
        /\ UNCHANGED identity
     \/ /\ found = Torn
        /\ Goto(r, "exited")
        /\ UNCHANGED identity
     \/ /\ found \in Starts
        /\ Goto(r, "ready")
        /\ identity' = [identity EXCEPT ![r] = found]
  /\ UNCHANGED <<home, diskVars, serverVars, databaseVars>>

\* The metadata is collected, the server connected to and the request sent.
Request(r) ==
  /\ pc[r] = "enroll"
  /\ Goto(r, "waiting")
  /\ Serve(r, "received")
  /\ UNCHANGED <<home, identity, diskVars, tx, inserted, databaseVars>>

\* The response carries the IDs and the secret.  This server never sends a
\* blank secret or a malformed ID, which enrolled_agent_from_response rejects.
Response(r) ==
  /\ pc[r] = "waiting"
  /\ call[r] = "replied"
  /\ Goto(r, "check")
  /\ identity' = [identity EXCEPT ![r] = r]
  /\ UNCHANGED <<home, diskVars, serverVars, databaseVars>>

Refused(r) ==
  /\ pc[r] = "waiting"
  /\ call[r] = "refused"
  /\ Goto(r, "exited")
  /\ UNCHANGED <<home, identity, diskVars, serverVars, databaseVars>>

\* The agent is killed or interrupted, its connection breaks, or a system
\* call fails: it does not retry, and what it holds in memory is lost.
Stop(r) ==
  /\ pc[r] \in Running
  /\ Goto(r, "exited")
  /\ identity' = [identity EXCEPT ![r] = NoIdentity]
  /\ UNCHANGED <<home, diskVars, serverVars, databaseVars>>

----------------------------------------------------------------------------
(* The agent: save_new                                                     *)

\* destination.exists()
Check(r) ==
  /\ pc[r] = "check"
  /\ \/ visible[home[r]] = NoIdentity /\ Goto(r, "write") /\ UNCHANGED identity
     \/ /\ visible[home[r]] # NoIdentity
        /\ Goto(r, "exited")
        /\ identity' = [identity EXCEPT ![r] = NoIdentity]
  /\ UNCHANGED <<home, diskVars, serverVars, databaseVars>>

\* Mutation: identity.json itself is created and written.
WriteInPlace(r) ==
  /\ pc[r] = "write"
  /\ Goto(r, "sync")
  /\ visible' = [visible EXCEPT ![home[r]] = identity[r]]
  /\ UNCHANGED <<home, identity, durable, synced, serverVars, databaseVars>>

\* The temporary file is created and written.
Write(r) ==
  /\ pc[r] = "write"
  /\ Goto(r, "sync")
  /\ UNCHANGED <<home, identity, diskVars, serverVars, databaseVars>>

\* Mutation: the file is flushed to the kernel only.
SyncDropped(r) ==
  /\ pc[r] = "sync"
  /\ Goto(r, "rename")
  /\ UNCHANGED <<home, identity, diskVars, serverVars, databaseVars>>

\* sync_all
Sync(r) ==
  /\ pc[r] = "sync"
  /\ Goto(r, "rename")
  /\ synced' = synced \cup {identity[r]}
  /\ UNCHANGED <<home, identity, visible, durable, serverVars, databaseVars>>

\* Mutation: the result of rename is dropped.
RenameUnchecked(r) ==
  /\ pc[r] = "rename"
  /\ Goto(r, "ready")
  /\ \/ visible' = [visible EXCEPT ![home[r]] = identity[r]]
     \/ UNCHANGED visible
  /\ UNCHANGED <<home, identity, durable, synced, serverVars, databaseVars>>

\* fs::rename replaces a file that has come into being since Check, and
\* leaves the directory to be flushed by the kernel.
Rename(r) ==
  /\ pc[r] = "rename"
  /\ Goto(r, "ready")
  /\ visible' = [visible EXCEPT ![home[r]] = identity[r]]
  /\ UNCHANGED <<home, identity, durable, synced, serverVars, databaseVars>>

----------------------------------------------------------------------------
(* The disk of a host                                                      *)

\* The kernel flushes the state directory.
Flush(h) ==
  /\ durable[h] # visible[h]
  /\ durable' = [durable EXCEPT ![h] = visible[h]]
  /\ UNCHANGED <<agentVars, visible, synced, serverVars, databaseVars>>

\* What the loss of power may leave of a file that is on the disk by name.
Remains(c) == IF c \in Starts \ synced THEN {c, Torn} ELSE {c}

\* The host loses power: its agents are gone, and so may be a change of the
\* directory and what a file holds.
PowerLoss(h) ==
  /\ PowerMayFail
  /\ \E c \in Remains(visible[h]) \cup Remains(durable[h]) :
        /\ visible' = [visible EXCEPT ![h] = c]
        /\ durable' = [durable EXCEPT ![h] = c]
  /\ pc' = [r \in Starts |-> IF home[r] = h THEN "exited" ELSE pc[r]]
  /\ identity' = [r \in Starts |-> IF home[r] = h THEN NoIdentity
                                                  ELSE identity[r]]
  /\ UNCHANGED <<home, synced, serverVars, databaseVars>>

----------------------------------------------------------------------------
(* The server: Enroll                                                      *)

\* The input is valid, a secret is made and the transaction begun.
BeginEnroll(r) ==
  /\ call[r] = "received"
  /\ Serve(r, "machine")
  /\ tx' = [tx EXCEPT ![r] = "open"]
  /\ UNCHANGED <<agentVars, diskVars, inserted, databaseVars>>

\* Mutation: the machine is inserted by the pool, outside the transaction.
InsertMachineByPool(r) ==
  /\ call[r] = "machine"
  /\ Serve(r, "identity")
  /\ machines' = machines \cup {r}
  /\ UNCHANGED <<agentVars, diskVars, tx, inserted, agentIdentities>>

InsertMachine(r) ==
  /\ call[r] = "machine"
  /\ Serve(r, "identity")
  /\ inserted' = [inserted EXCEPT ![r] = @ \cup {"machines"}]
  /\ UNCHANGED <<agentVars, diskVars, tx, databaseVars>>

InsertIdentity(r) ==
  /\ call[r] = "identity"
  /\ Serve(r, "commit")
  /\ inserted' = [inserted EXCEPT ![r] = @ \cup {"agent_identities"}]
  /\ UNCHANGED <<agentVars, diskVars, tx, databaseVars>>

CommitEnroll(r) ==
  /\ call[r] = "commit"
  /\ Serve(r, "answer")
  /\ tx' = [tx EXCEPT ![r] = "committing"]
  /\ UNCHANGED <<agentVars, diskVars, inserted, databaseVars>>

\* Mutation: the error of Commit is dropped.
ReplyUnchecked(r) ==
  /\ call[r] = "answer"
  /\ Serve(r, "replied")
  /\ UNCHANGED <<agentVars, diskVars, tx, inserted, databaseVars>>

\* The commit is confirmed, and the secret leaves the server for the only time.
Reply(r) ==
  /\ call[r] = "answer"
  /\ tx[r] = "committed"
  /\ Serve(r, "replied")
  /\ UNCHANGED <<agentVars, diskVars, tx, inserted, databaseVars>>

\* Mutation: a call that fails is left without an answer.
EnrollFailsSilently(r) ==
  /\ call[r] \in Serving \ {"received"}
  /\ DatabaseMayFail
  /\ Serve(r, "none")
  /\ UNCHANGED <<agentVars, diskVars, tx, inserted, databaseVars>>

\* The input is refused, no secret can be made, or a database call fails:
\* because the agent has gone, the database, or the server itself.
EnrollFails(r) ==
  /\ \/ call[r] = "received"
     \/ call[r] \in Serving /\ (DatabaseMayFail \/ pc[r] # "waiting")
  /\ Serve(r, "refused")
  /\ UNCHANGED <<agentVars, diskVars, tx, inserted, databaseVars>>

----------------------------------------------------------------------------
(* The database                                                            *)

\* The rows of the transaction become visible together.
Apply(r) ==
  /\ tx[r] = "committing"
  /\ tx' = [tx EXCEPT ![r] = "committed"]
  /\ machines' = IF "machines" \in inserted[r] THEN machines \cup {r}
                                               ELSE machines
  /\ agentIdentities' = IF "agent_identities" \in inserted[r]
                        THEN agentIdentities \cup {r} ELSE agentIdentities
  /\ UNCHANGED <<agentVars, diskVars, call, inserted>>

\* The deferred rollback, unless a commit that was asked for overtakes it.
Abort(r) ==
  /\ call[r] = "refused"
  /\ tx[r] \in {"open", "committing"}
  /\ tx' = [tx EXCEPT ![r] = "none"]
  /\ inserted' = [inserted EXCEPT ![r] = {}]
  /\ UNCHANGED <<agentVars, diskVars, call, databaseVars>>

----------------------------------------------------------------------------
(* Specification                                                           *)

Agent(r) ==
  \/ Load(r) \/ Request(r) \/ Response(r) \/ Refused(r)
  \/ Check(r) \/ Write(r) \/ Sync(r) \/ Rename(r)

Server(r) ==
  \/ BeginEnroll(r) \/ InsertMachine(r) \/ InsertIdentity(r)
  \/ CommitEnroll(r) \/ Reply(r) \/ EnrollFails(r)

Database(r) == Apply(r) \/ Abort(r)

Host(h) == Flush(h) \/ PowerLoss(h) \/ \E r \in Starts : Start(r, h)

\* Every agent has ended, and so has every transaction.
Terminated ==
  /\ \A r \in Starts : pc[r] = "exited" /\ tx[r] \in {"none", "committed"}
  /\ UNCHANGED vars

Next ==
  \/ \E r \in Starts : Agent(r) \/ Stop(r) \/ Server(r) \/ Database(r)
  \/ \E h \in Hosts : Host(h)
  \/ Terminated

\* Processes are scheduled and the database answers, if only with an error.
Fairness ==
  \A r \in Starts :
    WF_vars(Agent(r)) /\ WF_vars(Server(r)) /\ WF_vars(Database(r))

Spec == Init /\ [][Next]_vars /\ Fairness

----------------------------------------------------------------------------
(* Properties                                                              *)

\* What HostIdentity.tla promises, read off the disks and the database.
Promise == INSTANCE HostIdentity WITH
  Identities <- Starts,
  MayForget <- PowerMayFail,
  registered <- agentIdentities,
  identity <- visible

\* With one agent at a time on a state directory, crashes of the agent, of the
\* server and of the host and lost answers leave every host with one identity
\* that the server knows, or with none.
ImplementsHostIdentity == Promise!Spec

\* An identity an agent holds, or a disk does or will after the loss of power,
\* is one the server has committed, the machine and its credentials.
Enrolled == machines \cap agentIdentities

IdentityBacked ==
  /\ \A r \in Starts : identity[r] # NoIdentity => identity[r] \in Enrolled
  /\ \A h \in Hosts : {visible[h], durable[h]} \cap Starts \subseteq Enrolled

\* No machine is without credentials, and no credentials without a machine,
\* wherever Enroll stops.
EnrolledTogether == machines = agentIdentities

\* identity.json is never incomplete: an agent that starts can always parse it.
NeverTorn == \A h \in Hosts : Torn \notin {visible[h], durable[h]}

\* An agent says that its identity is ready only if the next start will find
\* the same identity (one agent at a time, and until power is lost).
ReadyIsSaved ==
  \A r \in Starts : pc[r] = "ready" => visible[home[r]] = identity[r]

\* An agent that starts gets ready or ends: it does not wait for ever.
StartSettles == \A r \in Starts : pc[r] = "load" ~> pc[r] \in {"ready", "exited"}

\* "Used only on the agent's first start" (agent.proto): no host is enrolled
\* by two of its starts.
FirstStartOnly ==
  \A r, q \in machines : home[r] = home[q] => r = q

\* "refuses_to_overwrite_identity" (identity.rs): save_new never replaces an
\* identity that is there.
RefusesToOverwrite ==
  [][\A h \in Hosts : visible[h] \in Starts => visible'[h] = visible[h]]_vars

----------------------------------------------------------------------------
(* Why it holds: an inductive invariant                                    *)

Tables == {"machines", "agent_identities"}

\* How far the transaction has come follows from where the server is, and a
\* commit is only asked for with both rows inserted.
TransactionOfCall ==
  \A r \in Starts :
    /\ pc[r] \in {"idle", "load", "enroll"} => call[r] = "none"
    /\ call[r] \in {"none", "received"} => tx[r] = "none" /\ inserted[r] = {}
    /\ call[r] = "machine" => tx[r] = "open" /\ inserted[r] = {}
    /\ call[r] = "identity" => tx[r] = "open" /\ inserted[r] = {"machines"}
    /\ call[r] = "commit" => tx[r] = "open" /\ inserted[r] = Tables
    /\ call[r] = "answer" => tx[r] \in {"committing", "committed"}
    /\ call[r] = "replied" => tx[r] = "committed"
    /\ tx[r] \in {"committing", "committed"} => inserted[r] = Tables

\* The rows are those of the transactions that have been committed.
RowsCommitted ==
  /\ machines = {r \in Starts : tx[r] = "committed"}
  /\ agentIdentities = machines

\* An agent that runs has a state directory, and saves the identity made for it.
HomeAndIdentity ==
  \A r \in Starts :
    /\ pc[r] \in Running => home[r] \in Hosts
    /\ pc[r] \in Saving => identity[r] = r

\* What is on a disk by name has all its contents there, and was made there.
OnDisk(h) == {visible[h], durable[h]} \cap Starts

DiskComplete ==
  /\ \A h \in Hosts : OnDisk(h) \subseteq synced
  /\ \A r \in Starts : pc[r] = "rename" => r \in synced
  /\ \A h \in Hosts : \A e \in OnDisk(h) : home[e] = h

\* One agent at a time finds the place of its identity free.
Alone ==
  ~Overlap =>
    /\ \A r, q \in Starts :
         home[r] = home[q] /\ pc[r] \in Running /\ pc[q] \in Running => r = q
    /\ \A r \in Starts :
         pc[r] \in {"write", "sync", "rename"} => visible[home[r]] = NoIdentity
    /\ \A h \in Hosts : durable[h] \in {NoIdentity, visible[h]}
    /\ ReadyIsSaved

Inductive ==
  /\ TypeOK
  /\ TransactionOfCall
  /\ RowsCommitted
  /\ HomeAndIdentity
  /\ IdentityBacked
  /\ NeverTorn
  /\ DiskComplete
  /\ Alone

=============================================================================
