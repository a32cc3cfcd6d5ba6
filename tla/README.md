# Arxveil in TLA+

Arxveil watches machines: an *agent* runs on each of them, enrolls once with the *server*, and
then keeps a gRPC stream open on which it sends heartbeats and telemetry. The server keeps a row
per machine in PostgreSQL, and the row says whether the machine is online. This directory holds a
specification of that system, the TLC runs that check it on small instances, and proofs by TLAPS
that hold for any number of streams and machines.

Paths below are relative to the root of the repository.

## 1. The system

| Component | State | Operations | Talks to |
|---|---|---|---|
| StreamUpdates handler, `server/internal/agentgrpc/server.go:81-170` | one goroutine per call: session, `closed` flag | authenticate, receive loop, `closeSession` (deferred, once, under a context of its own with 5 s) | presence and telemetry services; the agent |
| Presence service and store, `presence/service.go`, `repository/postgres/presence_store.go` | none of its own; `machines`, `machine_presence_events` | `OpenSession` (`FindActiveIdentity`, `StartSession`), `RecordActivity` (`TouchSession`), `CloseSession` (`EndSession`) | PostgreSQL |
| Telemetry service and store, `telemetry/service.go`, `repository/postgres/telemetry_store.go` | none; `telemetry_samples` | `Record` (validate, upsert) | PostgreSQL |
| Enrollment on the server, `agentgrpc/server.go:52-79`, `enrollment/service.go`, `enrollment_store.go` | none; `machines`, `agent_identities` | `Enroll` (validate, make a secret, insert both rows in a transaction) | PostgreSQL |
| Agent, `agent/src` | `identity.json` in a state directory | `run`: load or enroll and `save_new`; then wait for ctrl-c | the server's `Enroll`; the file system |
| Schema, `server/migrations/000001_create_v1_machine_schema.up.sql` | the four tables, their keys and checks | - | - |
| Server lifecycle, `cmd/arxveil-server` | HTTP and gRPC servers, `serverErrors` | `serve`, `shutdown`, `gracefulStopGRPC`, `pool.Close` | everything above |
| Health endpoints, `health/handler.go`, `httpapi/router.go` | none | `Live`, `Ready` (a ping of the database, 2 s) | PostgreSQL |
| Command line, `tools/arxveil/main.go`, on `infra/compose*.yaml` | none of its own; the containers and volumes of the stack | `backend start`, `stop`, `status`, `logs`, `reset`, `generate go` | docker |
| Configuration, Flutter app, generated code | none | - | - |

At this commit the agent does not open `StreamUpdates` yet (`agent/src/lib.rs:63-75`): the
handler is modelled against *any* client, as it has to be.

How they interact: every RPC runs in a goroutine of its own, and the goroutines share nothing
but the database. So all concurrency of the server is between the SQL statements and transactions
of different streams, and between a stream and the cancellation of its context.

What is hard here, and what makes each part correct:

* **Overlapping sessions.** A connection that dies silently leaves its handler in `Recv`; the agent
  reconnects and two handlers hold a session of one machine. The server lets the later one win by
  comparing `last_connected_at` with the session's `ConnectedAt` in each statement. The close of the
  old stream must not take the machine offline, and its heartbeats must not count.
* **Two tables, one truth.** `machines.status` and `machine_presence_events` are written by two
  statements. Their agreement rests on the transaction, the row lock taken by the first statement,
  and the status read under that lock.
* **Cancellation between any two steps**, and failure of any call - also of a `COMMIT` that takes
  effect all the same.
* **What an OK means** to an agent that half-closes: its session is closed and its samples stored.
* **Row locks**: a transaction that never ends would block every later stream of its machine.
* **Enrollment is not idempotent**: a crash, a lost answer or a failing disk between the server's
  commit and the agent's rename leaves a machine nobody will ever speak for.
* **Shutdown**: closing a session is a database call, so the pool must outlive every handler, while agents may
  hold their streams for ever. One path closes the pool with streams running. A signal may come before
  the servers have started, and a server may fail while the other stops.

* **A server that is killed** closes no session, and nothing at its next start does. Only a later session of
  the same machine repairs the row, and a transaction of the killed server may still be about to commit.
* **One value, three languages.** The agent (Rust), the server (Go) and the tables (SQL) each trim and measure metadata
  in their own way, and the service and the table each have their own limits of a sample. Where they disagree the client
  meets an `Internal` it can do nothing about.
* **Two stacks, one project.** With and without `--with-agents` the command line names different compose files of one
  docker project: containers and volumes of the one are left over for the other, and an agent that keeps its volume while
  the database loses its own holds an identity nobody knows.

`PROJECT.json` lists these under `hazards`, each at its line.

## 2. The modules

| Module | What it is |
|---|---|
| `Presence.tla` | abstract: what the server promises of status, latest session and history |
| `HandlerSession.tla` | abstract: what a handler promises of its session; `StreamUpdates` and `Application` implement it |
| `StreamUpdates.tla` | detailed: the handler, the services and the statements on the database |
| `MCStreamUpdates.tla` with `MCFaults.cfg`, `MCSamples.cfg`, `MCLiveness.cfg` | its instances for TLC |
| `HostIdentity.tla` | abstract: what enrollment promises a host |
| `Enrollment.tla` | detailed: the agent's start, its identity file, and `Enroll` on the server |
| `MCEnrollment.tla` with `MCOverlap.cfg`, `MCRestarts.cfg`, `MCFirstStart.cfg`, `MCOverwrite.cfg` | its instances for TLC |
| `Application.tla` | the server process from `run` to its exit, with RPCs and requests in flight |
| `MCApplication.tla` with `MCShutdown.cfg`, `MCShutdownEnds.cfg` | its instances for TLC |
| `EnrollmentInput.tla` | what a request of `Enroll` may contain, from the agent to the tables |
| `MCEnrollmentInput.tla` with `MCEnrollmentInput.cfg` | its instance for TLC |
| `TelemetrySamples.tla` | what a sample may contain, from the message to its row |
| `MCTelemetrySamples.tla` with `MCTelemetry.cfg` | its instance for TLC |
| `Stack.tla` | the command line, docker and the services and volumes of the local stack |
| `MCStack.tla` with `MCStack.cfg` | its instance for TLC |
| `Presence_proofs.tla`, `StreamUpdates_proofs.tla`, `Sessions_proofs.tla` (on top of it), `Enrollment_proofs.tla`, `Application_proofs.tla`, `EnrollmentInput_proofs.tla`, `TelemetrySamples_proofs.tla`, `Stack_proofs.tla` | theorems |

An operator whose comment begins with *Mutation* or *Wrong* belongs to no specification: it is a plausible bug
in the definition that follows it, and shows that a property notices the bug.

`StreamUpdates` takes the machines with an active identity as given; `Enrollment` is how they get
there. An agent that has an identity on its disk finds its rows committed (`IdentityBacked`),
so it is one of the streams that authenticate as a machine. `Application` is the process all the handlers
run in; it knows of a handler only which database call it is in, and whether its session is open. That these are the
handlers of `StreamUpdates` is what `HandlerSession` is for: both modules are shown to implement it. `EnrollmentInput` and
`TelemetrySamples` say what `Enrollment` and `StreamUpdates` leave open, which inputs are valid: there, input is
refused or accepted by choice, so whatever these modules decide is one of the cases. `Stack` is around all of
them: it starts and ends the services and creates and removes what they keep, and knows of the services only whether they
run and which database an agent is enrolled in.

### StreamUpdates

Each element of `Streams` is one call of the RPC. `pc[s]` is the statement its goroutine is at;
an action is everything the code does from one interaction with the outside (a receive, a database
call) up to the next.

| Code | Model |
|---|---|
| `Recv` of the first message, `server.go:82-91` | `RecvError`, `RejectFirst`, `RecvAuthenticate` |
| `OpenSession`, `service.go:49-79` | `FindActiveIdentity`, `StartBegin`, `StartUpdate`, `StartInsert`, `StartCommit`, `SessionOpened`; any call failing: `OpenSessionFails` |
| the loop, `server.go:130-169` | `RecvHeartbeat`, `RecvTelemetry`, `RecvInvalid`, `RecvEOF`, `RecvError`; `Record`, `RecordFails`, `Touch`, `TouchFails` |
| `closeSession`, `server.go:109-137` | `ReturnAndClose` leads every return of the loop to `EndBegin`, `EndUpdate`, `EndInsert`, `EndCommit`, `SessionClosed`; `CloseSessionFails` |
| row locks, snapshot re-check, commit, rollback | `RowLocked`, `IsCurrent`, `Apply`, `Abort` |

*Transactions.* A transaction is a draft only its stream sees: `writes[s]` (which `UPDATE`) and
`event[s]` (has it inserted an event). From its `UPDATE` on it holds the row; a statement on a locked
row waits, and an `UPDATE` whose condition the committed row does not meet does not wait, as in
READ COMMITTED. Asking for a commit (`StartCommit`), its effect (`Apply`) and the answer
(`SessionOpened`) are three steps, so a handler may give up in between; then `Abort` and
`Apply` race. A transaction given up before its commit was asked for can only be aborted.

*Times.* Connection times are compared for equality only, so a time is represented by a number
that orders sessions; `last_seen_at` and `last_disconnected_at` hold the connection time of the
session whose statement wrote them. `ClockMayRepeat` says whether `clock_timestamp()` may give two
sessions the same microsecond (a clock set back). With `ClockMayRepeat = FALSE` the clock advances
between two sessions.

*Telemetry.* A sample is its primary key; the values that `validateSample` accepts are of one
kind. An accepted sample is stored even if a later session has taken over, as the code does.

*Faults.* `Cancel` may happen at any time of a call; `DatabaseMayFail` lets every database call
fail, whether or not its effect took place. `CloseSession` does not depend on the stream's
context, so cancellation does not make it fail. After `CloseSessionFails` nothing is tried again.

*Crashes.* `Crash` (with `ServerMayCrash`) ends every call of the server at once, at whatever statement each is; open
sessions become sessions lost in a crash. A transaction whose commit was asked for may still be applied, the
others are rolled back by PostgreSQL. Streams that have not begun are the calls of the server that is started next, so that a
behavior goes through any number of servers.

### Presence

The promise: `Connect` makes a new session the latest and the machine online, with an entry of
the history only if it was not; `Disconnect` takes it offline, with an entry. `StreamUpdates`
implements it with `status`, `latest` and `history` read off the committed rows. So the abstract
step of a session is the moment the database applies its transaction, wherever the handler is.

### HandlerSession

The promise of one call of `StreamUpdates` seen from its session: `Accept`, `Authenticate` and `Find` lead to `Open` or
to a return; a handler with an open session stays in the loop of `Receive`, `Record` and `Touch` until it gets to
`Close`, which it tries once, and returns. `Kill` ends every handler where it is. `StreamUpdates` implements it with
`Place(pc[s])`, which makes one step of the statements of a transaction, and `Application` with the calls of
the database a handler makes; there `Enroll` is a call that never gets beyond authentication, and nothing kills
the process. This ties the two views of the handler together: what `Application` says of pools and deadlines holds of
handlers that do with their sessions what `StreamUpdates` says.

### Enrollment

Each element of `Starts` is one start of the agent program (a restart is another element), on a
state directory of its choice, an element of `Hosts`. A start calls `Enroll` at most once, so the call, its
transaction, its rows, its secret and the identity made of them all go by the start's name.

| Code | Model |
|---|---|
| `run`, `agent/src/lib.rs:24-76` | `Load`, `Request`, `Response`, `Refused`, then the steps of `save_new`; a failing system call, a signal or a kill: `Stop` |
| `save_new`, `agent/src/identity.rs:52-85` | `Check` (`destination.exists()`), `Write`, `Sync` (`sync_all`), `Rename` |
| the file system | `visible` and `durable` identity per host, `synced` contents; `Flush`, `PowerLoss` |
| `Server.Enroll`, `Service.Enroll`, `EnrollmentStore.Enroll` | `BeginEnroll`, `InsertMachine`, `InsertIdentity`, `CommitEnroll`, `Reply`; refused input and failures: `EnrollFails` |
| the database | `Apply`, `Abort` as in `StreamUpdates` |

`PowerLoss` kills the agents of a host and leaves either the identity the file system showed or the
one last flushed, and of a file whose contents were not synced possibly only a part (`Torn`). A
crash of the server looks to every call like a failure, and `EnrollFails` allows it to all of
them. The server may notice late that its caller has gone, so a `Stop` makes a call fail but does not
have to. `Overlap` says whether two agents may run on one state directory: the compose files
give every container a volume of its own, but nothing in the agent locks the directory.

### HostIdentity

The promise: a host without an identity adopts a registered one no other host has, and keeps it;
only the loss of power may take it away, because the state directory is not flushed after the
rename. `Enrollment` implements it with one agent at a time on a state directory.

### Application

`main` is the statement the main goroutine is at; the goroutines of `serveHTTP`, `serveGRPC` and
`GracefulStop`, one per RPC and one per HTTP request run beside it.

| Code | Model |
|---|---|
| `run`, `main.go:26-39` | `NewApplication` (may fail to listen), `ClosePool`, `Exit` |
| `serve`, `application.go:75-96` | `SelectSignal`, `SelectError`; both lead to `BeginShutdown` |
| `shutdown`, `application.go:112-122` | `Shutdown` looks at its connections: `ShutdownHTTP` when all are idle, `ShutdownPolls` when it has to look again; `ShutdownTimesOut` when the deadline comes before the next look (the last request may have ended since), which leaves gRPC alone |
| `gracefulStopGRPC`, `application.go:124-137` | `Drain`, `RefuseCalls`, `Drained` of its goroutine; `SelectDone`, `SelectExpired` |
| `serveHTTP`, `serveGRPC`, `application.go:98-110` | `ListenHTTP`, `ReturnHTTP`, `SendHTTP`, `ServeGRPC`, `ReturnGRPC`, `SendGRPC` |
| the handlers, `agentgrpc/server.go:52-170` | `Recv`, `RecvError`; a database call is `Acquire`, then `Answer`; `Fails`, because the database lets it down (`DatabaseFails`) or because the handler waits no longer (`GiveUp`: its client is gone, `sessionCloseTimeout` has passed for `closeSession`, in the queue of the pool too, or the pool is closed) |
| the health endpoints | `Handle`, `AcquirePing`, `PingEnds` |

The libraries are modelled by what this code relies on. `http.Server.Shutdown` closes the listener and waits for
active connections. `GracefulStop` tells clients to go away, accepts RPCs until they have heard it, and
returns after every handler; `Stop` cancels every RPC and does not wait for handlers; `Serve` after a stop returns
`ErrServerStopped`. `pgxpool.Close` refuses acquisitions at once and waits for the connections in use.
A database call of a handler takes one connection and never a second, so the pool is a set of its
users with a limit on its size, in any order: nothing rests on the pool being served in turn. A killed process is a prefix of a behavior, so a kill is no action; a signal after
`serve` has chosen is swallowed by `signal.NotifyContext` and changes nothing.

### EnrollmentInput

One request of `Enroll`, of the agent or of any other client. A text is a sequence of characters, each
standing for its class: a space, other white space, a letter of one byte, a letter of two, and NUL.

| Code | Model |
|---|---|
| `collect`, `from_values`, `required_value`, `agent/src/metadata.rs:21-92` | `Collect`: trim, and end with `EmptyValue` if nothing is left |
| `validateInput`, `requiredMetadata`, `enrollment/service.go:105-151` | `Validate`: `MetadataAllowed` (trimmed, not empty, bytes within the limit) and the number of capabilities; then one `HandleCapability` for each turn of the loop, which checks it and keeps it unless seen (`Kept`) |
| the CHECKs of `machines`, and what TEXT and JSONB can hold | `Store`: `Checked` (characters after `trim()`), `Representable` (no NUL) |

The five fields of the metadata are under one rule, so a field is an element of `Fields`; those with an upper limit
in the table, `hostname` and the `name` that is a copy of it, are `LimitedFields`.

### TelemetrySamples

One stream sends samples one after the other. `Refuse` is what `telemetrySample` and `validateSample` do to a bad
one, `Record` is the upsert. Times are in half microseconds and CPU usages in thousandths of a percent, one digit more
than the table keeps, so that a row is not the sample it was made of: `collected_at` is cut by pgx, and `NUMERIC(5, 2)`
rounds. `latest` is a history variable, the sample that was acknowledged last for each row. That Go's comparisons
are false for NaN, and why `validateSample` asks for it first, is the value `NotANumber`.

### Stack

`Run(arguments)` is one call of `arxveil`: arguments are a verb, the flags given and whether words follow;
`Accepted` is what `backendCommand`, `parseWithAgents` and `generateCommand` insist on, and `DockerCommand` the command
they build. Docker works on it step by step, and `Return` may end any command at any point.

| Code | Model |
|---|---|
| `depends_on` of `compose.yaml` and `compose.agent.template.yaml` | guards of `StartPostgres`, `Migrate`, `StartServer`, `StartAgent` |
| `up` with and without `--detach` | `Started`, `Interrupt` |
| `down`, `--volumes`, `--remove-orphans` | `Remove` (the services of the files, dependents first, and then orphans: `RemovedBefore`), then `RemoveDatabase` and `RemoveState`, then `Stopped` |
| the restart policies | `ServiceExits` (none), `AgentExits` and `Restart` (`unless-stopped`) |
| `run` of the agent | `Enroll`: only without an identity |

Databases are numbered as they are created, so that an identity tells the database it is of. `confirmed`, `full` and
`partial` are history variables for the properties; they go by the arguments of the user and not by the
command built of them. What docker does is external: it is modelled as far as the compose files and the flags rely on
it. `migrate` and the server wait for `postgres` to be healthy; the healthchecks themselves are part of the start.

## 3. The runs

| Run | Instance | Shows |
|---|---|---|
| `faults` | 3 streams of one machine, no samples, all faults and crashes, advancing clock | `Invariant`, `LiveSessionOnline`, `ClosedSessionGone`, `OnlineHasHolder`, `RowOfOneSession`, `ImplementsPresence` |
| `samples` | 2 streams, 2 machines, 2 samples, all faults and crashes, repeating clock | `HolderNeverWaits`, `PresenceHistory`, `OkMeansRecorded`, `ImplementsHandlerSession` |
| `liveness` | 2 streams of one machine, 1 sample, crashes, database answers | `CancelledStreamReturns`, `GoneAgentGoesOffline` |
| `enroll_overlap` | 3 starts on one state directory, overlapping, all faults | `IdentityBacked`, `EnrolledTogether`, `NeverTorn`, `StartSettles` |
| `enroll_restarts` | 3 starts on two state directories, one at a time, all faults | `Inductive`, `ReadyIsSaved`, `ImplementsHostIdentity` |
| `first_start` | 2 starts, one at a time, kills only | `FirstStartOnly` is violated |
| `overwrite` | 2 starts, overlapping, kills only | `RefusesToOverwrite` is violated |
| `shutdown` | 2 RPCs, 1 HTTP request, 2 connections, database faults | `Inductive`, `PoolClosedLast`, `SessionsClosed`, `StatusZeroIsClean`, `SendNeverBlocks`, `WaitsForNoClient`, `ImplementsHandlerSession` |
| `shutdown_ends` | 2 RPCs, 1 connection, a database that need not answer | `ShutdownEnds`, `GoneClientFreesCall` |
| `enrollment_input` | 2 fields, 12 texts, every list of up to 4 of 6 capabilities, limits 2 bytes and 3 capabilities | `Inductive`, `ChecksAgree`, `RefusedForLength`, `StoredInNormalForm` |
| `telemetry_values` | values on both sides of every limit, 3 times in 2 microseconds | `TableAccepts`, `RowIsOneSample` |
| `stack` | 2 agents, 3 databases, every sequence of commands | `Inductive`, `LostOnlyByConfirmedReset`, `StrandedUntilFullReset`, `ServerHasSchema`, `NothingRunsOverLostData`, `AgentEnrolls` |

Two runs show where the code and what is said of it differ (`findings` in `PROJECT.json`):

* `first_start`: `proto/agent/v1/agent.proto:11` says that `Enroll` is "Used only on the agent's first
  start." An agent killed between the server's commit and its own rename enrolls again at its next
  start, and the first machine stays in the database for ever.
* `overwrite`: the test `refuses_to_overwrite_identity` (`agent/src/identity.rs:168`) says what `save_new`
  is to do, and its error handling expects `rename` to refuse. `fs::rename` replaces the
  destination, so two agents that both passed `destination.exists()` overwrite one another.

Bounds of `StreamUpdates`. Each stream is one call, so nothing has to be cut off: the graph is finite by itself
(connection times are at most the number of sessions). Three streams of one machine are what
it takes for a superseded session, its successor, and a transaction waiting for
both; machines share no rows, hence one machine there.
`faults` has no samples because telemetry does not touch what its properties speak of except by
its lock check; `samples` covers that with two machines. Streams, and machines, are
interchangeable, so symmetry is used - but not for liveness, where it is unsound.

Bounds of `Enrollment`. Each start happens once, so the graph is finite by itself. Two starts
of one state directory are what a second enrollment or an overwrite takes; the third lets another come
after it. Two hosts show that identities are not mixed up between them.

Bounds of `Application`. Each call and each request happens once, and each server sends at most one error, so the
graph is finite by itself. Two calls are what it takes for one to return while another still runs, and for two
to compete for a connection; a single connection is the tightest pool. `shutdown_ends` has no HTTP request, and what it
shows is about a shutdown that gets as far as gRPC. A request that outlives the deadline takes the way of
`ShutdownTimesOut`: nobody cancels the RPCs then, and `pool.Close` waits for a call that holds a connection for as long as
the database takes to answer it. So on that way the process ends if the database does.

Bounds of the inputs. The texts are what is empty or blank, letters with and without white space on either side, what
is too long by one byte, by a wide letter or by length, and NUL; a list of four capabilities is one too many, and has
room for a duplicate before and after another. The values of `telemetry_values` are those around
each limit, with a usage that is rounded up to the limit itself. The proofs lift all of these bounds.

Bounds of `Stack`. `MaxDatabases`, in the guard of `StartPostgres`, is the only one: three databases are what it takes for
an agent to hold an identity of the first while the second is removed and the third is made. Two agents are what
it takes for one to be stranded and the other not. `postgres`, `migrate` and `server` are what they are.

`Invariant` is `Inductive /\ Outcome`, the two invariants the proofs of `StreamUpdates` are made of.
`LaterSessionWins` is in no run, for `ImplementsPresence` implies it; it is proved. `HolderNeverWaits` says why
there is no deadlock among the streams, however many: it forbids the one shape a cycle of waiting transactions
would need. `WaitsForNoClient` says the same of the process: what `ShutdownEnds` shows for two calls under fairness rests on
this invariant, which holds for any number of them.

Fairness. `WF_vars(Handle(s))`: a goroutine that is not waiting for the agent or a lock is
scheduled. `WF_vars(Database(s))`: PostgreSQL ends every transaction whose commit or rollback was
asked for, the deferred `Rollback` being that request. Nothing is assumed of agents, nor of
`Cancel`: an agent may stay connected and silent for ever. Liveness of `StreamUpdates` is checked without database
faults, because `CloseSession` is tried only once and a failure leaves the machine online for ever.

`Enrollment` assumes the same of agents, server and database, except that there the database may fail; the
agent's call has neither a deadline nor a keepalive, so an answer or an error of some kind is all `StartSettles` can rely on: a
connection that dies without a word leaves the agent waiting, and no property covers that. `Stop`, `PowerLoss`, `Flush` and
`Start` are never forced.

`Application` assumes that goroutines which wait neither for a client nor for the database are scheduled, and that timers go off:
that of `shutdown`, that of a ping, and `sessionCloseTimeout`. Nothing is assumed of the database: `Acquire` and
`Answer` need never happen, and neither need an error. Clients are free to hold a stream for ever, servers need not fail,
and no signal has to come. `ShutdownEnds` and `GoneClientFreesCall` thus rest on the contexts of the code alone. That
`closeSession` gets its connection in time is not claimed, for nothing in the code makes it so: it may spend its five seconds in
the queue, and the machine then stays online, which is the failed close that `OnlineHasHolder` names. What is
claimed is that the handler does not wait there for ever; without the timeout TLC finds it doing so.

`Stack` assumes that docker restarts a container that is to be restarted, and that an agent which is started again and
again while it is served does not meet an error every single time (strong fairness of `Enroll`). `AgentEnrolls` says little
more than that the restart policy carries the agent there: the agent itself has no retry, and one whose host name is too
long (`RefusedForLength`) meets its error every time and is outside this assumption. No command is ever
given or completed by force, and no service has to stay up.

What the runs found worth knowing, all of it consistent with what the code claims:

* `PoolClosedLast` and `SessionsClosed` have to except `err = "shutdown"`: one HTTP request that outlives the
  deadline makes `shutdown` return before it stops gRPC, and every open stream then finds the pool closed. The
  process ends with status 1.
* Status 0 does not mean that no server failed: an error that comes after the signal stays in
  `serverErrors` and is never reported. `StatusZeroIsClean` claims only that a failure which was
  received, or a shutdown that was cut short, is not reported as success.
* A `StartSession` cancelled by `Stop` while its commit is under way may leave its machine online (`"doubt"`); this is
  the case `OnlineHasHolder` names, and shutdown cannot mend it.
* `LiveSessionOnline` needs a clock that advances. If two sessions get equal connection times the
  end of the first ends the second. The history still alternates (`samples` checks it so).
* `OnlineHasHolder` has to name two holders that never let go: a session whose close failed, and a
  `StartSession` that was given up while its commit was under way. Both leave the machine
  online until it connects again; nothing in the server sweeps such rows. A crash adds a third of the same kind. What
  holds in spite of all three is that the next session of the machine finds the row as it is, takes it over without a
  second online event, and cannot be undone by what was left behind.
* `ChecksAgree` has to except NUL: proto3 strings may hold it, `validateInput` does not look for it, PostgreSQL stores it in
  neither TEXT nor JSONB, and the server answers `Internal` for what the client sent.
* The error texts of `validateInput` speak of characters where `len` counts bytes: a name of 128 letters of two bytes
  is refused although the table would take it. `RefusedForLength` is therefore stated in bytes.
* `StrandedUntilFullReset` is as much as can be said of `backend reset`: without `--with-agents` it strands every agent
  that is enrolled, which then reports to be ready with an identity no server knows, until a full reset.

## 4. The proofs

The `_proofs` modules are checked by `tlapm` for every value of the constants that
`ConstantAssumption` allows. For presence (`StreamUpdates_proofs`, `Presence_proofs`):

| Theorem | States |
|---|---|
| `InductiveInvariant` | `Spec => []Inductive` |
| `TypeCorrect` | `Spec => []TypeOK` |
| `LiveSession` | `Spec => []LiveSessionOnline`, for a clock that advances |
| `LaterSession` | `Spec => LaterSessionWins`, for a clock that advances |
| `Implementation` | `Spec => ImplementsPresence` |
| `PresenceHistoryInvariant` | `Spec => []PresenceHistory`, from the refinement and `HistoryInvariant` |
| `HistoryInvariant` (of `Presence`) | every history alternates and ends with the status |
| `OutcomeInvariant` | `Spec => []Outcome` |
| `RowsOfOneSession`, `AnswerOk` | `Spec => []RowOfOneSession`, `Spec => []OkMeansRecorded` |
| `ClosedSession`, `OnlineHeld` | `Spec => []ClosedSessionGone`, `Spec => []OnlineHasHolder`, for a clock that advances |
| `BothInvariants` | `Spec => []Invariant` |
| `HolderProceeds` | `Spec => []HolderNeverWaits` |
| `SessionsOnce` | a session is opened once and ended once, and never comes back |
| `HandlerRefinement` | `Spec => ImplementsHandlerSession` |

The argument. A transaction drafts what it will write from the row as it was when it took the
lock. That the draft still fits the row when it is applied (`DraftUpToDate`) is what makes
the refinement go through, and it is inductive only together with: two
transactions never hold one row (`RowLockExcludes`), how far a transaction has come follows from
where its handler is (`TransactionOfHandler`, `DraftOfTransaction`), and a handler works for a
machine that exists (`KnownOperands`). It is restricted to transactions that can still commit
(`Committable`): the leftovers of a handler that gave up before its commit may be out of date, and
are never applied. For the order of sessions `TimesAdvance` says that a session being started
is later than the row's, which holds since its time was read under the row's lock; and
`CommittedInEffect` carries `LiveSessionOnline` over the time between a commit and its answer.

A crash needs no argument of its own there: it leaves a transaction either committing, and then its draft is up to date as
that of any other, or not `Committable`. What becomes of the sessions is the second invariant, `Outcome`
(`Sessions_proofs`), proved on top of `Inductive`: which ways a session can end, which session
the timestamps of a row are of, that the session of an online row is open or ended in one of the ways that leave it
so, and that a stream on its way to OK has recorded what it received.

That whoever holds a row waits for nothing (`HolderProceeds`) follows from `DraftOfTransaction`, by which a draft belongs to
a transaction that has yet to end, and `TransactionOfHandler`, by which a handler with such a transaction is past its
only `UPDATE` and not yet back in the loop: nobody waits for a second row with a first one in hand. The refinement of
`HandlerSession` needs of a step only where its handler is before and after (`Places`, `PlaceMoves`): all statements of
one transaction are one place, so that the steps between them are stutters (`Stays`), and only three steps touch the
session (`SessionMoves`).

For enrollment (`Enrollment_proofs`):

| Theorem | States |
|---|---|
| `InductiveInvariant`, `TypeCorrect` | `Spec => []Inductive`, `Spec => []TypeOK` |
| `Backed`, `Together`, `Untorn` | `Spec => []` of `IdentityBacked`, `EnrolledTogether`, `NeverTorn`, with overlapping agents and all faults |
| `Saved` | `Spec => []ReadyIsSaved`, for one agent at a time |
| `Implementation` | `Spec => ImplementsHostIdentity`, for one agent at a time |
| `NeverReplaced` | an identity of a host is kept or lost with the power, never replaced, for one agent at a time |
| `RefusesAlone` | `Spec => RefusesToOverwrite`, for one agent at a time and a host that keeps its power |
| `NeverShared` | no two hosts have, or will have after a loss of power, the same identity, with overlapping agents too |

The argument. A reply comes after the commit, and the commit is asked for with both rows inserted
(`TransactionOfCall`), so the rows are exactly those of the committed transactions
(`RowsCommitted`), and an identity an agent got by a reply is backed. It is on a disk by name only
after its contents were synced, and only on the disk of the start it was made for (`DiskComplete`).
With one agent at a time, the place `Check` found free is still free at `Rename`, since any other
agent of the host would have to be running (`Alone`); hence a rename adopts and never replaces. The
two violated properties are just the two that this invariant does not give without that
assumption, or at all: `RefusesAlone` proves of one agent at a time what the run `overwrite` refutes for two, so that a lock
on the state directory is all that is missing there.

For the process (`Application_proofs`):

| Theorem | States |
|---|---|
| `InductiveInvariant`, `TypeCorrect` | `SafetySpec => []Inductive`, `SafetySpec => []TypeOK` |
| `PoolLast`, `Closed`, `CleanStatus`, `NeverBlocks` | `SafetySpec => []` of `PoolClosedLast`, `SessionsClosed`, `StatusZeroIsClean`, `SendNeverBlocks` |
| `NoClient` | `SafetySpec => []WaitsForNoClient` |
| `HandlerRefinement` | `SafetySpec => ImplementsHandlerSession` |

The argument. `done` is closed when all handlers have returned and no more can be called (`DoneMeansReturned`), and
main passes the stop of gRPC only with `done`, the HTTP server being shut before (`WayOfMain`, `WayOut`). So a handler that
finds the pool closed belongs to the one path that skipped the stop, and a session is open only while
its handler is on the way to `closeSession` (`OpenSessionHasHandler`). A server ends by sending at most one error
(`ErrorsSent`). The size of the pool and what the database does play no part in it. `Stop` cancels every handler there
is, and after it no other is called, which gives the first half of `NoClient`; a handler and a request hold a
connection only from `Acquire` to the end of the same call (`CallSideHolds`, `RequestSideHolds`), which gives the other.
The refinement needs that no session is known before `StartSession` has answered, a part of
`OpenSessionHasHandler`: else a commit in doubt could be one of a session that was open before.

For what is sent (`EnrollmentInput_proofs`, `TelemetrySamples_proofs`), for texts of every length, all limits and values:

| Theorem | States |
|---|---|
| `InductiveInvariant` (of each) | `Spec => []Inductive` |
| `ChecksAlwaysAgree`, `AgentRefusedForLength` | `Spec => []ChecksAgree`, `Spec => []RefusedForLength` |
| `NormalFormStored` | `Spec => []StoredInNormalForm` |
| `TableAcceptsAll`, `RowsAreSamples` | `Spec => []TableAccepts`, `Spec => []RowIsOneSample` |

The argument. What is left of a text after stripping has ends that are not stripped, unless it is empty (`Stripped`), so
what both Go and Rust have trimmed has nothing for Rust or SQL to trim at its ends (`NothingToStrip`), and a text has no more
characters than bytes (`BytesOfText`): therefore bytes within the limit are characters within it. To trim twice is to trim once (`TrimmedOnce`), so what is stored
would be accepted again unchanged. The loop over the capabilities keeps, after `handled` turns, the first appearances among that many
(`Loop`): a capability that is kept appears first where it is handled, later than all that were kept before
(`AppearanceKept`). The loop is an action per turn and not a recursive function, so this is an invariant and needs no
induction over the list. Rounding
to hundredths cannot leave the range from 0 to 100 because both ends are hundredths (`ValidRow`), and an upsert that
replaces every column leaves nothing of the row before (`UpsertReplaces`).

For the stack (`Stack_proofs`), for any set of agents and any number of databases:

| Theorem | States |
|---|---|
| `InductiveInvariant` | `Spec => []Inductive` |
| `DataKept`, `Unstranded`, `Schema` | `Spec => []` of `LostOnlyByConfirmedReset`, `StrandedUntilFullReset`, `ServerHasSchema` |
| `LossIsQuiet` | `Spec => NothingRunsOverLostData` |

The argument. A command in progress that removes volumes is a confirmed `down` with `--remove-orphans`
(`CommandFits`), so that what is removed before the volumes is everything (`NothingPresent`); and where postgres runs or a
schema is, there is a database (`DatabaseExists`).

Every safety property, action property and refinement of a passing run is proved. Only model-checked are the liveness
properties `CancelledStreamReturns`, `GoneAgentGoesOffline`, `StartSettles`, `ShutdownEnds`, `GoneClientFreesCall` and
`AgentEnrolls` (fairness and ENABLED are out of reach of the prover).

## 5. What is not modelled

Of presence and telemetry: `occurred_at` of events (set from the start of the
transaction, so two events may be out of order by it though in order by id; nothing in the repository reads it) and `received_at`; the limit of the
connection pool (in `Application`); real time (`sessionCloseTimeout` is the possibility of `CloseSessionFails`,
keepalive is `Cancel`); revocation of identities (no code sets `revoked_at`); a statement of a
given-up handler that PostgreSQL executes much later - `RecordFails` and `TouchFails` let it happen
at once, and a given-up transaction cannot commit.

Of enrollment: secrets and hashes themselves (256 random bits, taken to be unique, known by their
call); what is in a character beyond its class; configuration; temporary
files that a killed agent leaves behind, which no later start reads or removes.

Of the process: opening the pool, which fails before anything else exists; the texts of errors; time, but for the one
deadline of `shutdown` (the timeouts of a close and of a ping are steps that may come at any time, and come in the end). That a container
is killed as early as the deadline passes is a prefix of a behavior of `Application`, and `Crash` in `StreamUpdates`
shows what it does to the rows.

Of the stack: two commands of `arxveil` at work at the same time, apart from a start in the foreground (docker
does not promise anything of them that this code relies on); the search for the root of the repository, without
which no command is started; building images; ports.

Not at all: the configuration of the server (three variables, each with a default, read once), the Flutter application
(the template), generated code.

## 6. Plan

1. `StreamUpdates`, `Presence` - done: presence is what the system is for.
2. `Enrollment`, `HostIdentity` - done.
3. `Application` - done.
4. `StreamUpdates` with crashes of the server - done.
5. `EnrollmentInput`, `TelemetrySamples` - done: the values the first modules accept or refuse by choice.
6. `Stack` - done: what starts, ends and loses the state of all of them.
7. `Sessions_proofs` - done: the safety properties of presence that were only model-checked.
8. `HandlerSession`, with which `StreamUpdates` and `Application` speak of the same handlers, and the loop of
   `validateInput` turn by turn - done; every safety property of the runs is proved.
9. Left: `occurred_at` from the start of the transaction and the index that orders events by it, once something
   reads it; the error paths of `save_new` with its temporary files; the agent's side of `StreamUpdates`, once it has one.
