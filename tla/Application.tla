---------------------------- MODULE Application ----------------------------
(***************************************************************************)
(* The life of a server process of Arxveil: cmd/arxveil-server/main.go     *)
(* (run) and application.go (serve, shutdown, gracefulStopGRPC), with the  *)
(* RPCs and HTTP requests that are in flight while it stops.               *)
(*                                                                         *)
(* The goroutine of main starts the two servers and waits for a signal or  *)
(* for an error of one of them.  It then shuts down the HTTP server, stops *)
(* the gRPC server, and closes the connection pool, which every RPC needs  *)
(* to the end: the deferred closeSession of StreamUpdates is a database    *)
(* call like the others.                                                   *)
(*                                                                         *)
(* A handler is reduced to its calls of the database, each of which takes  *)
(* one connection of the pool and gives it back; what the calls do to the  *)
(* rows is the subject of StreamUpdates and Enrollment.                    *)
(***************************************************************************)
EXTENDS Naturals, FiniteSets

CONSTANTS
  Calls,             \* the RPCs, each StreamUpdates or Enroll
  Requests,          \* the HTTP requests
  PoolSize           \* how many connections the pool may have

ASSUME ConstantAssumption ==
  /\ Calls \cap Requests = {}
  /\ PoolSize \in Nat \ {0}

VARIABLES
  main,        \* the statement the goroutine of main is at
  signalled,   \* has SIGINT or SIGTERM been received?
  expired,     \* has the context of shutdown() reached its deadline?
  err,         \* the error run() is going to return
  errors,      \* how many errors the channel serverErrors holds
  http,        \* what the HTTP server does with connections
  httpServe,   \* the goroutine of serveHTTP
  grpc,        \* what the gRPC server does with new RPCs
  grpcServe,   \* the goroutine of serveGRPC
  done,        \* the channel of gracefulStopGRPC is closed
  handler,     \* the statement the handler of an RPC is at
  cancelled,   \* is the context of the RPC cancelled?
  session,     \* what has become of the presence session of the RPC
  request,     \* how far an HTTP request has come
  pool,        \* is the pool open?
  conns        \* the RPCs and requests that hold a connection of the pool

mainVars == <<main, signalled, expired, err>>
serverVars == <<errors, http, httpServe, grpc, grpcServe, done>>
handlerVars == <<handler, cancelled, session>>
clientVars == <<handlerVars, request, pool, conns>>
vars == <<mainVars, serverVars, clientVars>>

----------------------------------------------------------------------------
(* Where the goroutines can be                                             *)

Main == {"new", "select", "http", "polling", "graceful", "waitDone", "close",
         "drainPool", "exited"}

Serve == {"none", "starting", "serving", "sending", "ended"}

\* The handler is in a call of the database.
InCall == {"enroll", "find", "start", "record", "touch", "close"}

\* A handler that has returned, or was never called.
Idle == {"none", "returned"}

Handler == {"first", "recv"} \cup InCall \cup Idle

\* "doubt": StartSession was given up while its commit was under way.
\* "failed": CloseSession failed.  "shutOut": it found the pool closed.
Session == {"none", "open", "closed", "doubt", "failed", "shutOut"}

\* A request that http.Server.Shutdown waits for.
Active == {"reading", "ping", "finishing"}

Request == {"none", "done"} \cup Active

TypeOK ==
  /\ main \in Main
  /\ signalled \in BOOLEAN
  /\ expired \in BOOLEAN
  /\ err \in {"none", "listen", "serve", "shutdown"}
  /\ errors \in Nat
  /\ http \in {"open", "deaf", "shut"}
  /\ httpServe \in Serve
  /\ grpc \in {"open", "draining", "refusing", "stopped"}
  /\ grpcServe \in Serve
  /\ done \in BOOLEAN
  /\ handler \in [Calls -> Handler]
  /\ cancelled \in [Calls -> BOOLEAN]
  /\ session \in [Calls -> Session]
  /\ request \in [Requests -> Request]
  /\ pool \in BOOLEAN
  /\ conns \subseteq Calls \cup Requests

\* openDatabasePool has succeeded, and no goroutine of a server exists yet.
Init ==
  /\ main = "new"
  /\ signalled = FALSE
  /\ expired = FALSE
  /\ err = "none"
  /\ errors = 0
  /\ http = "open"
  /\ httpServe = "none"
  /\ grpc = "open"
  /\ grpcServe = "none"
  /\ done = FALSE
  /\ handler = [c \in Calls |-> "none"]
  /\ cancelled = [c \in Calls |-> FALSE]
  /\ session = [c \in Calls |-> "none"]
  /\ request = [r \in Requests |-> "none"]
  /\ pool = TRUE
  /\ conns = {}

\* The process exists, and with it all of its goroutines.
Running == main # "exited"

HandlersReturned == \A c \in Calls : handler[c] \in Idle

NoActiveRequest == \A r \in Requests : request[r] \notin Active

----------------------------------------------------------------------------
(* The goroutine of main                                                   *)

\* newApplication fails if it cannot listen for gRPC; else serve() starts.
NewApplication ==
  /\ main = "new"
  /\ \/ /\ main' = "select"
        /\ httpServe' = "starting"
        /\ grpcServe' = "starting"
        /\ UNCHANGED err
     \/ /\ main' = "close"
        /\ err' = "listen"
        /\ UNCHANGED <<httpServe, grpcServe>>
  /\ UNCHANGED <<signalled, expired, errors, http, grpc, done, clientVars>>

\* shutdown() starts its clock, and Shutdown closes the HTTP listener.
BeginShutdown ==
  /\ main' = "http"
  /\ http' = "shut"
  /\ UNCHANGED <<signalled, expired, httpServe, grpc, grpcServe, done,
                 clientVars>>

SelectSignal ==
  /\ main = "select"
  /\ signalled
  /\ BeginShutdown
  /\ UNCHANGED <<err, errors>>

SelectError ==
  /\ main = "select"
  /\ errors > 0
  /\ errors' = errors - 1
  /\ err' = "serve"
  /\ BeginShutdown

\* Mutation: Close, which does not wait for the requests, for Shutdown.
CloseHTTP ==
  /\ main = "http"
  /\ main' = "graceful"
  /\ UNCHANGED <<signalled, expired, err, serverVars, clientVars>>

\* Shutdown returns when it looks and finds every connection idle.
ShutdownHTTP ==
  /\ main \in {"http", "polling"}
  /\ NoActiveRequest
  /\ main' = "graceful"
  /\ UNCHANGED <<signalled, expired, err, serverVars, clientVars>>

\* Else it waits for its next look, or for the deadline.
ShutdownPolls ==
  /\ main = "http"
  /\ ~NoActiveRequest
  /\ main' = "polling"
  /\ UNCHANGED <<signalled, expired, err, serverVars, clientVars>>

\* Mutation: the error of Shutdown is logged and not returned.
ShutdownTimesOutSilently ==
  /\ main = "polling"
  /\ expired
  /\ main' = "close"
  /\ UNCHANGED <<signalled, expired, err, serverVars, clientVars>>

\* The deadline passes between two looks, though the last request may have ended
\* since: serve() returns the error, and the gRPC server is never stopped.
ShutdownTimesOut ==
  /\ main = "polling"
  /\ expired
  /\ err' = "shutdown"
  /\ main' = "close"
  /\ UNCHANGED <<signalled, expired, serverVars, clientVars>>

SelectDone ==
  /\ main \in {"graceful", "waitDone"}
  /\ done
  /\ main' = "close"
  /\ UNCHANGED <<signalled, expired, err, serverVars, clientVars>>

\* Mutation: the deadline only ends the select, and <-done waits for agents.
SelectExpiredWithoutStop ==
  /\ main = "graceful"
  /\ expired
  /\ main' = "waitDone"
  /\ UNCHANGED <<signalled, expired, err, serverVars, clientVars>>

\* Mutation: no <-done after server.Stop(), which does not wait for handlers.
SelectExpiredWithoutWait ==
  /\ main = "graceful"
  /\ expired
  /\ grpc' = "stopped"
  /\ cancelled' = [c \in Calls |-> cancelled[c] \/ handler[c] \notin Idle]
  /\ main' = "close"
  /\ UNCHANGED <<signalled, expired, err, errors, http, httpServe, grpcServe,
                 done, handler, session, request, pool, conns>>

\* server.Stop() closes the connections and so cancels every RPC.
SelectExpired ==
  /\ main = "graceful"
  /\ expired
  /\ grpc' = "stopped"
  /\ cancelled' = [c \in Calls |-> cancelled[c] \/ handler[c] \notin Idle]
  /\ main' = "waitDone"
  /\ UNCHANGED <<signalled, expired, err, errors, http, httpServe, grpcServe,
                 done, handler, session, request, pool, conns>>

\* The deferred pool.Close() refuses new connections ...
ClosePool ==
  /\ main = "close"
  /\ pool' = FALSE
  /\ main' = "drainPool"
  /\ UNCHANGED <<signalled, expired, err, serverVars, handlerVars, request,
                 conns>>

\* ... and waits for those in use.  The process ends with status 1 if run()
\* returns an error, else with status 0.
Exit ==
  /\ main = "drainPool"
  /\ conns = {}
  /\ main' = "exited"
  /\ UNCHANGED <<signalled, expired, err, serverVars, clientVars>>

MainStep ==
  /\ Running
  /\ \/ NewApplication
     \/ SelectSignal
     \/ SelectError
     \/ ShutdownHTTP
     \/ ShutdownPolls
     \/ ShutdownTimesOut
     \/ SelectDone
     \/ SelectExpired
     \/ ClosePool
     \/ Exit

----------------------------------------------------------------------------
(* serveHTTP and serveGRPC                                                 *)

\* Mutation: room for one error only.
CapacityOne == 1

\* make(chan error, 2)
Capacity == 2

\* ListenAndServe cannot listen, or finds the server shut down already.
ListenHTTP ==
  /\ httpServe = "starting"
  /\ \/ http = "open" /\ httpServe' = "serving" /\ UNCHANGED http
     \/ http = "open" /\ httpServe' = "sending" /\ http' = "deaf"
     \/ http = "shut" /\ httpServe' = "ended" /\ UNCHANGED http
  /\ UNCHANGED <<mainVars, errors, grpc, grpcServe, done, clientVars>>

\* ErrServerClosed is no error; a failing listener is.
ReturnHTTP ==
  /\ httpServe = "serving"
  /\ httpServe' = IF http = "shut" THEN "ended" ELSE "sending"
  /\ UNCHANGED <<mainVars, errors, http, grpc, grpcServe, done, clientVars>>

SendHTTP ==
  /\ httpServe = "sending"
  /\ errors < Capacity
  /\ errors' = errors + 1
  /\ httpServe' = "ended"
  /\ UNCHANGED <<mainVars, http, grpc, grpcServe, done, clientVars>>

\* Serve on a server that was stopped before returns ErrServerStopped.
ServeGRPC ==
  /\ grpcServe = "starting"
  /\ grpcServe' = IF grpc = "open" THEN "serving" ELSE "sending"
  /\ UNCHANGED <<mainVars, errors, http, httpServe, grpc, done, clientVars>>

\* The listener fails, or a stop has ended and Serve returns nil.
ReturnGRPC ==
  /\ grpcServe = "serving"
  /\ \/ grpc = "open" /\ grpcServe' = "sending"
     \/ (grpc = "stopped" \/ done) /\ grpcServe' = "ended"
  /\ UNCHANGED <<mainVars, errors, http, httpServe, grpc, done, clientVars>>

SendGRPC ==
  /\ grpcServe = "sending"
  /\ errors < Capacity
  /\ errors' = errors + 1
  /\ grpcServe' = "ended"
  /\ UNCHANGED <<mainVars, http, httpServe, grpc, done, clientVars>>

\* A server may fail, but it does not have to.
ServeStep ==
  /\ Running
  /\ \/ ListenHTTP
     \/ ReturnHTTP
     \/ SendHTTP
     \/ ServeGRPC
     \/ ReturnGRPC
     \/ SendGRPC

----------------------------------------------------------------------------
(* The goroutine of gracefulStopGRPC: server.GracefulStop(); close(done)   *)

\* Connected clients are told to go away; a server that has not served yet
\* has none.
Drain ==
  /\ main \in {"graceful", "waitDone"}
  /\ grpc = "open"
  /\ grpc' = IF grpcServe = "starting" THEN "refusing" ELSE "draining"
  /\ UNCHANGED <<mainVars, errors, http, httpServe, grpcServe, done,
                 clientVars>>

\* Until they have heard it, they may still start RPCs.
RefuseCalls ==
  /\ grpc = "draining"
  /\ grpc' = "refusing"
  /\ UNCHANGED <<mainVars, errors, http, httpServe, grpcServe, done,
                 clientVars>>

\* GracefulStop waits for the handlers, also when Stop has overtaken it.
Drained ==
  /\ main \in {"graceful", "waitDone"}
  /\ grpc \in {"refusing", "stopped"}
  /\ HandlersReturned
  /\ ~done
  /\ done' = TRUE
  /\ UNCHANGED <<mainVars, errors, http, httpServe, grpc, grpcServe,
                 clientVars>>

StopStep == Running /\ (Drain \/ RefuseCalls \/ Drained)

----------------------------------------------------------------------------
(* The handlers of RPCs                                                    *)

Goto(c, l) == handler' = [handler EXCEPT ![c] = l]

\* The handler of StreamUpdates waits for its first message; that of Enroll
\* returns at once if the input is invalid.
AcceptCall(c) ==
  /\ handler[c] = "none"
  /\ grpcServe \notin {"none", "starting"}
  /\ grpc \in {"open", "draining"}
  /\ \E l \in {"first", "enroll", "returned"} : Goto(c, l)
  /\ UNCHANGED <<mainVars, serverVars, cancelled, session, request, pool,
                 conns>>

\* The client or its connection is gone.
Cancel(c) ==
  /\ handler[c] \notin Idle
  /\ ~cancelled[c]
  /\ cancelled' = [cancelled EXCEPT ![c] = TRUE]
  /\ UNCHANGED <<mainVars, serverVars, handler, session, request, pool, conns>>

\* A message, or the end of the stream.  A first message that does not
\* authenticate, and an invalid one later, end the call.
Recv(c) ==
  /\ \/ handler[c] = "first" /\ \E l \in {"find", "returned"} : Goto(c, l)
     \/ handler[c] = "recv"
        /\ \E l \in {"record", "touch", "close"} : Goto(c, l)
  /\ UNCHANGED <<mainVars, serverVars, cancelled, session, request, pool,
                 conns>>

\* Mutation: Recv's error is returned before closeSession is deferred.
RecvErrorWithoutClose(c) ==
  /\ cancelled[c]
  /\ handler[c] \in {"first", "recv"}
  /\ Goto(c, "returned")
  /\ UNCHANGED <<mainVars, serverVars, cancelled, session, request, pool,
                 conns>>

RecvError(c) ==
  /\ cancelled[c]
  /\ \/ handler[c] = "first" /\ Goto(c, "returned")
     \/ handler[c] = "recv" /\ Goto(c, "close")
  /\ UNCHANGED <<mainVars, serverVars, cancelled, session, request, pool,
                 conns>>

\* The context of the call is cancelled; closeSession has one of its own.
GivenUp(c) == cancelled[c] /\ handler[c] # "close"

Acquire(c) ==
  /\ handler[c] \in InCall
  /\ c \notin conns
  /\ ~GivenUp(c)
  /\ pool
  /\ Cardinality(conns) < PoolSize
  /\ conns' = conns \cup {c}
  /\ UNCHANGED <<mainVars, serverVars, handlerVars, request, pool>>

\* Mutation: a heartbeat does not give its connection back.
ReleaseUnlessTouch(c) == conns' = IF handler[c] = "touch" THEN conns ELSE conns \ {c}

\* The deferred release of a connection.
Release(c) == conns' = conns \ {c}

\* The database answers, and the connection goes back to the pool.
Answer(c) ==
  /\ c \in conns
  /\ Release(c)
  /\ \/ handler[c] = "enroll" /\ Goto(c, "returned") /\ UNCHANGED session
     \/ /\ handler[c] = "find"
        /\ \E l \in {"start", "returned"} : Goto(c, l)
        /\ UNCHANGED session
     \/ /\ handler[c] = "start"
        /\ Goto(c, "recv")
        /\ session' = [session EXCEPT ![c] = "open"]
     \/ handler[c] = "record" /\ Goto(c, "touch") /\ UNCHANGED session
     \/ handler[c] = "touch" /\ Goto(c, "recv") /\ UNCHANGED session
     \/ /\ handler[c] = "close"
        /\ Goto(c, "returned")
        /\ session' = [session EXCEPT ![c] = "closed"]
  /\ UNCHANGED <<mainVars, serverVars, cancelled, request, pool>>

\* Mutation: a failing call ends the handler, the deferred close forgotten.
FailsWithoutClose(l) == "returned"

\* Where a failing call leads its handler.
FailsTo(l) == IF l \in {"record", "touch"} THEN "close" ELSE "returned"

\* A call of the database fails.  A commit may be in doubt then.
Fails(c) ==
  /\ handler[c] \in InCall
  /\ Release(c)
  /\ Goto(c, FailsTo(handler[c]))
  /\ \/ handler[c] # "close" /\ UNCHANGED session
     \/ /\ handler[c] = "start"
        /\ c \in conns
        /\ session' = [session EXCEPT ![c] = "doubt"]
     \/ /\ handler[c] = "close"
        /\ session' = [session EXCEPT ![c] =
                         IF c \in conns \/ pool THEN "failed" ELSE "shutOut"]
  /\ UNCHANGED <<mainVars, serverVars, cancelled, request, pool>>

\* Mutation: the context of closeSession has no deadline.
EndsWithClient(c) == GivenUp(c) \/ (c \notin conns /\ ~pool)

\* A call does not wait for the database, or for a connection, for ever: a client
\* that is gone, the sessionCloseTimeout of closeSession, which also passes in the
\* queue of the pool, and a pool that is closed end it.
WaitEnds(c) ==
  \/ GivenUp(c)
  \/ handler[c] = "close"
  \/ c \notin conns /\ ~pool

GiveUp(c) == WaitEnds(c) /\ Fails(c)

\* The database lets a call down, or cannot be connected to.
DatabaseFails(c) == (c \in conns \/ pool) /\ Fails(c)

\* What a handler does without waiting for its client or the database ...
HandlerStep(c) == Running /\ (RecvError(c) \/ GiveUp(c))

\* ... and in a call of the database.
DatabaseStep(c) == Running /\ (Acquire(c) \/ Answer(c) \/ DatabaseFails(c))

----------------------------------------------------------------------------
(* HTTP requests: /health/live answers at once, /health/ready pings the    *)
(* database first.                                                         *)

AcceptRequest(r) ==
  /\ request[r] = "none"
  /\ httpServe \notin {"none", "starting"}
  /\ http = "open"
  /\ request' = [request EXCEPT ![r] = "reading"]
  /\ UNCHANGED <<mainVars, serverVars, handlerVars, pool, conns>>

Handle(r) ==
  /\ request[r] = "reading"
  /\ \E l \in {"ping", "finishing"} : request' = [request EXCEPT ![r] = l]
  /\ UNCHANGED <<mainVars, serverVars, handlerVars, pool, conns>>

AcquirePing(r) ==
  /\ request[r] = "ping"
  /\ r \notin conns
  /\ pool
  /\ Cardinality(conns) < PoolSize
  /\ conns' = conns \cup {r}
  /\ UNCHANGED <<mainVars, serverVars, handlerVars, request, pool>>

\* The ping succeeds, fails, or exceeds its timeout.
PingEnds(r) ==
  /\ request[r] = "ping"
  /\ request' = [request EXCEPT ![r] = "finishing"]
  /\ conns' = conns \ {r}
  /\ UNCHANGED <<mainVars, serverVars, handlerVars, pool>>

\* Nothing limits the time a client takes to send the rest of its request.
EndRequest(r) ==
  /\ request[r] = "finishing"
  /\ request' = [request EXCEPT ![r] = "done"]
  /\ UNCHANGED <<mainVars, serverVars, handlerVars, pool, conns>>

RequestStep(r) == Running /\ (AcquirePing(r) \/ PingEnds(r))

----------------------------------------------------------------------------
(* The clients, the clock and the operating system                         *)

\* Once serve() has made its choice a signal changes nothing any more.
Signal ==
  /\ main \in {"new", "select"}
  /\ ~signalled
  /\ signalled' = TRUE
  /\ UNCHANGED <<main, expired, err, serverVars, clientVars>>

\* shutdownTimeout has passed since shutdown() began.
Expire ==
  /\ main \in {"http", "polling", "graceful"}
  /\ ~expired
  /\ expired' = TRUE
  /\ UNCHANGED <<main, signalled, err, serverVars, clientVars>>

Timer == Running /\ Expire

ClientStep ==
  /\ Running
  /\ \/ \E c \in Calls : AcceptCall(c) \/ Cancel(c) \/ Recv(c)
     \/ \E r \in Requests : AcceptRequest(r) \/ Handle(r) \/ EndRequest(r)

SystemStep == Running /\ Signal

\* A process that has ended stays so.  One that is killed shows a prefix of
\* some behavior, which needs no action.
Terminated == ~Running /\ UNCHANGED vars

Next ==
  \/ MainStep
  \/ ServeStep
  \/ StopStep
  \/ \E c \in Calls : HandlerStep(c) \/ DatabaseStep(c)
  \/ \E r \in Requests : RequestStep(r)
  \/ Timer
  \/ ClientStep
  \/ SystemStep
  \/ Terminated

SafetySpec == Init /\ [][Next]_vars

\* Goroutines that wait neither for a client nor for the database are scheduled,
\* and timers go off.  Nobody has to fail, to send a signal or to end a stream,
\* and the database need not answer.
Fairness ==
  /\ WF_vars(MainStep)
  /\ WF_vars(Running /\ (SendHTTP \/ SendGRPC))
  /\ WF_vars(StopStep)
  /\ WF_vars(Timer)
  /\ \A c \in Calls : WF_vars(HandlerStep(c))
  /\ \A r \in Requests : WF_vars(RequestStep(r))

Spec == SafetySpec /\ Fairness

----------------------------------------------------------------------------
(* Properties                                                              *)

\* run() is past serve(): it closes the pool, or has done so.
PastServe == main \in {"close", "drainPool", "exited"} \/ ~pool

\* The pool is closed only when no handler and no request can want it any
\* more, whichever of a deadline, a cancelled client and a returning handler
\* comes first (application.go:124-137 before main.go:31) - unless the HTTP
\* server could not be shut down in time (application.go:116-118).
PoolClosedLast ==
  PastServe /\ err # "shutdown" => HandlersReturned /\ NoActiveRequest

\* closeSession always gets its turn (server.go:109-130): a process that ends
\* by itself, after a failed server too, leaves no session behind that it has
\* not tried to close with the pool open - with the same exception.
SessionsClosed ==
  main = "exited" /\ err # "shutdown" =>
    \A c \in Calls : session[c] \notin {"open", "shutOut"}

\* Status 0 (main.go:20-23) means a stop that was asked for, and a clean one:
\* every RPC and every request ran to its end.
StatusZeroIsClean ==
  main = "exited" /\ err = "none" =>
    /\ signalled
    /\ HandlersReturned
    /\ NoActiveRequest

\* serverErrors (application.go:76) has room for every error that is ever
\* sent, though serve() receives one at most, and none if a signal came first.
SendNeverBlocks == "sending" \in {httpServe, grpcServe} => errors < Capacity

\* run() waits twice with the clients still there: for <-done after Stop
\* (application.go:135), when every handler left has its context cancelled, and
\* for the connections in pool.Close (main.go:31), each of which is in a call of
\* the database.  Neither wait depends on what a client does.
WaitsForNoClient ==
  /\ main = "waitDone" => \A c \in Calls : handler[c] \in Idle \/ cancelled[c]
  /\ \A c \in Calls \cap conns : handler[c] \in InCall
  /\ \A r \in Requests \cap conns : request[r] = "ping"

\* What becomes of a handler and its session is what HandlerSession says; that
\* Enroll has no session, and that a stop may come between any two steps, makes
\* no difference to it.  A commit in doubt was never known to the handler.
Handlers == INSTANCE HandlerSession WITH
  MayBeKilled <- FALSE,
  handler <- [c \in Calls |-> IF handler[c] = "enroll" THEN "first" ELSE handler[c]],
  session <- [c \in Calls |-> CASE session[c] = "doubt" -> "none"
                               [] session[c] = "shutOut" -> "failed"
                               [] OTHER -> session[c]]

ImplementsHandlerSession == Handlers!Spec

\* A signal, and a failure of either server, end the process, however long
\* clients keep their streams open, however few connections the pool has and
\* though the database never answers again (application.go:112-137).
ShutdownEnds ==
  (signalled \/ "sending" \in {httpServe, grpcServe}) ~> ~Running

\* A call whose client is gone, or whose stream has ended, ends and holds no
\* connection, although its handler needs one more of them for closeSession
\* (presence_store.go:110) and others may hold them all for ever, waiting for the
\* database: closeSession does not wait for longer than its timeout.
GoneClientFreesCall ==
  \A c \in Calls :
    cancelled[c] \/ handler[c] = "close" ~> handler[c] \in Idle /\ c \notin conns

----------------------------------------------------------------------------
(* The inductive invariant                                                 *)

\* Nothing is served before serve() has started the servers.
NothingBeforeServe ==
  main = "new" \/ err = "listen" =>
    /\ httpServe = "none"
    /\ grpcServe = "none"
    /\ HandlersReturned
    /\ NoActiveRequest
    /\ \A c \in Calls : session[c] = "none"

\* How run() has come where it is.
WayOfMain ==
  /\ main = "new" => err = "none"
  /\ main \in {"new", "select"} => pool /\ ~done
  /\ main \in {"select", "http", "polling", "graceful", "waitDone"} =>
       err \in {"none", "serve"} /\ pool
  /\ main \in {"http", "polling", "graceful", "waitDone"} /\ err = "none" => signalled
  /\ main \in {"http", "polling", "graceful", "waitDone"} => http = "shut"
  /\ main \in {"graceful", "waitDone"} => NoActiveRequest
  /\ main = "waitDone" => grpc = "stopped"

\* run() has left serve() because gRPC was stopped, the HTTP server before it.
WayOut ==
  PastServe /\ err \in {"none", "serve"} =>
    /\ done
    /\ http = "shut"
    /\ NoActiveRequest
    /\ err = "none" => signalled

\* gracefulStopGRPC returns with every handler, and there are no new ones.
DoneMeansReturned == done => grpc \in {"refusing", "stopped"} /\ HandlersReturned

\* A session comes of StartSession, and is open only while its handler is going
\* to close it.
OpenSessionHasHandler ==
  \A c \in Calls :
    /\ handler[c] \in {"none", "first", "enroll", "find", "start"} => session[c] = "none"
    /\ session[c] = "open" => handler[c] \in {"recv", "record", "touch", "close"}
    /\ session[c] = "shutOut" => err = "shutdown"

\* Each server sends one error at most.
ErrorsSent ==
  errors <= (IF httpServe = "ended" THEN 1 ELSE 0)
            + (IF grpcServe = "ended" THEN 1 ELSE 0)

Inductive ==
  /\ TypeOK
  /\ NothingBeforeServe
  /\ WayOfMain
  /\ WayOut
  /\ DoneMeansReturned
  /\ OpenSessionHasHandler
  /\ ErrorsSent

=============================================================================
