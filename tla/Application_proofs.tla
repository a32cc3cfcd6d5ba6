-------------------------- MODULE Application_proofs --------------------------
(***************************************************************************)
(* Proofs about Application, for any set of calls and requests and any     *)
(* size of the pool.                                                       *)
(*                                                                         *)
(* Inductive is shown to be kept by every step, one conjunct at a time.    *)
(* Lemma Cases sorts the steps by the goroutine that takes them; lemmas    *)
(* CallSideMoves and RequestSideMoves say all that the proofs need to know *)
(* of a step of an RPC or of an HTTP request.                              *)
(***************************************************************************)
EXTENDS Application, TLAPS

USE DEF mainVars, serverVars, handlerVars, clientVars

\* A step of the handler of call c, of its client or of its connection.
CallSide(c) ==
  HandlerStep(c) \/ DatabaseStep(c) \/ (Running /\ (AcceptCall(c) \/ Cancel(c) \/ Recv(c)))

\* A step of request r or of its client.
RequestSide(r) ==
  RequestStep(r) \/ (Running /\ (AcceptRequest(r) \/ Handle(r) \/ EndRequest(r)))

\* Every step is one of these.
LEMMA Cases ==
  ASSUME [Next]_vars
  PROVE  \/ MainStep \/ ServeStep \/ StopStep \/ Timer \/ SystemStep
         \/ \E c \in Calls : CallSide(c)
         \/ \E r \in Requests : RequestSide(r)
         \/ UNCHANGED vars
BY DEF Next, ClientStep, Terminated, CallSide, RequestSide

\* A handler that is not called or has returned does nothing, and is called only by
\* a server that takes calls.  A session is open from the answer to StartSession
\* until closeSession, and only a closed pool shuts it out.
LEMMA CallSideMoves ==
  ASSUME TypeOK, NEW c \in Calls, CallSide(c)
  PROVE  /\ UNCHANGED <<mainVars, serverVars, request, pool>>
         /\ handler' = [handler EXCEPT ![c] = handler'[c]]
         /\ session' = [session EXCEPT ![c] = session'[c]]
         /\ handler'[c] \in Handler
         /\ session'[c] \in Session
         /\ cancelled' \in [Calls -> BOOLEAN]
         /\ conns' \subseteq Calls \cup Requests
         /\ handler[c] \in Idle /\ handler'[c] \notin Idle =>
              grpcServe # "none" /\ grpc \in {"open", "draining"}
         /\ handler[c] \in Idle => session'[c] = session[c]
         /\ session'[c] = "open" =>
              \/ handler'[c] \in {"recv", "record", "touch", "close"}
              \/ session[c] = "open" /\ handler[c] \notin {"recv", "record", "touch", "close"}
         /\ session'[c] = "shutOut" => session[c] = "shutOut" \/ ~pool
         /\ handler'[c] \in {"none", "first", "enroll", "find", "start"} =>
              /\ handler[c] \in {"none", "first", "enroll", "find", "start"}
              /\ session'[c] = session[c]
<1> USE DEF TypeOK, Goto, Handler, InCall, Idle, Session
<1>1. CASE AcceptCall(c)
  BY <1>1 DEF AcceptCall
<1>2. CASE Cancel(c)
  BY <1>2 DEF Cancel
<1>3. CASE Recv(c)
  BY <1>3 DEF Recv
<1>4. CASE RecvError(c)
  BY <1>4 DEF RecvError
<1>5. CASE Acquire(c)
  BY <1>5 DEF Acquire
<1>6. CASE Answer(c)
  BY <1>6 DEF Answer, Release
<1>7. CASE Fails(c)
  BY <1>7 DEF Fails, FailsTo, Release
<1> QED
  BY <1>1, <1>2, <1>3, <1>4, <1>5, <1>6, <1>7
  DEF CallSide, HandlerStep, DatabaseStep, GiveUp, DatabaseFails

\* A request becomes active only while the HTTP server takes requests.
LEMMA RequestSideMoves ==
  ASSUME TypeOK, NEW r \in Requests, RequestSide(r)
  PROVE  /\ UNCHANGED <<mainVars, serverVars, handlerVars, pool>>
         /\ request' = [request EXCEPT ![r] = request'[r]]
         /\ request'[r] \in Request
         /\ conns' \subseteq Calls \cup Requests
         /\ request[r] \notin Active /\ request'[r] \in Active =>
              httpServe # "none" /\ http = "open"
<1> USE DEF TypeOK, Request, Active
<1>1. CASE AcceptRequest(r)
  BY <1>1 DEF AcceptRequest
<1>2. CASE Handle(r)
  BY <1>2 DEF Handle
<1>3. CASE AcquirePing(r)
  BY <1>3 DEF AcquirePing
<1>4. CASE PingEnds(r)
  BY <1>4 DEF PingEnds
<1>5. CASE EndRequest(r)
  BY <1>5 DEF EndRequest
<1> QED
  BY <1>1, <1>2, <1>3, <1>4, <1>5 DEF RequestSide, RequestStep

\* The other goroutines leave the calls and the requests alone, but for Stop,
\* which cancels.
LEMMA OthersLeave ==
  ASSUME MainStep \/ ServeStep \/ StopStep \/ Timer \/ SystemStep
  PROVE  UNCHANGED <<handler, session, request, conns>>
<1>1. CASE MainStep
  BY <1>1 DEF MainStep, NewApplication, SelectSignal, SelectError, BeginShutdown,
     ShutdownHTTP, ShutdownPolls, ShutdownTimesOut, SelectDone, SelectExpired, ClosePool, Exit
<1>2. CASE ServeStep
  BY <1>2 DEF ServeStep, ListenHTTP, ReturnHTTP, SendHTTP, ServeGRPC, ReturnGRPC,
     SendGRPC
<1>3. CASE StopStep
  BY <1>3 DEF StopStep, Drain, RefuseCalls, Drained
<1>4. CASE Timer \/ SystemStep
  BY <1>4 DEF Timer, SystemStep, Expire, Signal
<1> QED
  BY <1>1, <1>2, <1>3, <1>4

----------------------------------------------------------------------------
(* Types                                                                   *)

LEMMA TypeStep ==
  ASSUME TypeOK, [Next]_vars
  PROVE  TypeOK'
<1>1. ASSUME NEW c \in Calls, CallSide(c) PROVE TypeOK'
  BY <1>1, CallSideMoves DEF TypeOK
<1>2. ASSUME NEW r \in Requests, RequestSide(r) PROVE TypeOK'
  BY <1>2, RequestSideMoves DEF TypeOK
<1>3. CASE MainStep
  <2> USE DEF TypeOK, Main, Serve
  <2>1. CASE NewApplication \/ SelectSignal \/ SelectError
    BY <2>1 DEF NewApplication, SelectSignal, SelectError, BeginShutdown
  <2>2. CASE ShutdownHTTP \/ ShutdownPolls \/ ShutdownTimesOut
    BY <2>2 DEF ShutdownHTTP, ShutdownPolls, ShutdownTimesOut
  <2>3. CASE SelectDone \/ Exit
    BY <2>3 DEF SelectDone, Exit
  <2>4. CASE SelectExpired
    BY <2>4 DEF SelectExpired
  <2>5. CASE ClosePool
    <3>1. main' \in Main /\ pool' \in BOOLEAN
      BY <2>5 DEF ClosePool
    <3>2. UNCHANGED <<signalled, expired, err, serverVars, handlerVars, request,
                      conns>>
      BY <2>5 DEF ClosePool
    <3> QED
      BY <3>1, <3>2
  <2> QED
    BY <1>3, <2>1, <2>2, <2>3, <2>4, <2>5 DEF MainStep
<1>4. CASE ServeStep
  BY <1>4 DEF ServeStep, ListenHTTP, ReturnHTTP, SendHTTP, ServeGRPC, ReturnGRPC,
     SendGRPC, TypeOK, Serve
<1>5. CASE StopStep
  BY <1>5 DEF StopStep, Drain, RefuseCalls, Drained, TypeOK
<1>6. CASE Timer \/ SystemStep
  BY <1>6 DEF Timer, SystemStep, Expire, Signal, TypeOK
<1>7. CASE UNCHANGED vars
  BY <1>7 DEF vars, TypeOK
<1> QED
  BY <1>1, <1>2, <1>3, <1>4, <1>5, <1>6, <1>7, Cases

----------------------------------------------------------------------------
(* The way of main                                                         *)

LEMMA NothingStep ==
  ASSUME Inductive, [Next]_vars
  PROVE  NothingBeforeServe'
<1> USE DEF Inductive, NothingBeforeServe, HandlersReturned, NoActiveRequest
<1>1. ASSUME NEW c \in Calls, CallSide(c) PROVE NothingBeforeServe'
  BY <1>1, CallSideMoves DEF TypeOK
<1>2. ASSUME NEW r \in Requests, RequestSide(r) PROVE NothingBeforeServe'
  BY <1>2, RequestSideMoves DEF TypeOK
<1>3. CASE MainStep
  <2>1. UNCHANGED <<handler, session, request>>
    BY <1>3, OthersLeave
  <2> QED
    BY <1>3, <2>1
    DEF MainStep, NewApplication, SelectSignal, SelectError, BeginShutdown,
        ShutdownHTTP, ShutdownPolls, ShutdownTimesOut, SelectDone, SelectExpired, ClosePool,
        Exit, WayOfMain
<1>4. CASE ServeStep
  <2>1. UNCHANGED <<handler, session, request>>
    BY <1>4, OthersLeave
  <2> QED
    BY <1>4, <2>1
    DEF ServeStep, ListenHTTP, ReturnHTTP, SendHTTP, ServeGRPC, ReturnGRPC, SendGRPC
<1>5. CASE StopStep
  BY <1>5 DEF StopStep, Drain, RefuseCalls, Drained
<1>6. CASE Timer \/ SystemStep
  BY <1>6 DEF Timer, SystemStep, Expire, Signal
<1>7. CASE UNCHANGED vars
  BY <1>7 DEF vars
<1> QED
  BY <1>1, <1>2, <1>3, <1>4, <1>5, <1>6, <1>7, Cases

LEMMA WayOfMainStep ==
  ASSUME Inductive, [Next]_vars
  PROVE  WayOfMain'
<1> USE DEF Inductive, WayOfMain, NoActiveRequest
<1>1. ASSUME NEW c \in Calls, CallSide(c) PROVE WayOfMain'
  BY <1>1, CallSideMoves
\* The HTTP server is shut in the states that promise no active request.
<1>2. ASSUME NEW r \in Requests, RequestSide(r) PROVE WayOfMain'
  BY <1>2, RequestSideMoves DEF TypeOK
<1>3. CASE MainStep
  <2>1. UNCHANGED request
    BY <1>3, OthersLeave
  <2>2. CASE NewApplication \/ SelectSignal \/ SelectError
    BY <2>1, <2>2 DEF NewApplication, SelectSignal, SelectError, BeginShutdown
  <2>3. CASE ShutdownHTTP \/ ShutdownPolls
    BY <2>1, <2>3 DEF ShutdownHTTP, ShutdownPolls, WayOfMain
  <2>4. CASE ShutdownTimesOut \/ SelectDone \/ ClosePool \/ Exit
    BY <2>1, <2>4 DEF ShutdownTimesOut, SelectDone, ClosePool, Exit
  <2>5. CASE SelectExpired
    BY <2>1, <2>5 DEF SelectExpired
  <2> QED
    BY <1>3, <2>2, <2>3, <2>4, <2>5 DEF MainStep
<1>4. CASE ServeStep
  <2>1. UNCHANGED request
    BY <1>4, OthersLeave
  <2> QED
    BY <1>4, <2>1
    DEF ServeStep, ListenHTTP, ReturnHTTP, SendHTTP, ServeGRPC, ReturnGRPC, SendGRPC
<1>5. CASE StopStep
  BY <1>5 DEF StopStep, Drain, RefuseCalls, Drained
<1>6. CASE Timer \/ SystemStep
  BY <1>6 DEF Timer, SystemStep, Expire, Signal
<1>7. CASE UNCHANGED vars
  BY <1>7 DEF vars
<1> QED
  BY <1>1, <1>2, <1>3, <1>4, <1>5, <1>6, <1>7, Cases

LEMMA WayOutStep ==
  ASSUME Inductive, [Next]_vars
  PROVE  WayOut'
<1> USE DEF Inductive, WayOut, PastServe, NoActiveRequest
<1>1. ASSUME NEW c \in Calls, CallSide(c) PROVE WayOut'
  BY <1>1, CallSideMoves
<1>2. ASSUME NEW r \in Requests, RequestSide(r) PROVE WayOut'
  BY <1>2, RequestSideMoves DEF TypeOK
<1>3. CASE MainStep
  <2>1. UNCHANGED request
    BY <1>3, OthersLeave
  <2>2. CASE NewApplication \/ SelectSignal \/ SelectError
    BY <2>1, <2>2 DEF NewApplication, SelectSignal, SelectError, BeginShutdown,
                      WayOfMain
  <2>3. CASE ShutdownHTTP \/ ShutdownPolls \/ ShutdownTimesOut \/ SelectExpired
    BY <2>1, <2>3
    DEF ShutdownHTTP, ShutdownPolls, ShutdownTimesOut, SelectExpired, WayOfMain
\* The only way here with err "none" or "serve": <-done, after Shutdown.
  <2>4. CASE SelectDone
    BY <2>1, <2>4 DEF SelectDone, WayOfMain
  <2>5. CASE ClosePool \/ Exit
    BY <2>1, <2>5 DEF ClosePool, Exit
  <2> QED
    BY <1>3, <2>2, <2>3, <2>4, <2>5 DEF MainStep
<1>4. CASE ServeStep
  <2>1. UNCHANGED <<request, main, pool, err, done, signalled>> /\ (http = "shut" => http' = "shut")
    BY <1>4
    DEF ServeStep, ListenHTTP, ReturnHTTP, SendHTTP, ServeGRPC, ReturnGRPC, SendGRPC
  <2> QED
    BY <2>1
<1>5. CASE StopStep
  BY <1>5 DEF StopStep, Drain, RefuseCalls, Drained
<1>6. CASE Timer \/ SystemStep
  BY <1>6 DEF Timer, SystemStep, Expire, Signal
<1>7. CASE UNCHANGED vars
  BY <1>7 DEF vars
<1> QED
  BY <1>1, <1>2, <1>3, <1>4, <1>5, <1>6, <1>7, Cases

----------------------------------------------------------------------------
(* The handlers                                                            *)

LEMMA DoneStep ==
  ASSUME Inductive, [Next]_vars
  PROVE  DoneMeansReturned'
<1> USE DEF Inductive, DoneMeansReturned, HandlersReturned
\* No handler is called once GracefulStop or Stop has refused new calls.
<1>1. ASSUME NEW c \in Calls, CallSide(c) PROVE DoneMeansReturned'
  BY <1>1, CallSideMoves DEF TypeOK
<1>2. ASSUME NEW r \in Requests, RequestSide(r) PROVE DoneMeansReturned'
  BY <1>2, RequestSideMoves
<1>3. CASE MainStep \/ ServeStep \/ Timer \/ SystemStep
  <2>1. UNCHANGED handler
    BY <1>3, OthersLeave
  <2>2. UNCHANGED done /\ grpc' \in {grpc, "stopped"}
    BY <1>3
    DEF MainStep, NewApplication, SelectSignal, SelectError, BeginShutdown,
        ShutdownHTTP, ShutdownPolls, ShutdownTimesOut, SelectDone, SelectExpired, ClosePool,
        Exit, ServeStep, ListenHTTP, ReturnHTTP, SendHTTP, ServeGRPC, ReturnGRPC,
        SendGRPC, Timer, SystemStep, Expire, Signal
  <2> QED
    BY <2>1, <2>2
<1>4. CASE StopStep
  BY <1>4 DEF StopStep, Drain, RefuseCalls, Drained
<1>5. CASE UNCHANGED vars
  BY <1>5 DEF vars
<1> QED
  BY <1>1, <1>2, <1>3, <1>4, <1>5, Cases

LEMMA SessionStep ==
  ASSUME Inductive, [Next]_vars
  PROVE  OpenSessionHasHandler'
<1> USE DEF Inductive, OpenSessionHasHandler
<1>1. ASSUME NEW c \in Calls, CallSide(c) PROVE OpenSessionHasHandler'
  <2>1. /\ UNCHANGED <<err, pool>>
        /\ handler' = [handler EXCEPT ![c] = handler'[c]]
        /\ session' = [session EXCEPT ![c] = session'[c]]
        /\ handler[c] \in Idle => session'[c] = session[c]
        /\ session'[c] = "open" =>
             \/ handler'[c] \in {"recv", "record", "touch", "close"}
             \/ session[c] = "open" /\ handler[c] \notin {"recv", "record", "touch", "close"}
        /\ session'[c] = "shutOut" => session[c] = "shutOut" \/ ~pool
        /\ handler'[c] \in {"none", "first", "enroll", "find", "start"} =>
             session'[c] = "none"
    BY <1>1, CallSideMoves
\* The pool is closed before a handler has returned only after "shutdown".
  <2>2. ~pool /\ handler[c] \notin Idle => err = "shutdown"
    BY DEF TypeOK, WayOut, PastServe, DoneMeansReturned, NothingBeforeServe,
           HandlersReturned
  <2>3. /\ handler'[c] \in {"none", "first", "enroll", "find", "start"} =>
             session'[c] = "none"
        /\ session'[c] = "open" => handler'[c] \in {"recv", "record", "touch", "close"}
        /\ session'[c] = "shutOut" => err' = "shutdown"
    BY <2>1, <2>2
  <2> QED
    BY <2>1, <2>3 DEF TypeOK
<1>2. ASSUME NEW r \in Requests, RequestSide(r) PROVE OpenSessionHasHandler'
  BY <1>2, RequestSideMoves
<1>3. CASE MainStep \/ ServeStep \/ StopStep \/ Timer \/ SystemStep
  <2>1. UNCHANGED <<handler, session>>
    BY <1>3, OthersLeave
  <2>2. err = "shutdown" => err' = "shutdown"
    BY <1>3
    DEF MainStep, NewApplication, SelectSignal, SelectError, BeginShutdown,
        ShutdownHTTP, ShutdownPolls, ShutdownTimesOut, SelectDone, SelectExpired, ClosePool,
        Exit, ServeStep, ListenHTTP, ReturnHTTP, SendHTTP, ServeGRPC, ReturnGRPC,
        SendGRPC, StopStep, Drain, RefuseCalls, Drained, Timer, SystemStep,
        Expire, Signal, WayOfMain
  <2> QED
    BY <2>1, <2>2
<1>4. CASE UNCHANGED vars
  BY <1>4 DEF vars
<1> QED
  BY <1>1, <1>2, <1>3, <1>4, Cases

----------------------------------------------------------------------------
(* The channel                                                             *)

LEMMA ErrorsStep ==
  ASSUME Inductive, [Next]_vars
  PROVE  ErrorsSent'
<1> USE DEF Inductive, ErrorsSent, TypeOK
<1>1. ASSUME NEW c \in Calls, CallSide(c) PROVE ErrorsSent'
  BY <1>1, CallSideMoves
<1>2. ASSUME NEW r \in Requests, RequestSide(r) PROVE ErrorsSent'
  BY <1>2, RequestSideMoves
\* NewApplication finds no server ended, and the channel empty.
<1>3. CASE MainStep
  BY <1>3
  DEF MainStep, NewApplication, SelectSignal, SelectError, BeginShutdown,
      ShutdownHTTP, ShutdownPolls, ShutdownTimesOut, SelectDone, SelectExpired, ClosePool, Exit,
      NothingBeforeServe
<1>4. CASE ServeStep
  BY <1>4
  DEF ServeStep, ListenHTTP, ReturnHTTP, SendHTTP, ServeGRPC, ReturnGRPC, SendGRPC
<1>5. CASE StopStep \/ Timer \/ SystemStep
  BY <1>5 DEF StopStep, Drain, RefuseCalls, Drained, Timer, SystemStep, Expire, Signal
<1>6. CASE UNCHANGED vars
  BY <1>6 DEF vars
<1> QED
  BY <1>1, <1>2, <1>3, <1>4, <1>5, <1>6, Cases

----------------------------------------------------------------------------
(* The theorems                                                            *)

LEMMA Initially == Init => Inductive
<1> SUFFICES ASSUME Init PROVE Inductive
  OBVIOUS
<1>1. TypeOK
  BY DEF Init, TypeOK, Main, Serve, Handler, Idle, Session, Request
<1>2. HandlersReturned /\ NoActiveRequest
  BY DEF Init, HandlersReturned, Idle, NoActiveRequest, Active
<1>3. NothingBeforeServe /\ WayOfMain /\ WayOut /\ DoneMeansReturned
  BY <1>2 DEF Init, NothingBeforeServe, WayOfMain, WayOut, PastServe,
              DoneMeansReturned
<1>4. OpenSessionHasHandler /\ ErrorsSent
  BY DEF Init, OpenSessionHasHandler, ErrorsSent
<1> QED
  BY <1>1, <1>3, <1>4 DEF Inductive

\* The invariant of the run "shutdown" holds for any number of calls and
\* requests and any size of the pool.
THEOREM InductiveInvariant == SafetySpec => []Inductive
<1>1. Inductive /\ [Next]_vars => Inductive'
  <2> SUFFICES ASSUME Inductive, [Next]_vars PROVE Inductive'
    OBVIOUS
  <2>1. TypeOK
    BY DEF Inductive
  <2> QED
    BY <2>1, TypeStep, NothingStep, WayOfMainStep, WayOutStep, DoneStep,
       SessionStep, ErrorsStep DEF Inductive
<1> QED
  BY <1>1, Initially, PTL DEF SafetySpec

\* Every variable keeps to its type.
THEOREM TypeCorrect == SafetySpec => []TypeOK
<1>1. Inductive => TypeOK
  BY DEF Inductive
<1> QED
  BY <1>1, InductiveInvariant, PTL

LEMMA LastOne == Inductive => PoolClosedLast
BY DEF Inductive, TypeOK, PoolClosedLast, WayOut, DoneMeansReturned,
       NothingBeforeServe, PastServe

\* The pool is closed after every handler and request (application.go:124-137).
THEOREM PoolLast == SafetySpec => []PoolClosedLast
BY LastOne, InductiveInvariant, PTL

\* No session is left open, or shut out by the pool, unless the HTTP server
\* could not be shut down in time (server.go:109-130).
THEOREM Closed == SafetySpec => []SessionsClosed
<1>1. Inductive => SessionsClosed
  BY LastOne DEF Inductive, SessionsClosed, PoolClosedLast, PastServe,
     OpenSessionHasHandler, HandlersReturned, Idle
<1> QED
  BY <1>1, InductiveInvariant, PTL

\* Status 0 is a stop that was asked for and that let everything finish.
THEOREM CleanStatus == SafetySpec => []StatusZeroIsClean
<1>1. Inductive => StatusZeroIsClean
  BY LastOne DEF Inductive, StatusZeroIsClean, PoolClosedLast, PastServe, WayOut
<1> QED
  BY <1>1, InductiveInvariant, PTL

\* The goroutines of the servers never wait for room in serverErrors.
THEOREM NeverBlocks == SafetySpec => []SendNeverBlocks
<1>1. Inductive => SendNeverBlocks
  BY DEF Inductive, TypeOK, SendNeverBlocks, ErrorsSent, Capacity
<1> QED
  BY <1>1, InductiveInvariant, PTL

----------------------------------------------------------------------------
(* What run() waits for                                                    *)

\* A call takes a connection for a call of the database, gives it back before it
\* goes on, and stays cancelled.
LEMMA CallSideHolds ==
  ASSUME TypeOK, NEW c \in Calls, CallSide(c), c \in conns => handler[c] \in InCall
  PROVE  /\ conns' \subseteq conns \cup {c}
         /\ c \in conns' => handler'[c] \in InCall
         /\ \A d \in Calls : cancelled[d] => cancelled'[d]
<1> USE DEF TypeOK, Goto, InCall, Idle
<1>1. CASE AcceptCall(c)
  BY <1>1 DEF AcceptCall
<1>2. CASE Cancel(c)
  BY <1>2 DEF Cancel
<1>3. CASE Recv(c)
  BY <1>3 DEF Recv
<1>4. CASE RecvError(c)
  BY <1>4 DEF RecvError
<1>5. CASE Acquire(c)
  BY <1>5 DEF Acquire
<1>6. CASE Answer(c)
  BY <1>6 DEF Answer, Release
<1>7. CASE Fails(c)
  BY <1>7 DEF Fails, FailsTo, Release
<1> QED
  BY <1>1, <1>2, <1>3, <1>4, <1>5, <1>6, <1>7
  DEF CallSide, HandlerStep, DatabaseStep, GiveUp, DatabaseFails

\* A request takes a connection for its ping.
LEMMA RequestSideHolds ==
  ASSUME TypeOK, NEW r \in Requests, RequestSide(r),
         r \in conns => request[r] = "ping"
  PROVE  /\ conns' \subseteq conns \cup {r}
         /\ r \in conns' => request'[r] = "ping"
<1> USE DEF TypeOK
<1>1. CASE AcceptRequest(r)
  BY <1>1 DEF AcceptRequest
<1>2. CASE Handle(r)
  BY <1>2 DEF Handle
<1>3. CASE AcquirePing(r)
  BY <1>3 DEF AcquirePing
<1>4. CASE PingEnds(r)
  BY <1>4 DEF PingEnds
<1>5. CASE EndRequest(r)
  BY <1>5 DEF EndRequest
<1> QED
  BY <1>1, <1>2, <1>3, <1>4, <1>5 DEF RequestSide, RequestStep

\* run() waits for cancelled handlers and for calls of the database, never for a
\* client (application.go:135, main.go:31).
THEOREM NoClient == SafetySpec => []WaitsForNoClient
<1>1. Init => WaitsForNoClient
  BY DEF Init, WaitsForNoClient
<1>2. Inductive /\ WaitsForNoClient /\ [Next]_vars => WaitsForNoClient'
  <2> SUFFICES ASSUME Inductive, WaitsForNoClient, [Next]_vars
               PROVE  WaitsForNoClient'
    OBVIOUS
  <2>0. TypeOK /\ (main = "waitDone" => grpc = "stopped")
    BY DEF Inductive, WayOfMain
\* No handler is called any more: the others stay cancelled until they return.
  <2>1. ASSUME NEW c \in Calls, CallSide(c) PROVE WaitsForNoClient'
    <3>1. /\ UNCHANGED <<main, grpc, request>>
          /\ handler' = [handler EXCEPT ![c] = handler'[c]]
          /\ handler[c] \in Idle /\ handler'[c] \notin Idle =>
               grpc \in {"open", "draining"}
      BY <2>0, <2>1, CallSideMoves
    <3>2. /\ conns' \subseteq conns \cup {c}
          /\ c \in conns' => handler'[c] \in InCall
          /\ \A d \in Calls : cancelled[d] => cancelled'[d]
      BY <2>0, <2>1, CallSideHolds DEF WaitsForNoClient
    <3>3. \A d \in Calls \ {c} : handler'[d] = handler[d]
      BY <2>0, <3>1 DEF TypeOK
    <3>4. main' = "waitDone" =>
            \A d \in Calls : handler'[d] \in Idle \/ cancelled'[d]
      BY <2>0, <3>1, <3>2, <3>3 DEF WaitsForNoClient
    <3>5. \A r \in Requests \cap conns' : request'[r] = "ping"
      BY <3>1, <3>2, ConstantAssumption DEF WaitsForNoClient
    <3> QED
      BY <3>2, <3>3, <3>4, <3>5 DEF WaitsForNoClient
  <2>2. ASSUME NEW r \in Requests, RequestSide(r) PROVE WaitsForNoClient'
    <3>1. /\ UNCHANGED <<main, handler, cancelled>>
          /\ request' = [request EXCEPT ![r] = request'[r]]
      BY <2>0, <2>2, RequestSideMoves
    <3>2. /\ conns' \subseteq conns \cup {r}
          /\ r \in conns' => request'[r] = "ping"
      BY <2>0, <2>2, RequestSideHolds DEF WaitsForNoClient
    <3> QED
      BY <2>0, <3>1, <3>2, ConstantAssumption DEF WaitsForNoClient, TypeOK
  <2>3. CASE MainStep
    <3>1. UNCHANGED <<handler, request, conns>>
      BY <2>3, OthersLeave
    <3>2. \/ SelectExpired
          \/ main' # "waitDone"
      BY <2>3
      DEF MainStep, NewApplication, SelectSignal, SelectError, BeginShutdown,
          ShutdownHTTP, ShutdownPolls, ShutdownTimesOut, SelectDone, ClosePool, Exit
    <3> QED
      BY <2>0, <3>1, <3>2 DEF SelectExpired, WaitsForNoClient, TypeOK
  <2>4. CASE ServeStep \/ StopStep \/ Timer \/ SystemStep
    <3>1. UNCHANGED <<handler, request, conns>>
      BY <2>4, OthersLeave
    <3>2. UNCHANGED <<main, cancelled>>
      BY <2>4
      DEF ServeStep, ListenHTTP, ReturnHTTP, SendHTTP, ServeGRPC, ReturnGRPC,
          SendGRPC, StopStep, Drain, RefuseCalls, Drained, Timer, SystemStep,
          Expire, Signal
    <3> QED
      BY <3>1, <3>2 DEF WaitsForNoClient
  <2>5. CASE UNCHANGED vars
    BY <2>5 DEF vars, WaitsForNoClient
  <2> QED
    BY <2>1, <2>2, <2>3, <2>4, <2>5, Cases
<1> QED
  BY <1>1, <1>2, InductiveInvariant, PTL DEF SafetySpec

----------------------------------------------------------------------------
(* The refinement of HandlerSession                                        *)

\* The place of a handler and what has become of its session, as HandlerSession
\* names them.
Shown(l) == IF l = "enroll" THEN "first" ELSE l

Kept(x) == CASE x = "doubt" -> "none" [] x = "shutOut" -> "failed" [] OTHER -> x

LEMMA ShownMoves ==
  ASSUME TypeOK, NEW c \in Calls, NEW l, Goto(c, l)
  PROVE  [d \in Calls |-> IF handler[d] = "enroll" THEN "first" ELSE handler[d]]'
           = [[d \in Calls |-> IF handler[d] = "enroll" THEN "first" ELSE handler[d]]
                EXCEPT ![c] = Shown(l)]
BY DEF TypeOK, Goto, Shown

LEMMA KeptMoves ==
  ASSUME TypeOK, NEW c \in Calls, NEW x, session' = [session EXCEPT ![c] = x]
  PROVE  [d \in Calls |-> CASE session[d] = "doubt" -> "none"
                           [] session[d] = "shutOut" -> "failed"
                           [] OTHER -> session[d]]'
           = [[d \in Calls |-> CASE session[d] = "doubt" -> "none"
                                [] session[d] = "shutOut" -> "failed"
                                [] OTHER -> session[d]]
                EXCEPT ![c] = Kept(x)]
BY DEF TypeOK, Kept

\* A step of a handler that leaves its session alone.
LEMMA Moves ==
  ASSUME TypeOK, NEW c \in Calls, NEW l, Goto(c, l), session' = session,
         NEW from, Shown(handler[c]) = from, NEW places, Shown(l) \in places
  PROVE  Handlers!Move(c, from, places)
<1>1. Handlers!Step(c, from, Shown(l))
  BY ShownMoves DEF Handlers!Step, Shown
<1> QED
  BY <1>1 DEF Handlers!Move

\* A step of the other goroutines, of a client or of the pool that moves no handler.
LEMMA Stays ==
  ASSUME UNCHANGED <<handler, session>>
  PROVE  UNCHANGED Handlers!vars
BY DEF Handlers!vars

\* Whatever a shutdown does meanwhile, a call of StreamUpdates opens its session
\* once and tries to close it before it returns (server.go:109-130).
THEOREM HandlerRefinement == SafetySpec => ImplementsHandlerSession
<1>1. Init => Handlers!Init
  BY DEF Init, Handlers!Init
<1>2. Inductive /\ [Next]_vars => [Handlers!Next]_(Handlers!vars)
  <2> SUFFICES ASSUME Inductive, [Next]_vars
               PROVE  [Handlers!Next]_(Handlers!vars)
    OBVIOUS
  <2>0. TypeOK
    BY DEF Inductive
  <2>1. ASSUME NEW c \in Calls, AcceptCall(c) PROVE Handlers!Next
    <3>1. PICK l \in {"first", "enroll", "returned"} : Goto(c, l)
      BY <2>1 DEF AcceptCall
    <3>2. /\ session' = session /\ Shown(handler[c]) = "none"
          /\ Shown(l) \in {"first", "returned"}
      BY <2>1, <3>1 DEF AcceptCall, Shown
    <3>3. Handlers!Accept(c)
      BY <2>0, <3>1, <3>2, Moves DEF Handlers!Accept
    <3> QED
      BY <3>3 DEF Handlers!Next
  <2>2. ASSUME NEW c \in Calls, Recv(c) \/ RecvError(c) PROVE Handlers!Next
    <3>1. session' = session
      BY <2>2 DEF Recv, RecvError
    <3>2. \/ /\ handler[c] = "first"
             /\ \E l \in {"find", "returned"} : Goto(c, l)
          \/ /\ handler[c] = "recv"
             /\ \E l \in {"record", "touch", "close"} : Goto(c, l)
      BY <2>2 DEF Recv, RecvError
    <3>3. Handlers!Authenticate(c) \/ Handlers!Receive(c)
      BY <2>0, <3>1, <3>2, Moves DEF Shown, Handlers!Authenticate, Handlers!Receive
    <3> QED
      BY <3>3 DEF Handlers!Next
\* An answer ends a call of the database, with or without a change of the session.
  <2>3. ASSUME NEW c \in Calls, Answer(c) PROVE Handlers!Next
    <3>1. CASE handler[c] = "start"
      <4>1. Goto(c, "recv") /\ session' = [session EXCEPT ![c] = "open"]
        BY <2>3, <3>1 DEF Answer
      <4>2. Handlers!Step(c, "start", "recv")
        BY <2>0, <3>1, <4>1, ShownMoves DEF Handlers!Step, Shown
      <4>3. Handlers!Open(c)
        BY <2>0, <4>1, <4>2, KeptMoves DEF Handlers!Open, Kept
      <4> QED
        BY <4>3 DEF Handlers!Next
    <3>2. CASE handler[c] = "close"
      <4>1. Goto(c, "returned") /\ session' = [session EXCEPT ![c] = "closed"]
        BY <2>3, <3>2 DEF Answer
      <4>2. Handlers!Step(c, "close", "returned")
        BY <2>0, <3>2, <4>1, ShownMoves DEF Handlers!Step, Shown
      <4>3. Handlers!Close(c)
        BY <2>0, <4>1, <4>2, KeptMoves DEF Handlers!Close, Kept
      <4> QED
        BY <4>3 DEF Handlers!Next
    <3>3. CASE handler[c] \notin {"start", "close"}
      <4>1. session' = session
        BY <2>3, <3>3 DEF Answer
      <4>2. \/ handler[c] = "enroll" /\ Goto(c, "returned")
            \/ handler[c] = "find" /\ \E l \in {"start", "returned"} : Goto(c, l)
            \/ handler[c] = "record" /\ Goto(c, "touch")
            \/ handler[c] = "touch" /\ Goto(c, "recv")
        BY <2>3, <3>3 DEF Answer
      <4>3. \/ Handlers!Authenticate(c) \/ Handlers!Find(c)
            \/ Handlers!Record(c) \/ Handlers!Touch(c)
        BY <2>0, <4>1, <4>2, Moves DEF Shown, Handlers!Authenticate, Handlers!Find,
                                 Handlers!Record, Handlers!Touch
      <4> QED
        BY <4>3 DEF Handlers!Next
    <3> QED
      BY <3>1, <3>2, <3>3
\* A commit in doubt is none of which the handler knows.
  <2>4. ASSUME NEW c \in Calls, Fails(c) PROVE Handlers!Next
    <3>1. CASE handler[c] = "start"
      <4>1. /\ Goto(c, "returned")
            /\ session' = session \/ session' = [session EXCEPT ![c] = "doubt"]
        BY <2>4, <3>1 DEF Fails, FailsTo, InCall
      <4>2. session[c] = "none"
        BY <3>1 DEF Inductive, OpenSessionHasHandler
      <4>3. [d \in Calls |-> CASE session[d] = "doubt" -> "none"
                              [] session[d] = "shutOut" -> "failed"
                              [] OTHER -> session[d]]'
              = [d \in Calls |-> CASE session[d] = "doubt" -> "none"
                                  [] session[d] = "shutOut" -> "failed"
                                  [] OTHER -> session[d]]
        BY <2>0, <4>1, <4>2 DEF TypeOK
      <4>4. Handlers!Step(c, "start", "returned")
        BY <2>0, <3>1, <4>1, ShownMoves DEF Handlers!Step, Shown
      <4>5. Handlers!OpenFails(c)
        BY <4>3, <4>4 DEF Handlers!OpenFails, Handlers!Move
      <4> QED
        BY <4>5 DEF Handlers!Next
    <3>2. CASE handler[c] = "close"
      <4>1. Goto(c, "returned")
        BY <2>4, <3>2 DEF Fails, FailsTo, InCall
      <4>2. PICK x \in {"failed", "shutOut"} : session' = [session EXCEPT ![c] = x]
        BY <2>4, <3>2 DEF Fails, FailsTo, InCall
      <4>3. Handlers!Step(c, "close", "returned")
        BY <2>0, <3>2, <4>1, ShownMoves DEF Handlers!Step, Shown
      <4>4. Handlers!Close(c)
        BY <2>0, <4>2, <4>3, KeptMoves DEF Handlers!Close, Kept
      <4> QED
        BY <4>4 DEF Handlers!Next
    <3>3. CASE handler[c] \notin {"start", "close"}
      <4>1. session' = session
        BY <2>4, <3>3 DEF Fails, FailsTo, InCall
      <4>2. \/ handler[c] \in {"enroll", "find"} /\ Goto(c, "returned")
            \/ handler[c] \in {"record", "touch"} /\ Goto(c, "close")
        BY <2>4, <3>3 DEF Fails, FailsTo, InCall
      <4>3. \/ Handlers!Authenticate(c) \/ Handlers!Find(c)
            \/ Handlers!Record(c) \/ Handlers!Touch(c)
        BY <2>0, <4>1, <4>2, Moves DEF Shown, Handlers!Authenticate, Handlers!Find,
                                 Handlers!Record, Handlers!Touch
      <4> QED
        BY <4>3 DEF Handlers!Next
    <3> QED
      BY <3>1, <3>2, <3>3
  <2>5. ASSUME NEW c \in Calls, Cancel(c) \/ Acquire(c)
        PROVE  UNCHANGED Handlers!vars
    BY <2>5, Stays DEF Cancel, Acquire
  <2>6. ASSUME NEW r \in Requests, RequestSide(r) PROVE UNCHANGED Handlers!vars
    BY <2>0, <2>6, RequestSideMoves, Stays
  <2>7. CASE MainStep \/ ServeStep \/ StopStep \/ Timer \/ SystemStep
    BY <2>7, OthersLeave, Stays
  <2>8. CASE UNCHANGED vars
    BY <2>8, Stays DEF vars
  <2> QED
    BY <2>1, <2>2, <2>3, <2>4, <2>5, <2>6, <2>7, <2>8, Cases
    DEF CallSide, HandlerStep, DatabaseStep, GiveUp, DatabaseFails
<1> QED
  BY <1>1, <1>2, InductiveInvariant, PTL DEF SafetySpec, ImplementsHandlerSession, Handlers!Spec

=============================================================================
