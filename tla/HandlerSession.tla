--------------------------- MODULE HandlerSession ---------------------------
(***************************************************************************)
(* What a call of StreamUpdates promises of its presence session, seen     *)
(* from outside: it opens one at most, once it has found the agent;        *)
(* receives only while it is open; leaves the loop for closeSession        *)
(* whatever happens, tries that once, and returns.  Any call of the        *)
(* database may fail.                                                      *)
(*                                                                         *)
(* StreamUpdates, which knows the statements of a handler, and             *)
(* Application, which knows its process, both implement it: they speak of  *)
(* the same handlers.  (server/internal/agentgrpc/server.go)               *)
(***************************************************************************)

CONSTANTS
  Calls,          \* the calls of StreamUpdates
  MayBeKilled     \* may the server be killed?

VARIABLES
  handler,        \* where the handler of a call is
  session         \* what has become of its session

vars == <<handler, session>>

Init ==
  /\ handler = [c \in Calls |-> "none"]
  /\ session = [c \in Calls |-> "none"]

Step(c, from, to) ==
  /\ handler[c] = from
  /\ handler' = [handler EXCEPT ![c] = to]

\* A step that leaves the session alone, to one of some places.
Move(c, from, places) ==
  /\ \E to \in places : Step(c, from, to)
  /\ UNCHANGED session

\* The call is let in, authenticates, and its agent is found, or it ends.
Accept(c) == Move(c, "none", {"first", "returned"})
Authenticate(c) == Move(c, "first", {"find", "returned"})
Find(c) == Move(c, "find", {"start", "returned"})

\* StartSession: the handler has a session from now on, or returns.
Open(c) ==
  /\ Step(c, "start", "recv")
  /\ session' = [session EXCEPT ![c] = "open"]

OpenFails(c) == Move(c, "start", {"returned"})

\* The loop, which every failure leaves for the deferred close.
Receive(c) == Move(c, "recv", {"record", "touch", "close"})
Record(c) == Move(c, "record", {"touch", "close"})
Touch(c) == Move(c, "touch", {"recv", "close"})

Close(c) ==
  /\ Step(c, "close", "returned")
  /\ \E outcome \in {"closed", "failed"} :
        session' = [session EXCEPT ![c] = outcome]

\* The server is killed, and with it every handler.
Kill ==
  /\ MayBeKilled
  /\ handler' = [c \in Calls |-> IF handler[c] = "none" THEN "none"
                                                        ELSE "returned"]
  /\ session' = [c \in Calls |-> IF session[c] = "open" THEN "lost"
                                                        ELSE session[c]]

Next ==
  \/ \E c \in Calls :
       \/ Accept(c) \/ Authenticate(c) \/ Find(c) \/ Open(c) \/ OpenFails(c)
       \/ Receive(c) \/ Record(c) \/ Touch(c) \/ Close(c)
  \/ Kill

Spec == Init /\ [][Next]_vars

=============================================================================
