------------------------------ MODULE Presence ------------------------------
(***************************************************************************)
(* What the server promises of presence: a machine is online exactly while *)
(* its latest session has not ended, and the history of a machine records  *)
(* every change of its status, once and in order.  A session is known by   *)
(* its connection time.  That an earlier session ends changes nothing, and *)
(* so is no step here.                                                     *)
(*                                                                         *)
(* Columns of server/migrations/000001_create_v1_machine_schema.up.sql:    *)
(* machines.status, machines.last_connected_at, machine_presence_events.   *)
(***************************************************************************)
EXTENDS Naturals, Sequences

CONSTANTS
  Machines,         \* the machines
  TimesMayRepeat    \* may two sessions have the same connection time?

VARIABLES
  status,    \* the status shown for a machine
  latest,    \* the connection time of its latest session, 0 if it had none
  history    \* the changes of its status since it was enrolled

vars == <<status, latest, history>>

Init ==
  /\ status = [m \in Machines |-> "unknown"]
  /\ latest = [m \in Machines |-> 0]
  /\ history = [m \in Machines |-> <<>>]

\* The machine gets a new status, and its history a new entry.
Change(m, new) ==
  /\ status' = [status EXCEPT ![m] = new]
  /\ history' = [history EXCEPT ![m] = Append(@, new)]

\* A session starts and is from now on the latest.  Nothing is recorded when
\* it takes over from a session that has not ended.
Connect(m) ==
  /\ latest'[m] \in Nat \ {0}
  /\ TimesMayRepeat \/ latest'[m] > latest[m]
  /\ latest' = [latest EXCEPT ![m] = latest'[m]]
  /\ IF status[m] = "online" THEN UNCHANGED <<status, history>>
                             ELSE Change(m, "online")

\* The latest session ends.
Disconnect(m) ==
  /\ status[m] = "online"
  /\ Change(m, "offline")
  /\ UNCHANGED latest

Next == \E m \in Machines : Connect(m) \/ Disconnect(m)

Spec == Init /\ [][Next]_vars

----------------------------------------------------------------------------

\* A history of presence starts with "online" and no two events are alike.
Alternates(h) ==
  /\ h # <<>> => h[1] = "online"
  /\ \A i \in 2 .. Len(h) : h[i] # h[i - 1]

\* The history of every machine alternates and ends with its status.
History ==
  \A m \in Machines :
    /\ Alternates(history[m])
    /\ status[m] = IF history[m] = <<>> THEN "unknown"
                                        ELSE history[m][Len(history[m])]

=============================================================================
