---------------------------- MODULE HostIdentity ----------------------------
(***************************************************************************)
(* What enrollment promises: a host has at most one identity, it is one    *)
(* that the server has registered, and once a host has it no other takes   *)
(* its place.  Only the loss of power can take an identity away again,     *)
(* because the agent does not flush its state directory.                   *)
(***************************************************************************)

CONSTANTS
  Hosts,          \* the state directories of agents
  Identities,     \* what the server can register
  NoIdentity,     \* a host that is not enrolled
  MayForget       \* may the loss of power take an identity away?

VARIABLES
  registered,     \* the identities the server knows
  identity        \* the identity of each host

vars == <<registered, identity>>

Init ==
  /\ registered = {}
  /\ identity = [h \in Hosts |-> NoIdentity]

\* The server registers an identity, whether or not a host ever gets it.
Register(e) ==
  /\ registered' = registered \cup {e}
  /\ UNCHANGED identity

\* A host without an identity takes a registered one no other host has.
Adopt(h, e) ==
  /\ identity[h] = NoIdentity
  /\ e \in registered
  /\ \A g \in Hosts : identity[g] # e
  /\ identity' = [identity EXCEPT ![h] = e]
  /\ UNCHANGED registered

Forget(h) ==
  /\ MayForget
  /\ identity' = [identity EXCEPT ![h] = NoIdentity]
  /\ UNCHANGED registered

Next ==
  \/ \E e \in Identities : Register(e)
  \/ \E h \in Hosts : Forget(h) \/ \E e \in Identities : Adopt(h, e)

Spec == Init /\ [][Next]_vars

=============================================================================
