---------------------------- MODULE Stack_proofs ----------------------------
(***************************************************************************)
(* Proofs about Stack, for every set of agents and any number of           *)
(* databases.  The invariant adds to the properties what a command in      *)
(* progress may do: only a confirmed reset removes volumes, and it first   *)
(* removes every container.                                                *)
(***************************************************************************)
EXTENDS Stack, TLAPS

\* Actions that leave the volumes and their history alone and start neither
\* postgres nor the server.
Elsewhere ==
  /\ UNCHANGED <<volumeVars, historyVars>>
  /\ command' \in {command, NoCommand}
  /\ {"postgres", "server"} \cap running' \subseteq running

----------------------------------------------------------------------------

LEMMA InitInductive == Init => Inductive
<1> SUFFICES ASSUME Init PROVE Inductive
  OBVIOUS
<1>1. TypeOK
  BY DEF Init, TypeOK
<1>2. CommandFits /\ DatabaseExists /\ LostOnlyByConfirmedReset /\ ServerHasSchema
  BY DEF Init, CommandFits, DatabaseExists, LostOnlyByConfirmedReset, ServerHasSchema
<1>3. StrandedUntilFullReset
  BY DEF Init, StrandedUntilFullReset, Stranded
<1> QED
  BY <1>1, <1>2, <1>3 DEF Inductive

\* What is removed while volumes are, is everything.
LEMMA NothingPresent ==
  ASSUME TypeOK, CommandFits, Emptied, command.volumes
  PROVE  Present = {}
<1>1. command.orphans
  BY DEF CommandFits, Emptied, Stopping
<1>2. Named(TRUE) \subseteq Targets
  BY <1>1 DEF Targets, Named
<1>3. Present \subseteq Named(TRUE)
  BY DEF Present, TypeOK, Named
<1> QED
  BY <1>2, <1>3 DEF Emptied

\* An action that leaves the volumes alone keeps the invariant if it keeps the
\* types.
LEMMA ElsewhereInductive ==
  ASSUME Inductive, Elsewhere, TypeOK'
  PROVE  Inductive'
<1>1. /\ database' = database /\ created' = created /\ migrated' = migrated
      /\ identity' = identity /\ confirmed' = confirmed /\ full' = full
      /\ partial' = partial
  BY DEF Elsewhere, volumeVars, historyVars
<1>2. CommandFits'
  BY <1>1 DEF Inductive, CommandFits, Elsewhere
<1>3. LostOnlyByConfirmedReset' /\ StrandedUntilFullReset'
  BY <1>1 DEF Inductive, LostOnlyByConfirmedReset, StrandedUntilFullReset, Stranded
<1>4. ServerHasSchema' /\ DatabaseExists'
  BY <1>1 DEF Inductive, ServerHasSchema, DatabaseExists, Elsewhere
<1> QED
  BY <1>2, <1>3, <1>4 DEF Inductive

\* Each of these actions is one.
LEMMA ElsewhereActions ==
  ASSUME TypeOK,
         \/ Return \/ Started
         \/ \E withAgents \in BOOLEAN : Interrupt(withAgents)
         \/ \E s \in Named(TRUE) : Remove(s)
         \/ \E s \in {"postgres", "server"} : ServiceExits(s)
         \/ \E a \in Agents : StartAgent(a) \/ AgentExits(a) \/ Restart(a)
  PROVE  Elsewhere /\ TypeOK'
<1>1. CASE Return
  BY <1>1 DEF Return, Elsewhere, TypeOK, volumeVars, historyVars
<1>2. CASE Started
  <2>1. command.agents \in BOOLEAN
    BY <1>2 DEF Started, Starting, TypeOK, DockerCommands
  <2> QED
    BY <1>2, <2>1 DEF Started, Elsewhere, TypeOK, volumeVars, historyVars
<1>3. ASSUME NEW w \in BOOLEAN, Interrupt(w) PROVE Elsewhere /\ TypeOK'
  BY <1>3 DEF Interrupt, Elsewhere, TypeOK, volumeVars, historyVars
<1>4. ASSUME NEW s \in Named(TRUE), Remove(s) PROVE Elsewhere /\ TypeOK'
  BY <1>4 DEF Remove, Elsewhere, TypeOK, volumeVars, historyVars
<1>5. ASSUME NEW s \in {"postgres", "server"}, ServiceExits(s)
      PROVE  Elsewhere /\ TypeOK'
  BY <1>5 DEF ServiceExits, Elsewhere, TypeOK, volumeVars, historyVars
<1>6. ASSUME NEW a \in Agents, StartAgent(a) \/ AgentExits(a) \/ Restart(a)
      PROVE  Elsewhere /\ TypeOK'
  <2>1. a \notin {"postgres", "server"} /\ a \in Named(TRUE)
    BY StackAssumption DEF Named
  <2> QED
    BY <1>6, <2>1 DEF StartAgent, AgentExits, Restart, Elsewhere, TypeOK, volumeVars,
                      historyVars
<1> QED
  BY <1>1, <1>2, <1>3, <1>4, <1>5, <1>6

----------------------------------------------------------------------------

LEMMA StepInductive == Inductive /\ [Next]_vars => Inductive'
<1> SUFFICES ASSUME Inductive, [Next]_vars PROVE Inductive'
  OBVIOUS
<1>1. ASSUME NEW arguments \in Arguments, Run(arguments) PROVE Inductive'
  <2>1. /\ command' = DockerCommand(arguments)
        /\ UNCHANGED <<attached, running, exited, database, created, migrated, identity,
                       partial>>
        /\ full' = (arguments.verb = "reset" /\ "with-agents" \in arguments.flags)
        /\ confirmed' = IF arguments.verb = "reset" /\ "yes" \in arguments.flags
                        THEN confirmed \cup {database} ELSE confirmed
        /\ arguments.verb = "reset" => "yes" \in arguments.flags
    BY <1>1 DEF Run, Accepted, volumeVars
  <2>2. arguments.verb \in Verbs
    BY DEF Arguments
  <2>3. /\ command'.volumes = (arguments.verb = "reset")
        /\ command'.orphans = (arguments.verb = "reset")
        /\ command'.agents = ("with-agents" \in arguments.flags)
        /\ command'.verb = DockerVerb(arguments.verb)
    BY <2>1 DEF DockerCommand
  <2>4. DockerVerb(arguments.verb) \in {"up", "down", "ps", "logs", "build"}
        /\ (arguments.verb = "reset" => DockerVerb(arguments.verb) = "down")
    BY <2>2 DEF DockerVerb, Verbs
  <2>5. CommandFits'
    BY <2>1, <2>3, <2>4 DEF CommandFits
  <2>6. command' \in DockerCommands
    BY <2>1, <2>4 DEF DockerCommand, DockerCommands
  <2>7. TypeOK'
    BY <2>1, <2>6 DEF Inductive, TypeOK
  <2> QED
    BY <2>1, <2>5, <2>7
       DEF Inductive, DatabaseExists, LostOnlyByConfirmedReset,
           StrandedUntilFullReset, Stranded, ServerHasSchema
<1>2. CASE StartPostgres
  <2>1. /\ UNCHANGED <<command, attached, exited, identity, confirmed, full, partial>>
        /\ running' = running \cup {"postgres"}
        /\ Starting
        /\ \/ UNCHANGED <<database, created, migrated>>
           \/ /\ database = 0 /\ database' = created + 1
              /\ created' = created + 1 /\ migrated' = FALSE
    BY <1>2 DEF StartPostgres, volumeVars, historyVars
  <2>2. TypeOK'
    <3>1. running' \in SUBSET Named(TRUE)
      <4>1. "postgres" \in Named(TRUE)
        BY DEF Named
      <4>2. running \in SUBSET Named(TRUE)
        BY DEF Inductive, TypeOK
      <4> QED
        BY <2>1, <4>1, <4>2
    <3>2. database' \in Nat /\ created' \in Nat /\ migrated' \in BOOLEAN
      <4>1. database \in Nat /\ created \in Nat /\ migrated \in BOOLEAN
        BY DEF Inductive, TypeOK
      <4>2. CASE UNCHANGED <<database, created, migrated>>
        BY <4>1, <4>2
      <4>3. CASE database' = created + 1 /\ created' = created + 1 /\ migrated' = FALSE
        <5>1. migrated' \in BOOLEAN
          BY <4>3, Zenon
        <5>2. database' \in Nat /\ created' \in Nat
          BY <4>1, <4>3
        <5> QED
          BY <5>1, <5>2
      <4> QED
        BY <2>1, <4>2, <4>3
    <3>3. /\ command' \in DockerCommands \cup {NoCommand}
          /\ attached' \in SUBSET BOOLEAN /\ exited' \in SUBSET Agents
          /\ identity' \in [Agents -> Nat] /\ confirmed' \in SUBSET Nat
          /\ full' \in BOOLEAN /\ partial' \in BOOLEAN
      BY <2>1 DEF Inductive, TypeOK
    <3> QED
      BY <3>1, <3>2, <3>3, Zenon DEF TypeOK
  <2>3. CommandFits'
    BY <2>1 DEF Inductive, CommandFits, Starting
  <2>4. LostOnlyByConfirmedReset'
    BY <2>1 DEF Inductive, TypeOK, LostOnlyByConfirmedReset
  <2>5. StrandedUntilFullReset'
    BY <2>1 DEF Inductive, StrandedUntilFullReset, Stranded
  <2>6. ServerHasSchema'
    <3>1. "server" \in running' => "server" \in running
      BY <2>1
    <3>2. CASE UNCHANGED <<database, created, migrated>>
      BY <3>1, <3>2 DEF Inductive, ServerHasSchema
    <3>3. CASE database = 0
      BY <3>1, <3>3 DEF Inductive, ServerHasSchema
    <3> QED
      BY <2>1, <3>2, <3>3
  <2>7. DatabaseExists'
    BY <1>2, <2>1 DEF StartPostgres, volumeVars, Inductive, TypeOK, DatabaseExists
  <2> QED
    BY <2>2, <2>3, <2>4, <2>5, <2>6, <2>7 DEF Inductive
<1>3. CASE Migrate
  BY <1>3 DEF Migrate, historyVars, Inductive, TypeOK, CommandFits, DatabaseExists,
              LostOnlyByConfirmedReset, StrandedUntilFullReset, Stranded, ServerHasSchema
<1>4. CASE StartServer
  <2>1. /\ UNCHANGED <<command, attached, exited, database, created, migrated, identity,
                       confirmed, full, partial>>
        /\ running' = running \cup {"server"}
        /\ migrated
    BY <1>4 DEF StartServer, volumeVars, historyVars
  <2>2. running' \in SUBSET Named(TRUE)
    BY <2>1 DEF Inductive, TypeOK, Named
  <2>3. TypeOK'
    BY <2>1, <2>2 DEF Inductive, TypeOK
  <2>4. database # 0
    BY <1>4 DEF StartServer, Inductive, DatabaseExists
  <2> QED
    BY <2>1, <2>3, <2>4 DEF Inductive, CommandFits, DatabaseExists,
                            LostOnlyByConfirmedReset, StrandedUntilFullReset, Stranded,
                            ServerHasSchema
<1>5. CASE RemoveDatabase
  <2>1. /\ UNCHANGED <<command, attached, running, exited, created, identity, confirmed,
                       full>>
        /\ database' = 0 /\ migrated' = FALSE /\ partial' = TRUE
        /\ Emptied /\ command.volumes /\ command # NoCommand
    BY <1>5 DEF RemoveDatabase, Emptied, Stopping
  <2>2. "server" \notin running /\ "postgres" \notin running
    BY <2>1, NothingPresent DEF Inductive, Present
  <2>3. database \in confirmed \cup {0}
    BY <2>1 DEF Inductive, CommandFits
  <2>4. LostOnlyByConfirmedReset'
    BY <2>1, <2>3 DEF Inductive, TypeOK, LostOnlyByConfirmedReset
  <2> QED
    BY <2>1, <2>2, <2>4 DEF Inductive, TypeOK, CommandFits, DatabaseExists,
                            StrandedUntilFullReset, ServerHasSchema
<1>6. CASE Stopped
  <2>1. /\ UNCHANGED <<attached, running, exited, database, created, migrated, identity,
                       confirmed, full>>
        /\ command' = NoCommand /\ partial' = (partial /\ ~full)
        /\ command # NoCommand
        /\ command.volumes /\ command.agents => \A a \in Agents : identity[a] = 0
    BY <1>6 DEF Stopped, Emptied, Stopping, volumeVars
  <2>2. full => \A a \in Agents : identity[a] = 0
    BY <2>1 DEF Inductive, CommandFits
  <2>3. StrandedUntilFullReset'
    BY <2>1, <2>2 DEF Inductive, StrandedUntilFullReset, Stranded
  <2>4. TypeOK'
    BY <2>1 DEF Inductive, TypeOK
  <2> QED
    BY <2>1, <2>3, <2>4 DEF Inductive, CommandFits, DatabaseExists,
                            LostOnlyByConfirmedReset, ServerHasSchema
<1>7. ASSUME NEW a \in Agents, RemoveState(a) \/ Enroll(a) PROVE Inductive'
  <2>1. /\ UNCHANGED <<command, attached, running, exited, database, created, migrated,
                       confirmed, full, partial>>
        /\ \E d \in {0, database} : identity' = [identity EXCEPT ![a] = d]
    BY <1>7 DEF RemoveState, Enroll, historyVars
  <2>2. TypeOK'
    <3>1. PICK d \in {0, database} : identity' = [identity EXCEPT ![a] = d]
      BY <2>1
    <3>2. identity' \in [Agents -> Nat]
      BY <3>1 DEF Inductive, TypeOK
    <3> QED
      BY <2>1, <3>2 DEF Inductive, TypeOK
  <2>3. \A b \in Agents : identity'[b] \in {0, database, identity[b]}
    BY <2>1 DEF Inductive, TypeOK
  <2>4. StrandedUntilFullReset'
    BY <2>1, <2>3 DEF Inductive, StrandedUntilFullReset, Stranded
  <2> QED
    BY <2>1, <2>2, <2>4 DEF Inductive, CommandFits, DatabaseExists,
                            LostOnlyByConfirmedReset, ServerHasSchema
<1>8. CASE UNCHANGED vars
  BY <1>8 DEF vars, volumeVars, historyVars, Inductive, TypeOK, CommandFits, DatabaseExists,
              LostOnlyByConfirmedReset, StrandedUntilFullReset, Stranded, ServerHasSchema
<1>9. CASE \/ Return \/ Started
           \/ \E withAgents \in BOOLEAN : Interrupt(withAgents)
           \/ \E s \in Named(TRUE) : Remove(s)
           \/ \E s \in {"postgres", "server"} : ServiceExits(s)
           \/ \E a \in Agents : StartAgent(a) \/ AgentExits(a) \/ Restart(a)
  BY <1>9, ElsewhereActions, ElsewhereInductive DEF Inductive
<1> QED
  BY <1>1, <1>2, <1>3, <1>4, <1>5, <1>6, <1>7, <1>8, <1>9 DEF Next

\* Whatever commands are given and wherever they fail, the invariant holds, for
\* every set of agents and any number of databases.
THEOREM InductiveInvariant == Spec => []Inductive
BY InitInductive, StepInductive, PTL DEF Spec

\* A step that removes a volume finds nothing that runs.
LEMMA LossStep ==
  ASSUME Inductive, [Next]_vars
  PROVE  /\ database # 0 /\ database' = 0 => Present = {}
         /\ \A a \in Agents : identity[a] # 0 /\ identity'[a] = 0 => a \notin Present
<1>1. CASE RemoveDatabase
  <2>1. Present = {}
    BY <1>1, NothingPresent DEF RemoveDatabase, Inductive
  <2> QED
    BY <2>1
<1>2. ASSUME NEW b \in Agents, RemoveState(b)
      PROVE  Present = {} /\ database' = database
  BY <1>2, NothingPresent DEF RemoveState, Inductive
<1>3. CASE StartPostgres
  BY <1>3 DEF StartPostgres, volumeVars, Inductive, TypeOK
<1>4. ASSUME NEW b \in Agents, Enroll(b)
      PROVE  /\ database' = database
             /\ \A a \in Agents : identity[a] # 0 => identity'[a] = identity[a]
  BY <1>4 DEF Enroll, Inductive, TypeOK
<1>5. ASSUME UNCHANGED <<database, identity>>
      PROVE  /\ database # 0 /\ database' = 0 => Present = {}
             /\ \A a \in Agents : identity[a] # 0 /\ identity'[a] = 0 => a \notin Present
  BY <1>5
<1>6. ASSUME NEW arguments \in Arguments, Run(arguments)
      PROVE  UNCHANGED <<database, identity>>
  BY <1>6 DEF Run, volumeVars
<1>7. CASE Migrate \/ StartServer \/ Stopped \/ UNCHANGED vars
  BY <1>7, <1>5 DEF Migrate, StartServer, Stopped, vars, volumeVars
<1>8. CASE \/ Return \/ Started
           \/ \E withAgents \in BOOLEAN : Interrupt(withAgents)
           \/ \E s \in Named(TRUE) : Remove(s)
           \/ \E s \in {"postgres", "server"} : ServiceExits(s)
           \/ \E a \in Agents : StartAgent(a) \/ AgentExits(a) \/ Restart(a)
  BY <1>8, <1>5, ElsewhereActions DEF Inductive, Elsewhere, volumeVars
<1> QED
  BY <1>1, <1>2, <1>3, <1>4, <1>5, <1>6, <1>7, <1>8 DEF Next

----------------------------------------------------------------------------

\* Whatever commands are given in whatever order, and wherever they fail, a
\* database is lost only by a reset that was confirmed.
THEOREM DataKept == Spec => []LostOnlyByConfirmedReset
<1>1. Inductive => LostOnlyByConfirmedReset
  BY DEF Inductive
<1> QED
  BY <1>1, InductiveInvariant, PTL

\* No agent is stranded but by the removal of a database, and none is after a
\* full reset that completed.
THEOREM Unstranded == Spec => []StrandedUntilFullReset
<1>1. Inductive => StrandedUntilFullReset
  BY DEF Inductive
<1> QED
  BY <1>1, InductiveInvariant, PTL

\* The server runs only with a database that has its schema.
THEOREM Schema == Spec => []ServerHasSchema
<1>1. Inductive => ServerHasSchema
  BY DEF Inductive
<1> QED
  BY <1>1, InductiveInvariant, PTL

\* No volume is removed while anything of the stack runs that uses it.
THEOREM LossIsQuiet == Spec => NothingRunsOverLostData
<1>1. Inductive /\ [Next]_vars =>
        [/\ database # 0 /\ database' = 0 => Present = {}
         /\ \A a \in Agents :
              identity[a] # 0 /\ identity'[a] = 0 => a \notin Present]_vars
  BY LossStep
<1> QED
  BY <1>1, InductiveInvariant, PTL DEF Spec, NothingRunsOverLostData

=============================================================================
