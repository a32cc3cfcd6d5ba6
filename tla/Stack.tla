------------------------------- MODULE Stack -------------------------------
(***************************************************************************)
(* The local stack and the command line that drives it:                    *)
(* tools/arxveil/main.go turns its arguments into one docker command, or   *)
(* refuses them; the services are those of infra/compose.yaml and, with    *)
(* --with-agents, of infra/compose.agents.yaml and its template.  What     *)
(* docker compose does with a command is modelled from how these files use *)
(* it: up starts services in the order of depends_on, down removes         *)
(* containers before volumes, and either may end half way.                 *)
(*                                                                         *)
(* Databases are numbered in the order they are created.  An agent's state *)
(* volume holds the identity of the database it enrolled in; an agent with *)
(* an identity never enrolls again (agent/src/lib.rs).  One command runs   *)
(* at a time, apart from starts in the foreground, which stay attached to  *)
(* what they started.                                                      *)
(***************************************************************************)
EXTENDS Naturals

CONSTANTS
  Agents,         \* the services of compose.agents.yaml
  NoCommand,      \* docker is not working on a command
  MaxDatabases    \* bound: the number of databases ever created

ASSUME StackAssumption ==
  /\ {"postgres", "server"} \cap Agents = {}
  /\ MaxDatabases \in Nat

VARIABLES
  command,      \* the docker command in progress
  attached,     \* the starts in the foreground, by their --with-agents
  running,      \* the services that run
  exited,       \* the agents that wait to be restarted
  database,     \* the database in the volume of postgres, 0 if there is none
  created,      \* the number of databases ever created
  migrated,     \* has the database its schema?
  identity,     \* the database each agent has an identity of, 0 for none
  \* History
  confirmed,    \* the databases whose removal was asked for with --yes
  full,         \* was the last command a reset with --with-agents?
  partial       \* was a database removed and no full reset completed since?

volumeVars == <<database, created, migrated, identity>>
historyVars == <<confirmed, full, partial>>
vars == <<command, attached, running, exited, volumeVars, historyVars>>

----------------------------------------------------------------------------
\* The command line

Verbs == {"start", "stop", "status", "logs", "reset", "generate"}
Flags == {"with-agents", "detach", "yes"}

\* The arguments of arxveil backend, and of arxveil generate go, as flag.Parse
\* understands them: the command, the flags that are true, and whether words
\* follow the flags.
Arguments == [verb : Verbs, flags : SUBSET Flags, words : BOOLEAN]

DefinedFlags(verb) ==
  CASE verb = "start" -> {"with-agents", "detach"}
    [] verb = "reset" -> {"with-agents", "yes"}
    [] verb = "generate" -> {}
    [] OTHER -> {"with-agents"}

\* Wrong: reset does not insist on --yes.
AcceptedUnconfirmed(arguments) ==
  /\ arguments.flags \subseteq DefinedFlags(arguments.verb)
  /\ arguments.words => arguments.verb = "logs"

\* A flag of another command and a stray word are refused, and a reset that is
\* not confirmed.
Accepted(arguments) ==
  /\ arguments.flags \subseteq DefinedFlags(arguments.verb)
  /\ arguments.words => arguments.verb = "logs"
  /\ arguments.verb = "reset" => "yes" \in arguments.flags

DockerVerb(verb) ==
  CASE verb = "start" -> "up"
    [] verb \in {"stop", "reset"} -> "down"
    [] verb = "status" -> "ps"
    [] verb = "logs" -> "logs"
    [] verb = "generate" -> "build"

\* Wrong: a stop removes the volumes like a reset.
DockerCommandStopRemoves(arguments) ==
  [verb |-> DockerVerb(arguments.verb),
   agents |-> "with-agents" \in arguments.flags,
   detach |-> "detach" \in arguments.flags,
   volumes |-> DockerVerb(arguments.verb) = "down",
   orphans |-> arguments.verb = "reset"]

\* Wrong: a reset keeps the containers that its files do not name.
DockerCommandWithoutOrphans(arguments) ==
  [verb |-> DockerVerb(arguments.verb),
   agents |-> "with-agents" \in arguments.flags,
   detach |-> "detach" \in arguments.flags,
   volumes |-> arguments.verb = "reset",
   orphans |-> FALSE]

\* Wrong: a reset never names the file of the agents.
DockerCommandWithoutAgents(arguments) ==
  [verb |-> DockerVerb(arguments.verb),
   agents |-> "with-agents" \in arguments.flags /\ arguments.verb # "reset",
   detach |-> "detach" \in arguments.flags,
   volumes |-> arguments.verb = "reset",
   orphans |-> arguments.verb = "reset"]

\* backendCommand and composeCommand: the files named by -f, and --detach,
\* --volumes and --remove-orphans.
DockerCommand(arguments) ==
  [verb |-> DockerVerb(arguments.verb),
   agents |-> "with-agents" \in arguments.flags,
   detach |-> "detach" \in arguments.flags,
   volumes |-> arguments.verb = "reset",
   orphans |-> arguments.verb = "reset"]

\* The services the files of a command name.
Named(withAgents) ==
  {"postgres", "server"} \cup IF withAgents THEN Agents ELSE {}

Present == running \cup exited

----------------------------------------------------------------------------

Init ==
  /\ command = NoCommand
  /\ attached = {}
  /\ running = {}
  /\ exited = {}
  /\ database = 0
  /\ created = 0
  /\ migrated = FALSE
  /\ identity = [a \in Agents |-> 0]
  /\ confirmed = {}
  /\ full = FALSE
  /\ partial = FALSE

\* run: the arguments are accepted and docker is started.  Refused arguments
\* start nothing, and so does a call outside of the repository.
Run(arguments) ==
  /\ command = NoCommand
  /\ Accepted(arguments)
  /\ command' = DockerCommand(arguments)
  /\ confirmed' = IF arguments.verb = "reset" /\ "yes" \in arguments.flags
                  THEN confirmed \cup {database} ELSE confirmed
  /\ full' = (arguments.verb = "reset" /\ "with-agents" \in arguments.flags)
  /\ UNCHANGED <<attached, running, exited, volumeVars, partial>>

\* ps, logs and build change nothing of the stack; any command may fail.
Return ==
  /\ command # NoCommand
  /\ command' = NoCommand
  /\ UNCHANGED <<attached, running, exited, volumeVars, historyVars>>

----------------------------------------------------------------------------
\* docker compose up

Starting == command # NoCommand /\ command.verb = "up"

StartPostgres ==
  /\ Starting
  /\ "postgres" \notin running
  /\ running' = running \cup {"postgres"}
  /\ \/ /\ database # 0
        /\ UNCHANGED volumeVars
     \/ /\ database = 0
        /\ created < MaxDatabases
        /\ created' = created + 1
        /\ database' = created + 1
        /\ migrated' = FALSE
        /\ UNCHANGED identity
  /\ UNCHANGED <<command, attached, exited, historyVars>>

\* migrate runs to its end once postgres is healthy; it does nothing to a
\* database that has its schema.
Migrate ==
  /\ Starting
  /\ "postgres" \in running
  /\ ~migrated
  /\ migrated' = TRUE
  /\ UNCHANGED <<command, attached, running, exited, database, created, identity,
                 historyVars>>

\* Wrong: the server waits for postgres only.
StartServerEarly ==
  /\ Starting
  /\ "postgres" \in running
  /\ "server" \notin running
  /\ running' = running \cup {"server"}
  /\ UNCHANGED <<command, attached, exited, volumeVars, historyVars>>

\* The server waits for migrate to complete successfully.
StartServer ==
  /\ Starting
  /\ "postgres" \in running
  /\ migrated
  /\ "server" \notin running
  /\ running' = running \cup {"server"}
  /\ UNCHANGED <<command, attached, exited, volumeVars, historyVars>>

StartAgent(a) ==
  /\ Starting
  /\ command.agents
  /\ "server" \in running
  /\ a \notin Present
  /\ running' = running \cup {a}
  /\ UNCHANGED <<command, attached, exited, volumeVars, historyVars>>

\* Everything has started: a start in the foreground stays attached.
Started ==
  /\ Starting
  /\ Named(command.agents) \subseteq Present
  /\ command' = NoCommand
  /\ attached' = IF command.detach THEN attached ELSE attached \cup {command.agents}
  /\ UNCHANGED <<running, exited, volumeVars, historyVars>>

\* A start in the foreground is interrupted: it stops its services.
Interrupt(withAgents) ==
  /\ withAgents \in attached
  /\ attached' = attached \ {withAgents}
  /\ running' = running \ Named(withAgents)
  /\ exited' = exited \ Named(withAgents)
  /\ UNCHANGED <<command, volumeVars, historyVars>>

----------------------------------------------------------------------------
\* docker compose down

Stopping == command # NoCommand /\ command.verb = "down"

\* The containers the command removes: those of its files, and with
\* --remove-orphans all others of the project.
Targets == Named(command.agents) \cup IF command.orphans THEN Agents ELSE {}

\* A service of the files is stopped after those of them that depend on it.
Dependents(s) ==
  CASE s = "postgres" -> {"server"} \cup Agents
    [] s = "server" -> Agents
    [] OTHER -> {}

\* What is removed before s: orphans come after all services of the files.
RemovedBefore(s) ==
  Named(command.agents) \cap
    IF s \in Named(command.agents) THEN Dependents(s) ELSE Named(TRUE)

Remove(s) ==
  /\ Stopping
  /\ s \in Targets \cap Present
  /\ RemovedBefore(s) \cap Present = {}
  /\ running' = running \ {s}
  /\ exited' = exited \ {s}
  /\ attached' = {w \in attached : Named(w) \cap (Present \ {s}) # {}}
  /\ UNCHANGED <<command, volumeVars, historyVars>>

Emptied == Stopping /\ Targets \cap Present = {}

RemoveDatabase ==
  /\ Emptied
  /\ command.volumes
  /\ database # 0
  /\ database' = 0
  /\ migrated' = FALSE
  /\ partial' = TRUE
  /\ UNCHANGED <<command, attached, running, exited, created, identity,
                 confirmed, full>>

RemoveState(a) ==
  /\ Emptied
  /\ command.volumes /\ command.agents
  /\ identity[a] # 0
  /\ identity' = [identity EXCEPT ![a] = 0]
  /\ UNCHANGED <<command, attached, running, exited, database, created, migrated,
                 historyVars>>

\* The command is complete.  The history goes by what was asked for, and not
\* by what docker was told.
Stopped ==
  /\ Emptied
  /\ command.volumes => database = 0
  /\ command.volumes /\ command.agents => \A a \in Agents : identity[a] = 0
  /\ command' = NoCommand
  /\ partial' = (partial /\ ~full)
  /\ UNCHANGED <<attached, running, exited, volumeVars, confirmed, full>>

----------------------------------------------------------------------------
\* The services

\* postgres and the server have no restart policy.
ServiceExits(s) ==
  /\ s \in {"postgres", "server"} \cap running
  /\ running' = running \ {s}
  /\ UNCHANGED <<command, attached, exited, volumeVars, historyVars>>

Serving == {"postgres", "server"} \subseteq running

\* An agent that runs and has no identity enrolls, if it is served.
Enroll(a) ==
  /\ a \in running
  /\ Serving
  /\ identity[a] = 0
  /\ identity' = [identity EXCEPT ![a] = database]
  /\ UNCHANGED <<command, attached, running, exited, database, created, migrated,
                 historyVars>>

\* An agent ends with the first error it meets, because nobody serves it, its
\* call fails or it is killed, and does not try again by itself.
AgentExits(a) ==
  /\ a \in running
  /\ running' = running \ {a}
  /\ exited' = exited \cup {a}
  /\ UNCHANGED <<command, attached, volumeVars, historyVars>>

\* Wrong: an agent is restarted only while a start is attached to it.
RestartAttached(a) ==
  /\ a \in exited
  /\ TRUE \in attached
  /\ running' = running \cup {a}
  /\ exited' = exited \ {a}
  /\ UNCHANGED <<command, attached, volumeVars, historyVars>>

\* restart: unless-stopped.
Restart(a) ==
  /\ a \in exited
  /\ running' = running \cup {a}
  /\ exited' = exited \ {a}
  /\ UNCHANGED <<command, attached, volumeVars, historyVars>>

----------------------------------------------------------------------------

Next ==
  \/ \E arguments \in Arguments : Run(arguments)
  \/ Return
  \/ StartPostgres \/ Migrate \/ StartServer \/ Started
  \/ \E withAgents \in BOOLEAN : Interrupt(withAgents)
  \/ \E s \in Named(TRUE) : Remove(s)
  \/ RemoveDatabase \/ Stopped
  \/ \E s \in {"postgres", "server"} : ServiceExits(s)
  \/ \E a \in Agents :
       StartAgent(a) \/ RemoveState(a) \/ Enroll(a) \/ AgentExits(a) \/ Restart(a)

\* docker restarts an agent, and an agent that is started over and over while
\* it is served does not meet an error every time.
Fairness == \A a \in Agents : WF_vars(Restart(a)) /\ SF_vars(Enroll(a))

Spec == Init /\ [][Next]_vars /\ Fairness

----------------------------------------------------------------------------

DockerCommands ==
  [verb : {"up", "down", "ps", "logs", "build"}, agents : BOOLEAN, detach : BOOLEAN,
   volumes : BOOLEAN, orphans : BOOLEAN]

TypeOK ==
  /\ command \in DockerCommands \cup {NoCommand}
  /\ attached \in SUBSET BOOLEAN
  /\ running \in SUBSET Named(TRUE)
  /\ exited \in SUBSET Agents
  /\ database \in Nat
  /\ created \in Nat
  /\ migrated \in BOOLEAN
  /\ identity \in [Agents -> Nat]
  /\ confirmed \in SUBSET Nat
  /\ full \in BOOLEAN
  /\ partial \in BOOLEAN

\* A database is lost only by a reset that was confirmed with --yes, never by
\* a stop, an interrupted start or a start that fails (usage: backend stop
\* preserves the data, backend reset removes the volumes).
LostOnlyByConfirmedReset ==
  \A d \in 1..created : d = database \/ d \in confirmed

\* An agent is stranded if it holds an identity the database does not know: it
\* never enrolls again.  Nothing but the removal of a database strands one,
\* and a reset with --with-agents that completes leaves none, whatever resets
\* without the agents or failed resets came before it.
Stranded(a) == identity[a] \notin {0, database}

StrandedUntilFullReset == (\E a \in Agents : Stranded(a)) => partial

\* The server never runs without a database that has its schema, in whatever
\* order services are started, end and are removed.
ServerHasSchema == "server" \in running => database # 0 /\ migrated

\* A command that removes volumes is a down with --remove-orphans for a
\* database that was confirmed, and one with the agents' file if that was
\* asked for.
CommandFits ==
  command # NoCommand =>
    /\ command.volumes =>
         /\ command.verb = "down"
         /\ command.orphans
         /\ database \in confirmed \cup {0}
    /\ full => command.volumes /\ command.agents

\* Where postgres runs or a schema is, there is a database.
DatabaseExists == "postgres" \in running \/ migrated => database # 0

\* The invariant the proofs use: the properties, and what a command in progress
\* may do to them.
Inductive ==
  /\ TypeOK
  /\ CommandFits
  /\ DatabaseExists
  /\ LostOnlyByConfirmedReset
  /\ StrandedUntilFullReset
  /\ ServerHasSchema

\* Whenever a volume is removed, nothing of the stack runs that uses it, be it
\* named by the files of the command or left over from an earlier one.
NothingRunsOverLostData ==
  [][/\ database # 0 /\ database' = 0 => Present = {}
     /\ \A a \in Agents :
          identity[a] # 0 /\ identity'[a] = 0 => a \notin Present]_vars

\* An agent that ends with an error again and again, as it does until there is
\* a server, is enrolled once there is one that stays, without anybody's
\* command.
AgentEnrolls ==
  \A a \in Agents :
    (a \in Present /\ Serving /\ identity[a] = 0)
      ~> (identity[a] # 0 \/ a \notin Present \/ ~Serving)

============================================================================
