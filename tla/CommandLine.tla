---------------------------- MODULE CommandLine ----------------------------
(***************************************************************************)
(* agentctl's commands (bin/agentctl/main.rs, watch.rs) in several         *)
(* terminals at once: each makes sure that agentd serves and starts it     *)
(* when it does not, resolves the agent it is about, asks agentd for what  *)
(* it does, waits until the agent has converged or its timeout passed, and *)
(* says what came of it.  Between two of its calls other commands, agentd  *)
(* and an upgrade move.                                                    *)
(***************************************************************************)
EXTENDS Naturals, FiniteSets

CONSTANTS
    Terminals,
    CmdAgents,       \* agents, by name
    CommandLines,    \* the command lines entered: records with op, on and variant
    Associations,    \* how the agents may be associated with the working directory: depth, 0 when one is not, and leaf
    DesktopImages,   \* the agents whose image serves a browser viewer
    MaxMoves         \* bound: changes agentd and the host make by themselves

\* A command is about a named agent, the one of its directory, or all.
ASSUME CommandLineConstants ==
    /\ IsFiniteSet(CmdAgents)
    /\ Terminals \cap {"nobody", "outside"} = {}
    /\ \A line \in CommandLines : line.on \in CmdAgents \cup {"here"} \/ line.op = "stop all"

VARIABLES
    agentd,     \* whether a daemon serves, and of which build
    lockedBy,   \* whose daemon holds the home's lock
    spawn,    \* the daemon a terminal's command started
    agents,     \* the agents as agentd has them
    assoc,      \* how they are associated with the working directory
    command,    \* what runs in each terminal
    seen,       \* what an agent converged to since the terminal's command was recorded for it
    moves

cliVars == <<agentd, lockedBy, spawn, agents, assoc, command, seen, moves>>

NoCommand == [step |-> "shell", said |-> "nothing", line |-> [op |-> "none", on |-> "none", variant |-> "none"],
              agent |-> "none", listed |-> {}, left |-> {}, recorded |-> {}, failed |-> {}, shown |-> {},
              fresh |-> FALSE, late |-> FALSE, code |-> 0, port |-> FALSE]
CommandSteps == {"shell", "health", "starting", "resolves", "asks", "records", "converging", "waits", "listing", "confirms",
          "targets", "streams", "holds", "connects", "polls"}

CommandTypeOK ==
    /\ agentd \in [serves : BOOLEAN, build : {"ours", "other"}]
    /\ lockedBy \in Terminals \cup {"nobody", "outside"}
    /\ agentd.serves => lockedBy # "nobody"
    /\ \A t \in Terminals : spawn[t] \in {"none", "alive", "exited"} /\ command[t].step \in CommandSteps
    /\ \A t \in Terminals : lockedBy = t => spawn[t] = "alive"
    /\ agents \in [CmdAgents -> [exists : BOOLEAN, run : {"Running", "Stopped"}, done : BOOLEAN]]
    /\ seen \in [Terminals -> SUBSET (CmdAgents \X {"Running", "Stopped"})]

CommandInit ==
    /\ agentd \in [serves : BOOLEAN, build : {"ours"}]
    /\ lockedBy = IF agentd.serves THEN "outside" ELSE "nobody"
    /\ spawn = [t \in Terminals |-> "none"]
    /\ agents \in [CmdAgents -> [exists : {TRUE}, run : {"Running", "Stopped"}, done : {TRUE}]]
    /\ assoc \in Associations
    /\ command = [t \in Terminals |-> NoCommand]
    /\ seen = [t \in Terminals |-> {}] /\ moves = 0

StepIs(t, step) == command[t].step = step
Op(t) == command[t].line.op
Goes_(t, step) == command' = [command EXCEPT ![t].step = step]

\* The command ends, having said `what`.
CommandSays(t, what) == command' = [command EXCEPT ![t].step = "shell", ![t].said = what]
Shell == UNCHANGED <<agentd, lockedBy, spawn, agents, assoc, moves>>

\* The watchers' revisions are not the current ones any more.
NoLongerFresh(cmds) == [t \in Terminals |-> [cmds[t] EXCEPT !.fresh = FALSE]]

-----------------------------------------------------------------------------
(* Making sure that agentd serves *)

\* run: every command does so first, a prompt once its daemon is up.
EntersLine(t, line) ==
    /\ StepIs(t, "shell") /\ command[t].said = "nothing"
    /\ command' = [command EXCEPT ![t] = [NoCommand EXCEPT !.step = "health", !.line = line, !.agent = line.on]]
    /\ UNCHANGED seen /\ Shell

\* What follows once the daemon is there.
After(t) ==
    IF command[t].line.on = "here" THEN "resolves"
    ELSE IF Op(t) = "stop all" THEN "listing" ELSE "asks"

\* require_compatible: a daemon of another build is not spoken to.
Greets(t) ==
    IF agentd.build = "ours" THEN Goes_(t, After(t)) ELSE CommandSays(t, "incompatible")

\* ensure_daemon: a daemon is spawned when none answers.
EnsuresDaemon(t) ==
    /\ StepIs(t, "health")
    /\ IF agentd.serves THEN Greets(t) /\ UNCHANGED spawn
       ELSE Goes_(t, "starting") /\ spawn' = [spawn EXCEPT ![t] = "alive"]
    /\ UNCHANGED <<agentd, lockedBy, agents, assoc, seen, moves>>

\* It is asked again until it serves, the spawned one ended or the tries are
\* used up; whichever daemon answers is good.
AwaitsDaemon(t) ==
    /\ StepIs(t, "starting")
    /\ \/ agentd.serves /\ Greets(t)
       \/ ~agentd.serves /\ spawn[t] = "exited" /\ CommandSays(t, "startup failed")
       \/ ~agentd.serves /\ spawn[t] = "alive" /\ CommandSays(t, "startup took too long")
    /\ UNCHANGED seen /\ Shell

\* acquire_home_lock: one daemon serves a home.
TakesHomeLock(t) ==
    /\ spawn[t] = "alive" /\ lockedBy = "nobody"
    /\ lockedBy' = t
    /\ UNCHANGED <<agentd, spawn, agents, assoc, command, seen, moves>>

\* The one that waits for the lock in vain ends.
FailsToLock(t) ==
    /\ spawn[t] = "alive" /\ lockedBy \notin {"nobody", t}
    /\ spawn' = [spawn EXCEPT ![t] = "exited"]
    /\ UNCHANGED <<agentd, lockedBy, agents, assoc, command, seen, moves>>

ServesHome(t) ==
    /\ lockedBy = t /\ ~agentd.serves
    /\ agentd' = [serves |-> TRUE, build |-> "ours"]
    /\ UNCHANGED <<lockedBy, spawn, agents, assoc, command, seen, moves>>

\* The daemon ends, or fails to start; an upgrade may start the next build's.
DaemonEnds ==
    /\ moves < MaxMoves /\ lockedBy # "nobody"
    /\ spawn' = [t \in Terminals |-> IF lockedBy = t THEN "exited" ELSE spawn[t]]
    /\ \/ agentd' = [agentd EXCEPT !.serves = FALSE] /\ lockedBy' = "nobody"
       \/ agentd' = [serves |-> TRUE, build |-> "other"] /\ lockedBy' = "outside"
    /\ command' = NoLongerFresh(command)
    /\ moves' = moves + 1 /\ UNCHANGED <<agents, assoc, seen>>

-----------------------------------------------------------------------------
(* The agent a command is about *)

Associated == {a \in CmdAgents : agents[a].exists /\ assoc[a].depth > 0}
Closest == {a \in Associated : \A b \in Associated : assoc[b].depth <= assoc[a].depth}

\* resolve_directory_variant: the closest agents; of several the one its
\* variant names, or the only one of the default manifest.
resolve_directory_variant(variant) ==
    LET named == IF variant = "none" THEN Closest ELSE {a \in Closest : assoc[a].leaf = variant}
        defaults == {a \in named : assoc[a].leaf = "agent.yaml"}
    IN IF variant = "none" /\ Cardinality(named) > 1 /\ Cardinality(defaults) = 1 THEN defaults ELSE named

\* resolve_agent_name: none or several is an error.
ResolvesAgent(t) ==
    /\ StepIs(t, "resolves") /\ UNCHANGED seen /\ Shell
    /\ LET found == resolve_directory_variant(command[t].line.variant)
       IN IF ~agentd.serves THEN CommandSays(t, "no answer")
          ELSE IF Cardinality(found) # 1 THEN CommandSays(t, "not resolved")
          ELSE command' = [command EXCEPT ![t].step = "asks", ![t].agent = CHOOSE a \in found : TRUE]

-----------------------------------------------------------------------------
(* Asking for a change and waiting for it *)

Asked(op) == CASE op \in {"stop", "kill", "stop all"} -> "Stopped" [] op \in {"start", "restart"} -> "Running"

\* An agent as it is once `op` is recorded for it.  A write that changes
\* nothing leaves it as it was.
Recorded(a, op) ==
    IF op = "apply" /\ ~agents[a].exists THEN [exists |-> TRUE, run |-> "Running", done |-> FALSE]
    ELSE IF op \in {"apply", "wait"} THEN agents[a]
    ELSE [agents[a] EXCEPT !.run = Asked(op), !.done = @ /\ op # "restart" /\ agents[a].run = Asked(op)]

\* What an agent that has converged already is seen to be.
SeenIn(a, now) == IF now.done THEN {<<a, now.run>>} ELSE {}

\* stop, kill, start, restart, apply --wait: recorded, then waited for.  A wait
\* for Ready refuses an agent that shall be stopped.
AsksForChange(t) ==
    /\ StepIs(t, "asks") /\ Op(t) \in {"stop", "kill", "start", "restart", "apply", "wait"}
    /\ LET a == command[t].agent
           new == Recorded(a, Op(t))
       IN IF ~agentd.serves \/ (~agents[a].exists /\ Op(t) # "apply") THEN CommandSays(t, "failed") /\ UNCHANGED <<agents, seen>>
          ELSE IF Op(t) = "wait" /\ agents[a].run = "Stopped" THEN CommandSays(t, "is stopped") /\ UNCHANGED <<agents, seen>>
          ELSE /\ agents' = [agents EXCEPT ![a] = new]
               /\ seen' = [seen EXCEPT ![t] = SeenIn(a, new)]
               /\ command' = [IF new = agents[a] THEN command ELSE NoLongerFresh(command) EXCEPT ![t].step = "converging"]
    /\ UNCHANGED <<agentd, lockedBy, spawn, assoc, moves>>

\* delete, archive, turns, describe and the like: one call.
AsksOnce(t) ==
    /\ StepIs(t, "asks") /\ Op(t) \in {"delete", "describe"}
    /\ LET a == command[t].agent
       IN IF ~agentd.serves \/ (Op(t) = "describe" /\ ~agents[a].exists) THEN CommandSays(t, "failed") /\ UNCHANGED agents
          ELSE IF Op(t) = "delete" THEN
                   /\ agents' = [agents EXCEPT ![a].exists = FALSE]
                   /\ command' = [NoLongerFresh(command) EXCEPT ![t].step = "shell", ![t].said = "deleted"]
          ELSE CommandSays(t, "described") /\ UNCHANGED agents
    /\ UNCHANGED <<agentd, lockedBy, spawn, assoc, seen, moves>>

\* The plausible slip: what a command was asked for is what it says.
Outcome_AsAsked(op, run) ==
    CASE op \in {"stop", "kill"} -> "stopped"
      [] op = "start" -> "started"
      [] op = "restart" -> "restarted"
      [] op = "apply" -> IF run = "Stopped" THEN "stopped" ELSE "ready"
      [] op = "wait" -> "condition met"

\* What a command says of an agent that converged to `run`: another client may
\* have asked for the opposite meanwhile.
Outcome(op, run) ==
    CASE op \in {"stop", "kill"} -> IF run = "Stopped" THEN "stopped" ELSE "started again"
      [] op = "start" -> IF run = "Running" THEN "started" ELSE "set again"
      [] op = "restart" -> IF run = "Running" THEN "restarted" ELSE "stopped again"
      [] op = "apply" -> IF run = "Stopped" THEN "stopped" ELSE "ready"
      [] op = "wait" -> IF run = "Stopped" THEN "is stopped" ELSE "condition met"

\* wait_until_converged: converge answers once the agent has its desired run state.
Converges(t) ==
    /\ StepIs(t, "converging") /\ UNCHANGED seen /\ Shell
    /\ LET a == command[t].agent
       IN IF ~agentd.serves \/ ~agents[a].exists THEN CommandSays(t, "failed")
          ELSE agents[a].done /\ CommandSays(t, Outcome(Op(t), agents[a].run))

\* The timeout passes; agentd goes on.
TimesOut(t) ==
    /\ StepIs(t, "converging") /\ agentd.serves
    /\ CommandSays(t, "timed out") /\ UNCHANGED seen /\ Shell

-----------------------------------------------------------------------------
(* Stopping every agent *)

\* agents_to_stop: every one not stopped yet, one still stopping too.
ListsRunning(t) ==
    /\ StepIs(t, "listing") /\ UNCHANGED seen /\ Shell
    /\ LET names == {a \in CmdAgents : agents[a].exists /\ ~(agents[a].run = "Stopped" /\ agents[a].done)}
       IN IF ~agentd.serves THEN CommandSays(t, "failed")
          ELSE IF names = {} THEN CommandSays(t, "no agent is running")
          ELSE command' = [command EXCEPT ![t].step = "confirms", ![t].listed = names, ![t].left = names]

\* Without --all a person is asked, who may decline; without one it is refused.
ConfirmsDelete(t) ==
    /\ StepIs(t, "confirms") /\ UNCHANGED seen /\ Shell
    /\ \/ Goes_(t, "records")
       \/ CommandSays(t, "declined")

\* Every stop is recorded before any is waited for; one that cannot be leaves
\* the others to stop.
RecordsStop(t, a) ==
    /\ StepIs(t, "records") /\ a \in command[t].left
    /\ LET new == Recorded(a, "stop all")
           able == agentd.serves /\ agents[a].exists
           left == command[t].left \ {a}
           cmds == IF able /\ new # agents[a] THEN NoLongerFresh(command) ELSE command
           recorded == command[t].recorded \cup (IF able THEN {a} ELSE {})
           failed == command[t].failed \cup (IF able THEN {} ELSE {a})
       IN /\ agents' = IF able THEN [agents EXCEPT ![a] = new] ELSE agents
          /\ seen' = IF able THEN [seen EXCEPT ![t] = @ \cup SeenIn(a, new)] ELSE seen
          /\ command' = [cmds EXCEPT ![t].recorded = recorded, ![t].failed = failed,
                                     ![t].step = IF left = {} THEN "waits" ELSE "records",
                                     ![t].left = IF left = {} THEN recorded ELSE left]
    /\ UNCHANGED <<agentd, lockedBy, spawn, assoc, moves>>

\* Whether the one waited for did not stop: it is gone, agentd is, or another
\* client started it again.
DidNot(t, a) == ~agentd.serves \/ ~agents[a].exists \/ agents[a].run # "Stopped"

\* wait_saying_why, one after the other, all within one deadline.
WaitsForStop(t, a) ==
    /\ StepIs(t, "waits") /\ a \in command[t].left /\ UNCHANGED seen /\ Shell
    /\ ~agentd.serves \/ ~agents[a].exists \/ agents[a].done \/ command[t].late
    /\ command' = [command EXCEPT ![t].left = @ \ {a},
                       ![t].failed = IF DidNot(t, a) \/ (command[t].late /\ ~agents[a].done) THEN @ \cup {a} ELSE @]

\* The one deadline passes.
PassesDeadline(t) ==
    /\ StepIs(t, "waits") /\ ~command[t].late
    /\ command' = [command EXCEPT ![t].late = TRUE] /\ UNCHANGED seen /\ Shell

CountsStopped(t) ==
    /\ StepIs(t, "waits") /\ command[t].left = {}
    /\ CommandSays(t, IF command[t].failed = {} THEN "every agent is stopped" ELSE "some did not stop")
    /\ UNCHANGED seen /\ Shell

-----------------------------------------------------------------------------
(* Commands in the sandbox, its desktop, and watches *)

\* vnc_access: which ports the image serves is observed by the pass that makes
\* the agent Ready.
WebPort(a) == agents[a].done /\ a \in DesktopImages

\* exec, ssh, port-forward, vnc, create and attach wait for their agent:
\* ensure_execution and ensure_session answer once it is Ready, and refuse a
\* stopped one.
EnsuresReady(t) ==
    /\ StepIs(t, "asks") /\ Op(t) \in {"exec", "ssh", "forward", "vnc", "create"} /\ UNCHANGED seen /\ Shell
    /\ LET a == command[t].agent
       IN IF ~agentd.serves \/ ~agents[a].exists \/ agents[a].run = "Stopped" THEN CommandSays(t, "failed")
          ELSE command' = [command EXCEPT ![t].step = "targets", ![t].port = WebPort(a)]

\* The browser viewer's port is read again once the agent is Ready.
DesktopPort(t) == WebPort(command[t].agent)

\* The agent is Ready: the command runs in it, or its ports are forwarded.
ReadyTarget(t) ==
    /\ StepIs(t, "targets") /\ UNCHANGED seen /\ Shell
    /\ LET a == command[t].agent
       IN IF ~agentd.serves \/ ~agents[a].exists \/ agents[a].run = "Stopped" THEN CommandSays(t, "failed")
          ELSE /\ agents[a].done
               /\ CASE Op(t) = "exec" -> Goes_(t, "streams")
                    [] Op(t) = "ssh" -> CommandSays(t, "ssh")
                    [] Op(t) = "forward" -> command' = [command EXCEPT ![t].step = "holds", ![t].left = CmdAgents]
                    [] Op(t) = "vnc" -> IF DesktopPort(t) THEN command' = [command EXCEPT ![t].step = "holds", ![t].left = {a}]
                                        ELSE CommandSays(t, "no viewer")
                    [] Op(t) = "create" -> CommandSays(t, "session ready")

AllFinished(t) == command[t].left = {}

\* hold_forwards: the forwards (as many as there are names) stay open until
\* every one has stopped serving, or the user interrupts them.
HoldsForwards(t) ==
    /\ StepIs(t, "holds") /\ UNCHANGED seen /\ Shell
    /\ \/ \E f \in command[t].left : command' = [command EXCEPT ![t].left = @ \ {f}]
       \/ AllFinished(t) /\ CommandSays(t, "every port forward has stopped")
       \/ CommandSays(t, "interrupted")

\* create's timeout covers everything from the start of the daemon on.
CreateTimesOut(t) ==
    /\ StepIs(t, "health") \/ StepIs(t, "starting") \/ StepIs(t, "resolves") \/ StepIs(t, "asks") \/ StepIs(t, "targets")
    /\ Op(t) = "create" /\ CommandSays(t, "timed out") /\ UNCHANGED seen /\ Shell

\* A code that does not fit a byte is a failure.
exit_code(code) == IF code \in 0..255 THEN code ELSE 1

\* stream_execution: the command's output until it exits, fails, or its stream ends.
StreamsExecution(t) ==
    /\ StepIs(t, "streams") /\ UNCHANGED seen /\ Shell
    /\ \/ \E code \in {0, 1, 256} :
              command' = [command EXCEPT ![t].step = "shell", ![t].code = code,
                              ![t].said = IF exit_code(code) = 0 THEN "success" ELSE "failure"]
       \/ CommandSays(t, "failed")

\* What a watch of the command's agent shows: whether it is there and its run state.
render(t) ==
    LET a == command[t].agent
    IN IF agents[a].exists THEN {<<agents[a].run, agents[a].done>>} ELSE {}

\* get --watch reads as `get` does first, and fails as it does.
AsksToWatch(t) ==
    /\ StepIs(t, "asks") /\ Op(t) = "watch" /\ UNCHANGED seen /\ Shell
    /\ IF ~agentd.serves \/ ~agents[command[t].agent].exists THEN CommandSays(t, "failed") ELSE Goes_(t, "connects")

\* follow: the daemon's build is checked before each watch; one that cannot be
\* reached is tried again.
ChecksBuild(t) ==
    /\ StepIs(t, "connects") /\ agentd.serves /\ UNCHANGED seen /\ Shell
    /\ IF agentd.build = "other" THEN CommandSays(t, "incompatible") ELSE Goes_(t, "polls")

\* The whole state is written when its rendering changed.
Shows(t) == render(t)

\* watch_resources answers once something changed after the revision it was given.
Watches(t) ==
    /\ StepIs(t, "polls") /\ UNCHANGED seen /\ Shell
    /\ IF ~agentd.serves THEN Goes_(t, "connects")
       ELSE /\ ~command[t].fresh
            /\ command' = [command EXCEPT ![t].step = "connects", ![t].fresh = TRUE, ![t].shown = Shows(t)]

-----------------------------------------------------------------------------
(* agentd and other clients *)

\* The reconciler brings an agent to its run state; what its image offers is
\* observed by then.
Settles(a) ==
    /\ agentd.serves /\ agents[a].exists /\ ~agents[a].done
    /\ agents' = [agents EXCEPT ![a].done = TRUE]
    /\ seen' = [t \in Terminals |-> IF command[t].step = "shell" THEN seen[t]
                   ELSE IF a = command[t].agent \/ a \in command[t].recorded THEN seen[t] \cup {<<a, agents[a].run>>}
                   ELSE seen[t]]
    /\ command' = NoLongerFresh(command)
    /\ UNCHANGED <<agentd, lockedBy, spawn, assoc, moves>>

CommandNext ==
    \/ \E t \in Terminals :
          \/ \E line \in CommandLines : EntersLine(t, line)
          \/ EnsuresDaemon(t) \/ AwaitsDaemon(t) \/ TakesHomeLock(t) \/ FailsToLock(t) \/ ServesHome(t)
          \/ ResolvesAgent(t) \/ AsksForChange(t) \/ AsksOnce(t) \/ Converges(t) \/ TimesOut(t)
          \/ ListsRunning(t) \/ ConfirmsDelete(t) \/ PassesDeadline(t) \/ CountsStopped(t)
          \/ \E a \in CmdAgents : RecordsStop(t, a) \/ WaitsForStop(t, a)
          \/ EnsuresReady(t) \/ ReadyTarget(t) \/ HoldsForwards(t) \/ CreateTimesOut(t) \/ StreamsExecution(t)
          \/ AsksToWatch(t) \/ ChecksBuild(t) \/ Watches(t)
    \/ DaemonEnds
    \/ \E a \in CmdAgents : Settles(a)

CommandSpec == CommandInit /\ [][CommandNext]_cliVars

-----------------------------------------------------------------------------
(* Properties *)

\* What a command says is what it saw: whatever other commands asked for
\* meanwhile, an agent said to be stopped, started, restarted or ready was so
\* at a moment after the command was recorded for it; and "Every agent is
\* stopped" stands for each agent of its list.
SaysWhatItSaw ==
    \A t \in Terminals :
        LET a == command[t].agent said == command[t].said
        IN /\ said = "stopped" => <<a, "Stopped">> \in seen[t]
           /\ said \in {"started", "restarted", "ready", "condition met"} => <<a, "Running">> \in seen[t]
           /\ said = "every agent is stopped" => \A b \in command[t].listed : <<b, "Stopped">> \in seen[t]

\* exec tells success only of a command that succeeded.
ExitTellsTheGuests == \A t \in Terminals : command[t].said = "success" => command[t].code = 0

\* A command that holds forwards open leaves by itself only when none is left.
HeldToTheLast == \A t \in Terminals : command[t].said = "every port forward has stopped" => command[t].left = {}

\* A desktop refused for having no browser viewer has none.
RefusedDesktopHasNoViewer ==
    \A t \in Terminals : command[t].said = "no viewer" => command[t].agent \notin DesktopImages

\* What a command run in a directory is about is associated with it, no other
\* agent there is closer, and one as close was set aside by the variant or for
\* the only agent of the default manifest.
ResolvedIsTheClosest ==
    [][\A t \in Terminals :
          command[t].step = "resolves" /\ command'[t].step = "asks" =>
              LET a == command'[t].agent variant == command[t].line.variant
              IN /\ a \in Associated /\ \A b \in Associated : assoc[b].depth <= assoc[a].depth
                 /\ variant # "none" => assoc[a].leaf = variant
                 /\ \A b \in Associated \ {a} : assoc[b].depth = assoc[a].depth =>
                        assoc[b].leaf # assoc[a].leaf /\ (variant = "none" => assoc[a].leaf = "agent.yaml")]_cliVars

\* A watch that waits with the current revision has shown the current state.
WatchShowsTheState ==
    \A t \in Terminals : command[t].line.op = "watch" /\ command[t].fresh => command[t].shown = render(t)

\* What a command says is something it saw after it was entered, its exit code is the guest's,
\* and it holds what it opened until it ends (bin/agentctl/main.rs).
CommandsTellTheTruth ==
    /\ CommandTypeOK
    /\ SaysWhatItSaw
    /\ ExitTellsTheGuests
    /\ HeldToTheLast
    /\ RefusedDesktopHasNoViewer
    /\ WatchShowsTheState

=============================================================================
