----------------------------- MODULE GuestExecutions -----------------------------
(***************************************************************************)
(* Executions are processes somebody starts in an agent's sandbox and      *)
(* whose events they stream: `agentctl exec`, an attached terminal, the    *)
(* probes of a setup pass, and the session runtime's tmux commands.  The   *)
(* target is an exact sandbox; the provider keeps a control for every      *)
(* stream that is held, through which the process can be killed.           *)
(*                                                                         *)
(* The guest prints and exits on its own, the sandbox may stop or be       *)
(* replaced between any two steps, and whoever asked may go away.          *)
(***************************************************************************)
EXTENDS Integers, Sequences

CONSTANTS
    ExecCalls,    \* who asks
    MaxOutput,    \* chunks a process prints
    MaxBoxIds,    \* sandboxes of the agent, one after another
    CaChoices     \* who sets NODE_EXTRA_CA_CERTS, and whether TLS is intercepted

ASSUME ExecConstants == MaxOutput \in Nat /\ MaxBoxIds \in Nat \ {0}
ASSUME CaChoicesType == CaChoices \subseteq [call : BOOLEAN, agent : BOOLEAN, intercepts : BOOLEAN]

VARIABLES
    sandbox,   \* id, whether it is up, whether it is wanted running, and what the agent's status says of it
    calls,     \* one Execution per caller
    process,     \* its process: in which sandbox, what it said, its events under way
    controls,  \* controls the provider has: MicrosandboxProvider::executions
    ca         \* the choice of this run

execVars == <<sandbox, calls, process, controls, ca>>

ExecKinds == {"exec", "attach", "probe", "lifecycle"}
NoCall(kind) == [kind |-> kind, at |-> "idle", target |-> 0, got |-> 0, ended |-> "none", kill |-> "none", env |-> "none"]
NoProcess == [box |-> 0, said |-> 0, exited |-> FALSE, events |-> <<>>]

AtCall(c, at) == calls[c].at = at
CallGoes(c, at) == calls' = [calls EXCEPT ![c].at = at]
CallEnds(c, how) == calls' = [calls EXCEPT ![c].at = "done", ![c].ended = how]
\* ExecutionGuard: the control goes with the stream.
DropsStream(c) == controls' = controls \ {c}
Running(c) == process[c].box # 0

-----------------------------------------------------------------------------
(* The target.                                                             *)

\* ExecutionService::ensure refuses a stopped agent before it wakes anything.
AsksTarget(c) ==
    /\ AtCall(c, "idle") /\ calls[c].kind \in {"exec", "attach"}
    /\ IF sandbox.wanted THEN CallGoes(c, "converging") ELSE CallEnds(c, "refused")
    /\ UNCHANGED <<sandbox, process, controls, ca>>

\* converge, and target: the exact sandbox the ready agent has.
ConvergedTarget(c) ==
    /\ AtCall(c, "converging") /\ (sandbox.ready \/ ~sandbox.wanted)
    /\ IF ~sandbox.wanted THEN CallEnds(c, "refused")
       ELSE calls' = [calls EXCEPT ![c].at = "opening", ![c].target = sandbox.id]
    /\ UNCHANGED <<sandbox, process, controls, ca>>

\* The caller opens the provider itself and looks for that sandbox.
InspectsTarget(c) ==
    /\ AtCall(c, "opening")
    /\ IF sandbox.id = calls[c].target THEN CallGoes(c, "starting") ELSE CallEnds(c, "failed")
    /\ UNCHANGED <<sandbox, process, controls, ca>>

\* A pass of the daemon has a handle on the sandbox it ensured.
PassAsks(c) ==
    /\ AtCall(c, "idle") /\ calls[c].kind \in {"probe", "lifecycle"} /\ sandbox.up
    /\ calls' = [calls EXCEPT ![c].at = "starting", ![c].target = sandbox.id]
    /\ UNCHANGED <<sandbox, process, controls, ca>>

-----------------------------------------------------------------------------
(* The process.                                                            *)

\* execution_environment over what the runtime sets: the call's own value,
\* the agent's, the guest's copy where TLS is intercepted, or the image's.
execution_environment(own) ==
    IF own THEN "call"
    ELSE IF ca.agent THEN "agent"
    ELSE IF ca.intercepts THEN "guest copy" ELSE "runtime"

\* sandbox_by_id, connect_running, and the request to the guest.
StartsProcess(c) ==
    /\ AtCall(c, "starting")
    /\ IF sandbox.id = calls[c].target /\ sandbox.up
       THEN /\ calls' = [calls EXCEPT ![c].at = IF calls[c].kind = "attach" THEN "attached" ELSE "started",
                                      ![c].env = execution_environment(ca.call)]
            /\ process' = [process EXCEPT ![c] = [NoProcess EXCEPT !.box = sandbox.id, !.events = <<"started">>]]
       ELSE CallEnds(c, "failed") /\ UNCHANGED process
    /\ UNCHANGED <<sandbox, controls, ca>>

\* The handle arrives: the control is registered, the guard holds it.
RegistersControl(c) ==
    /\ AtCall(c, "started")
    /\ controls' = controls \union {c}
    /\ CallGoes(c, "streaming")
    /\ UNCHANGED <<sandbox, process, ca>>

\* A tmux command's deadline may pass while it is starting.
StartsLate(c) ==
    /\ AtCall(c, "started") /\ calls[c].kind = "lifecycle"
    /\ CallEnds(c, "late")
    /\ UNCHANGED <<sandbox, process, controls, ca>>

-----------------------------------------------------------------------------
(* The events.                                                             *)

\* collect, and the CLI's own loop: only an exit is a success, and a stream
\* that ends without one is an error.
Receives(c) ==
    /\ AtCall(c, "streaming") /\ process[c].events # <<>>
    /\ process' = [process EXCEPT ![c].events = Tail(@)]
    /\ LET event == Head(process[c].events) IN
        CASE event = "started" -> UNCHANGED <<calls, controls>>
          [] event = "output" -> calls' = [calls EXCEPT ![c].got = @ + 1] /\ UNCHANGED controls
          [] event = "exited" -> CallEnds(c, "exited") /\ DropsStream(c)
          [] event \in {"failed", "closed"} -> CallEnds(c, "failed") /\ DropsStream(c)
    /\ UNCHANGED <<sandbox, ca>>

\* attach_terminal_to_runtime: the runtime copies everything to the terminal
\* and answers the code; without one, somebody has detached.
AttachEnds(c) ==
    /\ AtCall(c, "attached")
    /\ IF process[c].exited THEN calls' = [calls EXCEPT ![c].at = "done", ![c].ended = "exited", ![c].got = process[c].said]
       ELSE CallEnds(c, IF Running(c) THEN "detached" ELSE "failed")
    /\ UNCHANGED <<sandbox, process, controls, ca>>

-----------------------------------------------------------------------------
(* Time limits.                                                            *)

\* As it would be if a tmux command's stream were given up first.
LifecycleTimesOut_Dropping(c) ==
    /\ AtCall(c, "streaming") /\ calls[c].kind = "lifecycle"
    /\ CallGoes(c, "killing") /\ DropsStream(c)
    /\ UNCHANGED <<sandbox, process, ca>>

\* run_lifecycle_execution holds the stream until the process is killed.
LifecycleTimesOut(c) ==
    /\ AtCall(c, "streaming") /\ calls[c].kind = "lifecycle"
    /\ CallGoes(c, "killing")
    /\ UNCHANGED <<sandbox, process, controls, ca>>

\* wait_for_systemd, version_output: the time limit takes the collection,
\* and the stream with it.
ProbeTimesOut(c) ==
    /\ AtCall(c, "streaming") /\ calls[c].kind = "probe"
    /\ CallGoes(c, "killing") /\ DropsStream(c)
    /\ UNCHANGED <<sandbox, process, ca>>

\* kill_execution and control_execution: found, answered or not in time.
KillsExecution(c) ==
    /\ AtCall(c, "killing") /\ c \in controls
    /\ \E answer \in {"sent", "unanswered"} :
        /\ calls' = [calls EXCEPT ![c].at = "done", ![c].ended = "overdue", ![c].kill = answer]
        /\ process' = [process EXCEPT ![c].box = IF answer = "sent" THEN 0 ELSE @]
    /\ DropsStream(c)
    /\ UNCHANGED <<sandbox, ca>>

\* No control, no kill: the error is not looked at.
KillFindsNothing(c) ==
    /\ AtCall(c, "killing") /\ c \notin controls
    /\ calls' = [calls EXCEPT ![c].at = "done", ![c].ended = "overdue", ![c].kill = "not found"]
    /\ UNCHANGED <<sandbox, process, controls, ca>>

\* The caller goes away: an interrupted command, a pass the daemon dropped.
CallerGoes(c) ==
    /\ calls[c].at \notin {"idle", "done"}
    /\ CallEnds(c, "dropped") /\ DropsStream(c)
    /\ UNCHANGED <<sandbox, process, ca>>

-----------------------------------------------------------------------------
(* External: the guest and the sandbox.                                    *)

Emits(c, event) == process' = [process EXCEPT ![c].events = Append(@, event), ![c].said = @ + 1]

PrintsOutput(c) ==
    /\ Running(c) /\ process[c].said < MaxOutput
    /\ Emits(c, "output")
    /\ UNCHANGED <<sandbox, calls, controls, ca>>

ExitsProcess(c) ==
    /\ Running(c)
    /\ process' = [process EXCEPT ![c].box = 0, ![c].exited = TRUE, ![c].events = Append(@, "exited")]
    /\ UNCHANGED <<sandbox, calls, controls, ca>>

\* The program cannot be started.
FailsToStart(c) ==
    /\ Running(c) /\ process[c].said = 0
    /\ process' = [process EXCEPT ![c].box = 0, ![c].events = Append(@, "failed")]
    /\ UNCHANGED <<sandbox, calls, controls, ca>>

\* A process nobody streams any longer may go on, or end.
UnheldEnds(c) ==
    /\ Running(c) /\ AtCall(c, "done")
    /\ process' = [process EXCEPT ![c].box = 0]
    /\ UNCHANGED <<sandbox, calls, controls, ca>>

StoppedOrStarted ==
    /\ sandbox' = [sandbox EXCEPT !.wanted = ~@]
    /\ UNCHANGED <<calls, process, controls, ca>>

\* Boots are the reconciler's: of an agent that is wanted running.
BootsSandbox ==
    /\ sandbox.wanted /\ ~sandbox.ready
    /\ sandbox' = [sandbox EXCEPT !.up = TRUE, !.ready = TRUE]
    /\ UNCHANGED <<calls, process, controls, ca>>

\* Stopped, or dead: the agent's status learns of it with the next pass.
StopsSandbox ==
    /\ sandbox.up
    /\ sandbox' = [sandbox EXCEPT !.up = FALSE, !.ready = FALSE]
    /\ process' = [c \in ExecCalls |->
            IF Running(c) THEN [process[c] EXCEPT !.box = 0, !.events = Append(@, "closed")] ELSE process[c]]
    /\ UNCHANGED <<calls, controls, ca>>

\* The agent is deleted and made again.
ReplacesSandbox ==
    /\ ~sandbox.up /\ sandbox.id < MaxBoxIds
    /\ sandbox' = [sandbox EXCEPT !.id = @ + 1, !.ready = FALSE]
    /\ UNCHANGED <<calls, process, controls, ca>>

-----------------------------------------------------------------------------

ExecInit ==
    /\ sandbox = [id |-> 1, up |-> FALSE, wanted |-> TRUE, ready |-> FALSE]
    /\ calls \in {[c \in ExecCalls |-> NoCall(kinds[c])] : kinds \in [ExecCalls -> ExecKinds]}
    /\ process = [c \in ExecCalls |-> NoProcess]
    /\ controls = {}
    /\ ca \in CaChoices

ExecNext ==
    \/ \E c \in ExecCalls :
        \/ AsksTarget(c) \/ ConvergedTarget(c) \/ InspectsTarget(c) \/ PassAsks(c)
        \/ StartsProcess(c) \/ RegistersControl(c) \/ StartsLate(c)
        \/ Receives(c) \/ AttachEnds(c)
        \/ LifecycleTimesOut(c) \/ ProbeTimesOut(c) \/ KillsExecution(c) \/ KillFindsNothing(c)
        \/ CallerGoes(c)
        \/ PrintsOutput(c) \/ ExitsProcess(c) \/ FailsToStart(c) \/ UnheldEnds(c)
    \/ StoppedOrStarted \/ BootsSandbox \/ StopsSandbox \/ ReplacesSandbox

ExecSpec == ExecInit /\ [][ExecNext]_execVars

-----------------------------------------------------------------------------

ExecTypeOK ==
    /\ sandbox.id \in 1..MaxBoxIds /\ controls \subseteq ExecCalls
    /\ \A c \in ExecCalls :
        /\ calls[c].kind \in ExecKinds /\ calls[c].target \in 0..MaxBoxIds /\ calls[c].got \in 0..MaxOutput
        /\ calls[c].ended \in {"none", "refused", "failed", "late", "exited", "detached", "overdue", "dropped"}
        /\ calls[c].kill \in {"none", "sent", "unanswered", "not found"}
        /\ process[c].box \in 0..MaxBoxIds /\ process[c].said \in 0..MaxOutput

\* The provider has a control exactly while somebody holds the stream: none
\* is left behind by an end, an error or a caller that went (ExecutionGuard).
ControlsAreOfHeldStreams ==
    controls = {c \in ExecCalls : AtCall(c, "streaming") \/ (AtCall(c, "killing") /\ calls[c].kind = "lifecycle")}

\* Whoever was told of an exit has everything the process said, and was not
\* told so because the sandbox went down (StartedExecution::collect).
OutputIsWhole ==
    \A c \in ExecCalls : calls[c].ended = "exited" => process[c].exited /\ calls[c].got = process[c].said

\* A process only runs in the sandbox its caller resolved, never in the one
\* of an agent made again under the name (start_execution).
RunsInItsTarget ==
    \A c \in ExecCalls : Running(c) => sandbox.up /\ process[c].box = sandbox.id /\ sandbox.id = calls[c].target

\* What the call or the agent declares is what Node.js loads, and where TLS
\* is intercepted it is never a copy the guest user cannot read
\* (execution_environment).
CaIsReadable ==
    \A c \in ExecCalls : calls[c].env # "none" =>
        /\ ca.call => calls[c].env = "call"
        /\ ca.intercepts => calls[c].env # "runtime"

\* A tmux command that is out of time was killed when the pass goes on,
\* unless the kill itself had no answer (run_lifecycle_execution).
LifecycleIsKilled ==
    \A c \in ExecCalls : calls[c].kind = "lifecycle" /\ calls[c].ended = "overdue" /\ Running(c)
        => calls[c].kill = "unanswered"

\* "a still-running check is killed rather than left behind in the guest"
\* (wait_for_systemd, systemd.rs): its kill is at least sent.
ProbeIsKilled ==
    \A c \in ExecCalls : calls[c].kind = "probe" /\ calls[c].ended = "overdue" /\ Running(c)
        => calls[c].kill # "not found"

\* An Execution runs in the sandbox its caller resolved and can be killed while its stream is
\* held; its caller has all of its output, and a tmux command that is out of time is gone
\* (execution.rs, tmux.rs).
ExecutionsAreTheirCallers ==
    /\ ExecTypeOK
    /\ ControlsAreOfHeldStreams
    /\ OutputIsWhole
    /\ RunsInItsTarget
    /\ CaIsReadable
    /\ LifecycleIsKilled

=============================================================================
