---------------------------- MODULE Microsandbox ----------------------------
(***************************************************************************)
(* One sandbox name: the lifecycle passes of SandboxService                *)
(* (sandbox/core/src/service.rs) over the Microsandbox backend             *)
(* (sandbox/microsandbox/src/backend.rs).  A pass works on the snapshot it *)
(* read first, and may be dropped, fail or die with its process after any  *)
(* step; the VM may end at any time.                                       *)
(***************************************************************************)
EXTENDS Naturals, FiniteSets

CONSTANTS
    MaxIds,          \* bound on sandboxes created under the name
    MaxCpu, MaxDisk, \* resources are [cpu : 1..MaxCpu, disk : 1..MaxDisk]
    Environments,    \* environments
    Images           \* image sources

ASSUME MicrosandboxConstants ==
    /\ {MaxIds, MaxCpu, MaxDisk} \subseteq Nat \ {0}
    /\ Environments # {} /\ Images # {}

VARIABLES
    record,          \* the state record on disk, or NoRecord
    runtime,         \* what Microsandbox keeps of the VM, or NoRuntime
    controlled,      \* this process told Microsandbox to control the VM's network
    network,         \* ids whose network this process runs
    pass,            \* the lifecycle pass
    lastId           \* the last id that was assigned

boxVars == <<record, runtime, controlled, network, pass, lastId>>

BoxResources == [cpu : 1..MaxCpu, disk : 1..MaxDisk]
Requests == [resources : BoxResources, environment : Environments, image : Images]
Records == [id : 1..MaxIds, resources : BoxResources, environment : Environments, image : Images]
Configs == [resources : BoxResources, environment : Environments]
Runtimes == [id : 1..MaxIds, status : {"Running", "Stopped"}, stored : Configs, booted : Configs,
             controlled : BOOLEAN]

NoRecord == [id |-> 0]
NoRuntime == [id |-> 0, status |-> "Stopped"]
NoSnapshot == [id |-> 0, state |-> "Absent"]

HasRecord == record.id # 0
HasRuntime == runtime.id # 0
VmRuns == runtime.status = "Running"

\* inspect_record: a record without a runtime is a stopped sandbox.
inspect_record ==
    IF HasRecord THEN [id |-> record.id, state |-> IF VmRuns THEN "Running" ELSE "Stopped",
                       resources |-> record.resources, environment |-> record.environment]
                 ELSE NoSnapshot

Kinds == {"ensure", "stop", "kill", "delete"}
EnsurePCs == {"creates", "holds", "environment", "stops for environment", "stops network for environment",
              "modifies environment", "records environment", "resources", "stops for resources",
              "records resources", "starts with resources", "network", "starts", "inspects", "ready"}
ReleasePCs == {"kills", "stops", "stops network", "deletes network", "stops again", "removes runtime",
               "removes record"}
Resting == [pc |-> "rests"]

\* Every field has a value of its kind, and a pass under way has a snapshot of a sandbox
\* that existed when it looked.
BoxTypeOK ==
    /\ record \in Records \cup {NoRecord}
    /\ runtime \in Runtimes \cup {NoRuntime}
    /\ controlled \in BOOLEAN
    /\ network \subseteq 1..MaxIds
    /\ lastId \in 0..MaxIds
    /\ pass.pc \in {"rests", "finds"} \cup EnsurePCs \cup ReleasePCs
    /\ pass.pc \in ReleasePCs \cup (EnsurePCs \ {"creates", "holds"}) => pass.seen.id # 0

BoxInit ==
    /\ record = NoRecord
    /\ runtime = NoRuntime
    /\ controlled = FALSE
    /\ network = {}
    /\ pass = Resting
    /\ lastId = 0

-----------------------------------------------------------------------------
At(pc) == pass.pc = pc
Goes(pc) == pass' = [pass EXCEPT !.pc = pc]
\* The operation returns the sandbox as it is then, and the pass goes on with that.
GoesWith(pc, sandbox) == pass' = [pass EXCEPT !.pc = pc, !.seen = sandbox]

Asked == [resources |-> pass.request.resources, environment |-> pass.request.environment]
Recorded == [resources |-> record.resources, environment |-> record.environment]

Begins(kind, request) ==
    /\ pass = Resting
    /\ pass' = [pc |-> "finds", kind |-> kind, request |-> request, seen |-> NoSnapshot, restarts |-> FALSE]
    /\ UNCHANGED <<record, runtime, controlled, network, lastId>>

\* find, and the immutable fields an existing sandbox must match.
Finds ==
    /\ At("finds")
    /\ pass' = CASE pass.kind = "ensure" /\ ~HasRecord -> [pass EXCEPT !.pc = "creates"]
                 [] pass.kind = "ensure" /\ HasRecord ->
                        IF record.image = pass.request.image
                        THEN [pass EXCEPT !.pc = "environment", !.seen = inspect_record] ELSE Resting
                 [] pass.kind # "ensure" /\ ~HasRecord -> Resting
                 [] pass.kind = "kill" /\ HasRecord -> [pass EXCEPT !.pc = "kills", !.seen = inspect_record]
                 [] OTHER -> [pass EXCEPT !.pc = IF VmRuns THEN "stops" ELSE "stops network",
                                          !.seen = inspect_record]
    /\ UNCHANGED <<record, runtime, controlled, network, lastId>>

\* The pass returns an error after any step; what it did so far stays.
PassFails ==
    /\ pass # Resting
    /\ pass' = Resting
    /\ UNCHANGED <<record, runtime, controlled, network, lastId>>

\* The process ends with its memory; VMs run on, and records and runtimes are on disk.
ProcessRestarts ==
    /\ pass' = Resting
    /\ controlled' = FALSE
    /\ network' = {}
    /\ UNCHANGED <<record, runtime, lastId>>

\* The VM crashes or its guest shuts down.
VmEnds ==
    /\ VmRuns
    /\ runtime' = [runtime EXCEPT !.status = "Stopped"]
    /\ UNCHANGED <<record, controlled, network, pass, lastId>>

-----------------------------------------------------------------------------
(* ensure: a sandbox that does not exist.                                  *)

CreatesRecord_SameId ==
    /\ At("creates")
    /\ lastId < MaxIds
    /\ lastId' = lastId + 1
    /\ record' = [id |-> 1, resources |-> pass.request.resources,
                  environment |-> pass.request.environment, image |-> pass.request.image]
    /\ Goes("holds")
    /\ UNCHANGED <<runtime, controlled, network>>

\* create_record saves the record before the sandbox holds its image.
CreatesRecord ==
    /\ At("creates")
    /\ lastId < MaxIds
    /\ lastId' = lastId + 1
    /\ record' = [id |-> lastId', resources |-> pass.request.resources,
                  environment |-> pass.request.environment, image |-> pass.request.image]
    /\ Goes("holds")
    /\ UNCHANGED <<runtime, controlled, network>>

HoldsImage ==
    /\ At("holds")
    /\ GoesWith("network", inspect_record)
    /\ UNCHANGED <<record, runtime, controlled, network, lastId>>

\* hold_image fails: the record goes again.
HoldFails ==
    /\ At("holds")
    /\ record' = NoRecord
    /\ pass' = Resting
    /\ UNCHANGED <<runtime, controlled, network, lastId>>

-----------------------------------------------------------------------------
(* ensure_environment: the sandbox is stopped for it.                      *)

StopVm == runtime' = IF VmRuns THEN [runtime EXCEPT !.status = "Stopped"] ELSE runtime

EnsuresEnvironment ==
    /\ At("environment")
    /\ Goes(CASE pass.seen.environment = pass.request.environment -> "resources"
              [] pass.seen.environment # pass.request.environment /\ pass.seen.state = "Running" ->
                    "stops for environment"
              [] OTHER -> "modifies environment")
    /\ UNCHANGED <<record, runtime, controlled, network, lastId>>

StopsForEnvironment ==
    /\ At("stops for environment")
    /\ StopVm
    /\ Goes("stops network for environment")
    /\ UNCHANGED <<record, controlled, network, lastId>>

StopsNetworkForEnvironment ==
    /\ At("stops network for environment")
    /\ network' = network \ {pass.seen.id}
    /\ Goes("modifies environment")
    /\ UNCHANGED <<record, runtime, controlled, lastId>>

\* The runtime's next start gets the environment first ...
ModifiesEnvironment ==
    /\ At("modifies environment")
    /\ ~VmRuns
    /\ runtime' = IF HasRuntime THEN [runtime EXCEPT !.stored.environment = pass.request.environment] ELSE runtime
    /\ Goes("records environment")
    /\ UNCHANGED <<record, controlled, network, lastId>>

\* ... then the record.
RecordsEnvironment ==
    /\ At("records environment")
    /\ record' = [record EXCEPT !.environment = pass.request.environment]
    /\ pass' = [pass EXCEPT !.pc = "resources", !.seen = [inspect_record EXCEPT !.environment = pass.request.environment]]
    /\ UNCHANGED <<runtime, controlled, network, lastId>>

-----------------------------------------------------------------------------
(* ensure_resources.                                                       *)

\* boot_changes sets what differs from `from`; the root disk only grows.
boot_changes(from, desired) ==
    [resources |-> [cpu |-> IF from.resources.cpu # desired.resources.cpu THEN desired.resources.cpu
                                                                         ELSE runtime.stored.resources.cpu,
                    disk |-> runtime.stored.resources.disk],
     environment |-> runtime.stored.environment]

converge_next_start == boot_changes(runtime.stored, Recorded)

Grown(config, disk) == [config EXCEPT !.resources.disk = disk]

PreparedFor_Nothing(changes) == controlled

\* A change prepares the network control again, for a process that did not start the VM.
PreparedFor(changes) == controlled \/ changes

\* update_sandbox_resources, up to the change of the stored configuration.  What a running
\* VM booted with is compared, not what is stored for its next start.
ModifiesResources ==
    LET from == IF VmRuns THEN runtime.booted ELSE runtime.stored
        changes == \/ from.resources.cpu # pass.request.resources.cpu
                   \/ runtime.stored.resources.disk < pass.request.resources.disk
    IN
    /\ At("resources")
    /\ IF pass.seen.resources = pass.request.resources \/ record.resources = pass.request.resources
       THEN /\ GoesWith("network", IF pass.seen.resources = pass.request.resources THEN pass.seen ELSE inspect_record)
            /\ UNCHANGED <<runtime, controlled>>
       ELSE IF ~HasRuntime
       THEN /\ pass' = [pass EXCEPT !.pc = "records resources", !.restarts = FALSE]
            /\ UNCHANGED <<runtime, controlled>>
       ELSE IF pass.request.resources.disk < runtime.stored.resources.disk
       THEN /\ pass' = Resting
            /\ UNCHANGED <<runtime, controlled>>
       ELSE /\ runtime' = [runtime EXCEPT !.stored = Grown(boot_changes(from, Asked), pass.request.resources.disk)]
            /\ controlled' = PreparedFor(changes)
            /\ pass' = [pass EXCEPT !.pc = IF changes /\ VmRuns THEN "stops for resources" ELSE "records resources",
                                    !.restarts = changes /\ VmRuns]
    /\ UNCHANGED <<record, network, lastId>>

StopsForResources ==
    /\ At("stops for resources")
    /\ StopVm
    /\ Goes("records resources")
    /\ UNCHANGED <<record, controlled, network, lastId>>

\* Recorded once no VM runs without the change, and before the start.
RecordsResources ==
    /\ At("records resources")
    /\ record' = [record EXCEPT !.resources = pass.request.resources]
    /\ IF pass.restarts THEN Goes("starts with resources")
       ELSE GoesWith("network", [inspect_record EXCEPT !.resources = pass.request.resources])
    /\ UNCHANGED <<runtime, controlled, network, lastId>>

Boots(config) == [id |-> record.id, status |-> "Running", stored |-> config, booted |-> config,
                  controlled |-> controlled']

StartsWithResources ==
    /\ At("starts with resources")
    /\ HasRuntime
    /\ UNCHANGED controlled
    /\ runtime' = Boots(converge_next_start)
    /\ GoesWith("network", [inspect_record EXCEPT !.state = "Running"])
    /\ UNCHANGED <<record, network, lastId>>

-----------------------------------------------------------------------------
(* ensure_running.                                                         *)

\* The network starts before the VM; opening its endpoint prepares the control.
EnsuresNetwork ==
    /\ At("network")
    /\ network' = network \cup {pass.seen.id}
    /\ controlled' = (controlled \/ pass.seen.id \notin network)
    /\ Goes(IF pass.seen.state = "Running" THEN "inspects" ELSE "starts")
    /\ UNCHANGED <<record, runtime, lastId>>

\* start_sandbox: prepare_runtime_network, then the VM, created when there is none.
Starts ==
    /\ At("starts")
    /\ HasRecord
    /\ controlled' = TRUE
    /\ runtime' = CASE VmRuns -> runtime
                    [] HasRuntime /\ ~VmRuns -> Boots(converge_next_start)
                    [] OTHER -> Boots(Recorded)
    /\ Goes("inspects")
    /\ UNCHANGED <<record, network, lastId>>

Inspects ==
    /\ At("inspects")
    /\ HasRecord
    /\ GoesWith("ready", inspect_record)
    /\ UNCHANGED <<record, runtime, controlled, network, lastId>>

Returns ==
    /\ At("ready")
    /\ pass' = Resting
    /\ UNCHANGED <<record, runtime, controlled, network, lastId>>

-----------------------------------------------------------------------------
(* stop, kill and delete.                                                  *)

\* kill ends the VM, and a stop follows.
Kills ==
    /\ At("kills")
    /\ StopVm
    /\ pass' = [pass EXCEPT !.pc = "finds", !.kind = "stop"]
    /\ UNCHANGED <<record, controlled, network, lastId>>

\* stop_runtime: gracefully within ten seconds, else the VM is killed.
Stops ==
    /\ At("stops")
    /\ StopVm
    /\ Goes("stops network")
    /\ UNCHANGED <<record, controlled, network, lastId>>

StopsNetwork ==
    /\ At("stops network")
    /\ network' = network \ {pass.seen.id}
    /\ pass' = IF pass.kind = "delete" THEN [pass EXCEPT !.pc = "deletes network"] ELSE Resting
    /\ UNCHANGED <<record, runtime, controlled, lastId>>

DeletesNetwork ==
    /\ At("deletes network")
    /\ network' = network \ {pass.seen.id}
    /\ Goes("stops again")
    /\ UNCHANGED <<record, runtime, controlled, lastId>>

\* delete_sandbox: stop, remove the runtime, release the image and remove the record last.
StopsAgain ==
    /\ At("stops again")
    /\ HasRecord
    /\ StopVm
    /\ Goes("removes runtime")
    /\ UNCHANGED <<record, controlled, network, lastId>>

RemovesRuntime ==
    /\ At("removes runtime")
    /\ ~VmRuns
    /\ runtime' = NoRuntime
    /\ controlled' = FALSE
    /\ Goes("removes record")
    /\ UNCHANGED <<record, network, lastId>>

RemovesRecord ==
    /\ At("removes record")
    /\ record' = NoRecord
    /\ pass' = Resting
    /\ UNCHANGED <<runtime, controlled, network, lastId>>

BoxNext ==
    \/ \E kind \in Kinds, request \in Requests : Begins(kind, request)
    \/ Finds \/ PassFails \/ ProcessRestarts \/ VmEnds
    \/ CreatesRecord \/ HoldsImage \/ HoldFails
    \/ EnsuresEnvironment \/ StopsForEnvironment \/ StopsNetworkForEnvironment
    \/ ModifiesEnvironment \/ RecordsEnvironment
    \/ ModifiesResources \/ StopsForResources \/ RecordsResources \/ StartsWithResources
    \/ EnsuresNetwork \/ Starts \/ Inspects \/ Returns
    \/ Kills \/ Stops \/ StopsNetwork \/ DeletesNetwork \/ StopsAgain \/ RemovesRuntime \/ RemovesRecord

BoxSpec == BoxInit /\ [][BoxNext]_boxVars

-----------------------------------------------------------------------------
\* The provider implements the backend of sandbox/core: seen through its records, every
\* step of every pass, and every interruption, is one operation of the in-memory Provider.
Backend == INSTANCE SandboxBackend WITH
    box <- IF HasRecord THEN [state |-> inspect_record.state, id |-> record.id,
                              resources |-> record.resources, environment |-> record.environment]
                        ELSE [state |-> "Absent"]

ImplementsBackend == Backend!BackendSpec

\* A VM exists only under its record, so that nothing is left that no name finds: the
\* record is written before the runtime is created and removed after it, whatever is
\* interrupted.
RuntimeHasItsRecord == HasRuntime => record.id = runtime.id

\* A running VM booted with the CPUs its record says, also when an update of them was
\* interrupted after it was persisted for the next start.
RunningBootedItsRecord == VmRuns => runtime.booted.resources.cpu = record.resources.cpu

\* "Makes a stopped runtime boot what its record says, before every start"
\* (converge_next_start): a running VM booted its record's environment, too.
RunningBootedItsEnvironment == VmRuns => runtime.booted.environment = record.environment

\* No VM ever starts without host network control, though that setting lives only in the
\* memory of the process (prepare_runtime_network).
RunningIsControlled == VmRuns => runtime.controlled

\* When ensure returns, the sandbox runs as it was asked to, unless it ended by itself; its
\* network runs.
EnsuredIsAsAsked ==
    At("ready") =>
        /\ [resources |-> pass.seen.resources, environment |-> pass.seen.environment] = Asked
        /\ pass.seen.id \in network

\* No network is left running for a sandbox that was deleted.
NetworkHasItsSandbox == network \subseteq {record.id}

\* A runtime has a record and booted what the record says, under its network, and what ensure
\* returns is what was asked for (core/service.rs, microsandbox/backend.rs).
SandboxIsItsRecord ==
    /\ BoxTypeOK
    /\ RuntimeHasItsRecord
    /\ RunningBootedItsRecord
    /\ RunningIsControlled
    /\ EnsuredIsAsAsked
    /\ NetworkHasItsSandbox

=============================================================================
