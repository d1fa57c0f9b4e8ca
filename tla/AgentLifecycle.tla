--------------------------- MODULE AgentLifecycle ---------------------------
(***************************************************************************)
(* One agent from creation to finalized deletion: the desired state that   *)
(* the Control Plane stores (control_plane/service.rs, persistence/        *)
(* agents.rs), the requests for immediate stops held in memory, the        *)
(* reconciliation pass that carries desired state out                      *)
(* (control_plane/reconciler.rs, sandbox/mod.rs) and the sandbox VM.       *)
(*                                                                         *)
(* The controller runs at most one pass per agent (module Controller), so  *)
(* a pass is one program counter.  A pass gives way at every await: a      *)
(* store command or a Provider call.  Between two awaits it is one step.   *)
(* Control Plane calls take effect at the compare-and-swap of their put; a *)
(* call retried on a conflict is a call made later.  The wakeup and the    *)
(* immediate-stop request that follow a put belong to the same step: the   *)
(* store answers the call before it serves the next read of a pass, and    *)
(* the daemon's single thread runs the tasks in the order they were woken. *)
(***************************************************************************)
EXTENDS Integers

CONSTANTS
    MaxGeneration,   \* bound: desired states stored for the agent
    MaxFaults        \* bound: daemon crashes, VM deaths, failed store commands

ASSUME BoundsAreNatural == MaxGeneration \in Nat /\ MaxFaults \in Nat

VARIABLES
    rec,         \* the agent's row: lifecycle, generation, spec.runState,
                 \* restartTimestamp and status
    stops,       \* ImmediateStops: generation of the requested kill, or None
    vm,          \* the sandbox VM: "absent", "stopped" or "running"
    pc,          \* where the agent's pass is; "idle" when none runs
    snap,        \* the AgentRecord the pass works from
    taken,       \* the immediate stop the pass is carrying out, or None
    failing,     \* the status a failed set up is about to record
    faults,      \* bound counter
    bounced,     \* history: newest restartTimestamp since which the VM was down
    lastStart    \* history: generation of the newest stored start

pass == <<pc, snap, taken, failing>>
vars == <<rec, stops, vm, pc, snap, taken, failing, faults, bounced, lastStart>>

None == 0

(* Reasons of the Ready condition; "" before the reconciler reported one.  *)
FailedReasons == {"ProviderResolutionFailed", "SandboxReconcileFailed",
                  "AccessFailed", "SandboxUnresponsive"}
Reasons == {"", "Stopping", "Stopped", "Starting", "ProviderSelected", "Ready"}
               \cup FailedReasons

Status == [observed : Nat, restart : Nat, reason : Reasons,
           sandbox : {"none", "selected", "materialized"}, failed : BOOLEAN]
Record == [state : {"none", "active", "deleting", "finalized"}, gen : Nat,
           run : {"Running", "Stopped"}, restart : Nat, status : Status]

PassSteps == {"idle", "killForDelete", "release", "finalize",
              "writeStopping", "stop", "stopping", "killing", "stopFailed",
              "writeStopped", "settle", "writeRestarting",
              "resolve", "resolveFailed", "writeSelected", "writeStarting",
              "ensure", "guestSetup", "access", "setupFailed", "writeReady"}

TypeOK ==
    /\ rec \in Record
    /\ stops \in 0..rec.gen
    /\ vm \in {"absent", "stopped", "running"}
    /\ pc \in PassSteps
    /\ snap \in Record
    /\ taken \in Nat
    /\ failing \in Status
    /\ faults \in Nat
    /\ bounced \in Nat
    /\ lastStart \in Nat

NoStatus == [observed |-> 0, restart |-> None, reason |-> "",
             sandbox |-> "none", failed |-> FALSE]
NoRecord == [state |-> "none", gen |-> 0, run |-> "Running", restart |-> None,
             status |-> NoStatus]

Init ==
    /\ rec = NoRecord
    /\ stops = None
    /\ vm = "absent"
    /\ pc = "idle"
    /\ snap = NoRecord
    /\ taken = None
    /\ failing = NoStatus
    /\ faults = 0
    /\ bounced = 0
    /\ lastStart = 0

-----------------------------------------------------------------------------
(* What a status says: manifest.rs and reconciler.rs.                      *)
IsReady(s) == s.reason = "Ready"
IsStopped(s) == s.reason = "Stopped"
RecordedByStop(s) == s.reason \in {"Stopped", "Stopping"}
RestartPending(r) == r.restart # None /\ r.restart # r.status.restart
Current(r) == r.status.observed = r.gen

(* Status::observed and not_ready: a new status for the generation read,   *)
(* keeping the assignment given.                                           *)
Observed(r, reason, sandbox) ==
    [observed |-> r.gen, restart |-> None, reason |-> reason,
     sandbox |-> sandbox, failed |-> FALSE]
NotReady(r, reason) == Observed(r, reason, r.status.sandbox)
Failed(s) == [s EXCEPT !.failed = TRUE]

-----------------------------------------------------------------------------
(* The Control Plane.                                                      *)

(* put: the new generation becomes the row; status is never written by it. *)
Put(r) ==
    /\ rec' = r
    /\ lastStart' = IF r.run = "Running" /\ (rec.run = "Stopped" \/ r.restart # rec.restart)
                    THEN r.gen ELSE lastStart
    /\ bounced' = IF vm # "running" THEN r.restart ELSE bounced
    /\ UNCHANGED <<vm, pass, faults>>

Active == rec.state = "active"
Changed == [rec EXCEPT !.gen = @ + 1]
CanChange == Active /\ rec.gen < MaxGeneration

(* apply of an unknown name creates the agent.                             *)
Create(run) ==
    /\ rec.state = "none"
    /\ Put([rec EXCEPT !.state = "active", !.gen = 1, !.run = run])
    /\ UNCHANGED stops

(* apply of a changed spec, with the run state it asks for.                *)
Apply(run) ==
    /\ CanChange
    /\ Put([Changed EXCEPT !.run = run])
    /\ UNCHANGED stops

(* set_run_state: a new generation only when the run state changes.        *)
SetRunState(run) ==
    /\ CanChange
    /\ rec.run # run
    /\ Put([Changed EXCEPT !.run = run])
    /\ UNCHANGED stops

(* Mutant: the request names the generation after the stored one.          *)
StopNow_NextGeneration ==
    /\ Active
    /\ rec.run = "Stopped"
    /\ stops' = rec.gen + 1
    /\ UNCHANGED <<rec, vm, pass, faults, bounced, lastStart>>

(* stop_now: set_run_state, then the request for its generation.           *)
StopNow ==
    /\ Active
    /\ \/ /\ rec.run = "Running"
          /\ CanChange
          /\ Put([Changed EXCEPT !.run = "Stopped"])
          /\ stops' = rec.gen + 1
       \/ /\ rec.run = "Stopped"
          /\ stops' = rec.gen
          /\ UNCHANGED <<rec, vm, pass, faults, bounced, lastStart>>

(* restart: the run state and a fresh timestamp in one new generation.     *)
Restart(now) ==
    /\ CanChange
    /\ Put([Changed EXCEPT !.run = "Running", !.restart = rec.gen + 1])
    /\ stops' = IF now THEN rec.gen + 1 ELSE stops

(* delete: mark_deleting keeps the generation.                             *)
Delete ==
    /\ Active
    /\ rec' = [rec EXCEPT !.state = "deleting"]
    /\ UNCHANGED <<stops, vm, pass, faults, bounced, lastStart>>

-----------------------------------------------------------------------------
(* The pass.                                                               *)

(* Definitions named X_Mistake are mutants of X: what X would be with a    *)
(* plausible mistake in the code.  No specification uses them.             *)

(* Mutant: every status written while a restart is wanted reports it done. *)
Kept_MarksRestart(s) == [s EXCEPT !.restart = IF @ = None THEN snap.restart ELSE @]

(* Only a stop observes a restart; every other write keeps the observed one. *)
Kept(s) == [s EXCEPT !.restart = IF @ = None THEN snap.status.restart ELSE @]

(* The pass moves on, moves on holding the status it wrote, or ends.       *)
Go(step) == pc' = step /\ UNCHANGED <<snap, taken, failing>>
End == pc' = "idle" /\ snap' = NoRecord /\ taken' = None /\ failing' = NoStatus
GoHolding(step, s) ==
    /\ pc' = step
    /\ snap' = [snap EXCEPT !.status = Kept(s)]
    /\ UNCHANGED <<taken, failing>>
PassOnly == UNCHANGED <<faults, lastStart>>

(* Every VM change: the history variable follows whether the VM was down.  *)
SetVm(state) ==
    /\ vm' = state
    /\ bounced' = IF state # "running" THEN rec.restart ELSE bounced
VmUnchanged == UNCHANGED <<vm, bounced>>

(* Mutant: a status is compared with the held one by its reason alone.     *)
Writes_ReasonOnly(s) ==
    /\ ~(Kept(s).reason # snap.status.reason /\ ~(rec.state = "active" /\ rec.gen = snap.gen))
    /\ rec' = IF Kept(s).reason = snap.status.reason THEN rec
              ELSE [rec EXCEPT !.status = Kept(s)]

(* update_status writes nothing when the status equals the one the pass    *)
(* holds; otherwise it stores it if the row still is what the pass read,   *)
(* and fails with a conflict if it is not.  An observed restart is kept.   *)
Storable == rec.state = "active" /\ rec.gen = snap.gen
Conflicts(s) == Kept(s) # snap.status /\ ~Storable
Writes(s) ==
    /\ ~Conflicts(s)
    /\ rec' = IF Kept(s) = snap.status THEN rec
              ELSE [rec EXCEPT !.status = Kept(s)]

(* The pass ends early: the change that caused the conflict woke another.  *)
EndsOnConflict(s) ==
    /\ Conflicts(s)
    /\ End
    /\ UNCHANGED <<rec, stops>>
    /\ VmUnchanged /\ PassOnly

(* Mutant: an older request for an immediate stop is not forgotten.        *)
Supersede_Never(gen) == UNCHANGED stops

(* Mutant: a start after a stop boots the VM without recording it first.   *)
SetupEntry_NoStarting(r) == IF r.status.sandbox = "none" THEN "resolve" ELSE "ensure"

(* Where set up begins for a running agent, and what of an older immediate *)
(* stop is forgotten on the way (supersede).                               *)
Supersede(gen) == stops' = IF stops # None /\ stops < gen THEN None ELSE stops
SetupEntry(r) ==
    IF r.status.sandbox = "none" THEN "resolve"
    ELSE IF RecordedByStop(r.status) THEN "writeStarting"
    ELSE "ensure"

(* reconcile finds no such agent.                                          *)
PassFindsNothing ==
    /\ pc = "idle"
    /\ rec.state \in {"none", "finalized"}
    /\ UNCHANGED vars

(* reconcile reads the record and decides what the pass is for.            *)
PassReads ==
    /\ pc = "idle"
    /\ rec.state \in {"active", "deleting"}
    /\ snap' = rec
    /\ \/ /\ rec.state = "deleting"
          /\ taken' = stops
          /\ stops' = None
          /\ pc' = IF stops # None THEN "killForDelete" ELSE "release"
       \/ /\ rec.state = "active"
          /\ rec.run = "Stopped" \/ RestartPending(rec)
          /\ pc' = IF Current(rec) /\ RecordedByStop(rec.status) THEN "stop" ELSE "writeStopping"
          /\ UNCHANGED <<taken, stops>>
       \/ /\ rec.state = "active"
          /\ rec.run = "Running" /\ ~RestartPending(rec)
          /\ Supersede(rec.gen)
          /\ pc' = SetupEntry(rec)
          /\ UNCHANGED taken
    /\ UNCHANGED <<rec, failing>> /\ VmUnchanged /\ PassOnly

-----------------------------------------------------------------------------
(* Deletion: an asked-for kill, then release and finalize.                 *)

Down == IF vm = "running" THEN "stopped" ELSE vm

(* Service::stop does nothing for an agent without an assignment.          *)
StopsVm == IF snap.status.sandbox = "none" THEN VmUnchanged ELSE SetVm(Down)

KillForDelete ==
    /\ pc = "killForDelete"
    /\ \/ StopsVm /\ Go("release") /\ UNCHANGED stops
       \/ VmUnchanged /\ End /\ stops' = taken
    /\ UNCHANGED rec /\ PassOnly

(* Mutant: only an assignment recorded as materialized is released.        *)
Release_OnlyMaterialized ==
    /\ pc = "release"
    /\ IF snap.status.sandbox # "materialized" THEN VmUnchanged ELSE SetVm("absent")
    /\ Go("finalize")
    /\ UNCHANGED <<rec, stops>> /\ PassOnly

(* Service::release, then the SSH and VNC state of the agent.              *)
Release ==
    /\ pc = "release"
    /\ \/ /\ IF snap.status.sandbox = "none" THEN VmUnchanged ELSE SetVm("absent")
          /\ Go("finalize")
       \/ VmUnchanged /\ End
    /\ UNCHANGED <<rec, stops>> /\ PassOnly

FinalizeDeletion ==
    /\ pc = "finalize"
    /\ rec' = IF rec.gen = snap.gen /\ rec.state = "deleting"
              THEN [rec EXCEPT !.state = "finalized"] ELSE rec
    /\ End
    /\ UNCHANGED stops /\ VmUnchanged /\ PassOnly

-----------------------------------------------------------------------------
(* Stop: the first half of a stop and of a restart.                        *)

(* Mutant: a conflict does not keep the pass from stopping the VM.         *)
WriteStopping_IgnoresConflict ==
    /\ pc = "writeStopping"
    /\ \/ Writes(NotReady(snap, "Stopping"))
       \/ Conflicts(NotReady(snap, "Stopping")) /\ UNCHANGED rec
    /\ Go("stop")
    /\ UNCHANGED stops /\ VmUnchanged /\ PassOnly

WriteStopping ==
    /\ pc = "writeStopping"
    /\ LET stopping == NotReady(snap, "Stopping")
       IN  \/ EndsOnConflict(stopping)
           \/ /\ Writes(stopping)
              /\ Go("stop")
              /\ UNCHANGED stops /\ VmUnchanged /\ PassOnly

(* A request made before the stop is taken now.                            *)
BeginStop ==
    /\ pc = "stop"
    /\ taken' = stops
    /\ stops' = None
    /\ pc' = IF stops # None THEN "killing" ELSE "stopping"
    /\ UNCHANGED <<rec, snap, failing>> /\ VmUnchanged /\ PassOnly

(* The guest shuts down, or the Provider's stop fails.                     *)
GracefulStop ==
    /\ pc = "stopping"
    /\ \/ StopsVm /\ Go("writeStopped")
       \/ VmUnchanged /\ Go("stopFailed")
    /\ UNCHANGED <<rec, stops>> /\ PassOnly

(* A request made while the guest shuts down cuts the shutdown short.      *)
CutShort ==
    /\ pc = "stopping"
    /\ stops # None
    /\ taken' = stops
    /\ stops' = None
    /\ pc' = "killing"
    /\ UNCHANGED <<rec, snap, failing>> /\ VmUnchanged /\ PassOnly

(* The kill, or its failure, after which the request is made again.        *)
Kill ==
    /\ pc = "killing"
    /\ \/ StopsVm /\ Go("writeStopped") /\ UNCHANGED stops
       \/ VmUnchanged /\ Go("stopFailed") /\ stops' = taken
    /\ UNCHANGED rec /\ PassOnly

RecordStopFailure ==
    /\ pc = "stopFailed"
    /\ LET failed == Failed(NotReady(snap, "Stopping"))
       IN  \/ EndsOnConflict(failed)
           \/ /\ Writes(failed)
              /\ End
              /\ UNCHANGED stops /\ VmUnchanged /\ PassOnly

(* A stop also carries out a restart it won over.  Sessions settle unless  *)
(* the agent already was recorded as stopped.                              *)
WriteStopped ==
    /\ pc = "writeStopped"
    /\ LET restarting == snap.run = "Running"
           stopped == [NotReady(snap, "Stopped") EXCEPT
                          !.restart = IF restarting THEN None ELSE snap.restart]
           alreadyStopped == Current(snap) /\ IsStopped(snap.status)
       IN  \/ EndsOnConflict(stopped)
           \/ /\ Writes(stopped)
              /\ IF restarting \/ ~alreadyStopped THEN GoHolding("settle", stopped) ELSE End
              /\ UNCHANGED stops /\ VmUnchanged /\ PassOnly

(* sessions.settle has returned; a stop ends here, a restart starts.       *)
Settle ==
    /\ pc = "settle"
    /\ IF snap.run = "Running" THEN Go("writeRestarting") ELSE End
    /\ UNCHANGED <<rec, stops>> /\ VmUnchanged /\ PassOnly

(* The restart counts as carried out before the VM boots again.            *)
WriteRestarting ==
    /\ pc = "writeRestarting"
    /\ LET starting == [NotReady(snap, "Starting") EXCEPT !.restart = snap.restart]
       IN  \/ EndsOnConflict(starting)
           \/ /\ Writes(starting)
              /\ Supersede(snap.gen)
              /\ GoHolding(IF snap.status.sandbox = "none" THEN "resolve" ELSE "ensure", starting)
              /\ VmUnchanged /\ PassOnly

-----------------------------------------------------------------------------
(* Start: provider selection, sandbox, guest setup, access, readiness.     *)

Resolve ==
    /\ pc = "resolve"
    /\ Go("writeSelected") \/ Go("resolveFailed")
    /\ UNCHANGED <<rec, stops>> /\ VmUnchanged /\ PassOnly

RecordResolveFailure ==
    /\ pc = "resolveFailed"
    /\ LET failed == Failed(NotReady(snap, "ProviderResolutionFailed"))
       IN  \/ EndsOnConflict(failed)
           \/ /\ Writes(failed)
              /\ End
              /\ UNCHANGED stops /\ VmUnchanged /\ PassOnly

(* Mutant: a conflict does not keep the pass from creating the VM.         *)
WriteSelected_IgnoresConflict ==
    /\ pc = "writeSelected"
    /\ LET selected == Observed(snap, "ProviderSelected", "selected")
       IN  /\ \/ Writes(selected)
              \/ Conflicts(selected) /\ UNCHANGED rec
           /\ GoHolding("ensure", selected)
    /\ UNCHANGED stops /\ VmUnchanged /\ PassOnly

WriteSelected ==
    /\ pc = "writeSelected"
    /\ LET selected == Observed(snap, "ProviderSelected", "selected")
       IN  \/ EndsOnConflict(selected)
           \/ /\ Writes(selected)
              /\ GoHolding("ensure", selected)
              /\ UNCHANGED stops /\ VmUnchanged /\ PassOnly

(* A start after a stop is recorded before the VM boots.                   *)
WriteStarting ==
    /\ pc = "writeStarting"
    /\ LET starting == NotReady(snap, "Starting")
       IN  \/ EndsOnConflict(starting)
           \/ /\ Writes(starting)
              /\ GoHolding("ensure", starting)
              /\ UNCHANGED stops /\ VmUnchanged /\ PassOnly

SetupFails(reason, sandbox) ==
    /\ pc' = "setupFailed"
    /\ UNCHANGED <<snap, taken>>
    /\ failing' = Failed(Observed(snap, reason, sandbox))

(* Provider::ensure creates and boots the VM.  It may fail at any point,   *)
(* also between stopping a VM whose environment changed and booting it.    *)
Ensure ==
    /\ pc = "ensure"
    /\ \/ SetVm("running") /\ Go("guestSetup")
       \/ /\ \E state \in {vm, "stopped", "running"} : SetVm(state)
          /\ SetupFails("SandboxReconcileFailed", snap.status.sandbox)
    /\ UNCHANGED <<rec, stops>> /\ PassOnly

(* The platform adapter sets the guest up, guarded by its heartbeat.       *)
GuestSetup ==
    /\ pc = "guestSetup"
    /\ \/ Go("access")
       \/ \E reason \in {"SandboxReconcileFailed", "SandboxUnresponsive"} :
              SetupFails(reason, snap.status.sandbox)
    /\ UNCHANGED <<rec, stops>> /\ VmUnchanged /\ PassOnly

(* SSH and VNC access, with the assignment materialized from here on.      *)
Access ==
    /\ pc = "access"
    /\ \/ Go("writeReady")
       \/ \E reason \in {"AccessFailed", "SandboxUnresponsive"} :
              SetupFails(reason, "materialized")
    /\ UNCHANGED <<rec, stops>> /\ VmUnchanged /\ PassOnly

RecordSetupFailure ==
    /\ pc = "setupFailed"
    /\ \/ EndsOnConflict(failing)
       \/ /\ Writes(failing)
          /\ End
          /\ UNCHANGED stops /\ VmUnchanged /\ PassOnly

WriteReady ==
    /\ pc = "writeReady"
    /\ LET ready == Observed(snap, "Ready", "materialized")
       IN  \/ EndsOnConflict(ready)
           \/ /\ Writes(ready)
              /\ End
              /\ UNCHANGED stops /\ VmUnchanged /\ PassOnly

(* An immediate stop asked for during set_up abandons it: the request is   *)
(* taken and made again for the pass that follows.  Dropping a pass in the *)
(* middle of ensure leaves the VM wherever it was.                         *)
SetupSteps == {"ensure", "guestSetup", "access", "setupFailed", "writeReady"}
AbandonSetup ==
    /\ pc \in SetupSteps
    /\ stops # None
    /\ End
    /\ IF pc = "ensure" THEN \E state \in {vm, "stopped", "running"} : SetVm(state)
       ELSE VmUnchanged
    /\ UNCHANGED <<rec, stops>> /\ PassOnly

-----------------------------------------------------------------------------
(* Faults.                                                                 *)

Fault == faults < MaxFaults /\ faults' = faults + 1

WriteSteps == {"writeStopping", "stopFailed", "writeStopped", "writeRestarting",
               "resolveFailed", "writeSelected", "writeStarting", "setupFailed",
               "writeReady", "finalize"}

(* A store command fails; the pass returns the error.                      *)
StoreFails ==
    /\ Fault
    /\ pc \in WriteSteps
    /\ End
    /\ UNCHANGED <<rec, stops, lastStart>> /\ VmUnchanged

(* The daemon crashes and starts again: the pass and the requests for      *)
(* immediate stops are gone, the VM runs on.                               *)
DaemonCrashes ==
    /\ Fault
    /\ End
    /\ stops' = None
    /\ UNCHANGED <<rec, lastStart>> /\ VmUnchanged

(* The guest powers itself off or its VM process dies.                     *)
VmDies ==
    /\ Fault
    /\ vm = "running"
    /\ SetVm("stopped")
    /\ UNCHANGED <<rec, stops, pass, lastStart>>

-----------------------------------------------------------------------------
ControlPlane ==
    \/ \E run \in {"Running", "Stopped"} : Create(run) \/ Apply(run) \/ SetRunState(run)
    \/ StopNow
    \/ \E now \in BOOLEAN : Restart(now)
    \/ Delete

PassStep ==
    \/ PassReads
    \/ KillForDelete \/ Release \/ FinalizeDeletion
    \/ WriteStopping \/ BeginStop \/ GracefulStop \/ Kill \/ RecordStopFailure
    \/ WriteStopped \/ Settle \/ WriteRestarting
    \/ Resolve \/ RecordResolveFailure \/ WriteSelected \/ WriteStarting
    \/ Ensure \/ GuestSetup \/ Access \/ RecordSetupFailure \/ WriteReady

Next ==
    \/ ControlPlane
    \/ PassStep
    \/ CutShort
    \/ AbandonSetup
    \/ PassFindsNothing
    \/ StoreFails
    \/ DaemonCrashes
    \/ VmDies

Spec == Init /\ [][Next]_vars

(***************************************************************************)
(* Fairness.  The controller runs passes for ever (its repair scan) and    *)
(* every await ends; a request made during a select is noticed.  Provider  *)
(* calls and guest set up may fail again and again, but not for ever:      *)
(* after some time none of them fails.  Nothing is assumed of the Control  *)
(* Plane, of crashes or of when they happen.                               *)
(***************************************************************************)
CallFails ==
    /\ faults' = faults
    /\ \/ pc' \in {"stopFailed", "resolveFailed", "setupFailed"}
       \/ pc \in {"killForDelete", "release"} /\ pc' = "idle"
Fairness ==
    /\ WF_vars(PassStep)
    /\ WF_vars(AbandonSetup)
    /\ <>[][~CallFails]_vars

FairSpec == Spec /\ Fairness

-----------------------------------------------------------------------------
(* A status that says Stopped is true: the VM is down, whatever pass, stop *)
(* or crash came before.  Sessions rely on it, and a start records         *)
(* Starting before it boots the VM.                                        *)
StoppedMeansDown == IsStopped(rec.status) => vm # "running"

(* "Not Ready before the VM goes away, so sessions are told and go Idle    *)
(* first" (Reconciler::stop): while a stop or a restart takes the VM down, *)
(* the stored status already says so.                                      *)
NotReadyBeforeVmGoesAway ==
    pc \in {"stop", "stopping", "killing", "writeStopped"} => RecordedByStop(rec.status)

(* A VM is only ever created for an agent whose row names its Provider, so *)
(* that deletion finds it.                                                 *)
VmIsAssigned == vm # "absent" => rec.status.sandbox # "none"

(* A finalized deletion leaves no VM behind and no request for a stop that *)
(* nobody will take.                                                       *)
ReleasedLeavesNothing ==
    rec.state = "finalized" => vm = "absent" /\ stops = None

(* A restart that the status reports as carried out took the VM down after *)
(* it was asked for.                                                       *)
RestartTookVmDown == rec.status.restart <= bounced

(* update_status skips a write that equals the status the pass holds.      *)
(* That never leaves another status in the store: a pass that ends well    *)
(* leaves the row saying what the pass found, for the generation it read.  *)
PassEndIsStored ==
    [][Storable /\ faults' = faults /\ stops' = stops =>
        /\ pc = "writeReady" /\ pc' = "idle" /\ stops = None =>
              IsReady(rec'.status) /\ Current(rec')
        /\ pc = "writeStopped" /\ pc' # pc => IsStopped(rec'.status) /\ Current(rec')
        /\ pc = "stopFailed" /\ pc' # pc =>
              rec'.status.reason = "Stopping" /\ rec'.status.failed /\ Current(rec')]_vars

(* "A start stored after an immediate stop that no pass carried out        *)
(* supersedes it, so a later stop is graceful" (Reconciler::reconcile): no *)
(* running VM is killed for a request older than a start that the stop of  *)
(* the pass was stored after.                                               *)
LaterStopIsGraceful ==
    [][pc # "killing" /\ pc' = "killing" /\ vm = "running" =>
        ~(taken' < lastStart /\ lastStart < snap.gen)]_vars

(* Whatever sequence of stops, starts, restarts, kills, failures and       *)
(* crashes came before, the agent reaches the state last asked for: Ready  *)
(* for the current generation with no restart left to do, or stopped, or   *)
(* released.                                                               *)
Converged ==
    \/ rec.state \in {"none", "finalized"}
    \/ /\ Active
       /\ Current(rec)
       /\ IF rec.run = "Running" THEN IsReady(rec.status) /\ ~RestartPending(rec)
          ELSE IsStopped(rec.status)
AlwaysConverges == []<>Converged

(* A request for an immediate stop does not stay: it is carried out or     *)
(* superseded, and never keeps abandoning set ups.                         *)
ImmediateStopIsSettled == (stops # None) ~> (stops = None)

(* What the store says of an agent is true of its VM, whatever pass, stop, *)
(* failed call or crash came before: Stopped is down, going down is not    *)
(* Ready, a VM has an owner, a released agent has none, and a restart that *)
(* is reported took place.                                                 *)
AgentIsSafe ==
    /\ TypeOK /\ StoppedMeansDown /\ NotReadyBeforeVmGoesAway
    /\ VmIsAssigned /\ ReleasedLeavesNothing /\ RestartTookVmDown

(* A pass that ends well leaves its result in the store, the agent reaches *)
(* the state last asked for, and a request for an immediate stop is        *)
(* settled.                                                                *)
AgentSettles == PassEndIsStored /\ AlwaysConverges /\ ImmediateStopIsSettled
=============================================================================
