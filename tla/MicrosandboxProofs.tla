------------------------- MODULE MicrosandboxProofs -------------------------
(***************************************************************************)
(* Proofs about Microsandbox, for any resources, environments, images and  *)
(* number of sandboxes under the name, and that it implements the backend  *)
(* of sandbox/core as SandboxBackend states it.                            *)
(*                                                                         *)
(* The inductive invariant says what a pass may rely on between two of its *)
(* steps although the VM may end at any time: nobody else writes the       *)
(* record, and nobody else starts a VM.                                    *)
(*                                                                         *)
(* And about NetworkDriver, for any agents' policies, flows and operations:*)
(* what the runtime carries is always known to the driver, and a pass that *)
(* says the network is prepared leaves no driver with older bindings.      *)
(*                                                                         *)
(* And about GuestExecutions, for any callers, output and sandboxes: the   *)
(* events under way are always the start, the output the caller has yet to *)
(* get, and the end, in this order.                                        *)
(***************************************************************************)
EXTENDS Microsandbox, NetworkDriver, GuestExecutions, FiniteSetTheorems, SequenceTheorems, TLAPS

Snapshots == [id : 1..MaxIds, state : {"Running", "Stopped"},
              resources : BoxResources, environment : Environments]
PCs == {"rests", "finds"} \cup EnsurePCs \cup ReleasePCs
Passes == [pc : PCs \ {"rests"}, kind : Kinds, request : Requests, seen : Snapshots \cup {NoSnapshot},
           restarts : BOOLEAN]

(* What a pass looks like while it works on a sandbox that it found.       *)
Working == (EnsurePCs \ {"creates", "holds"}) \cup ReleasePCs

PassTypeOK ==
    /\ pass \in Passes \cup {Resting}
    /\ pass.pc \in Working => pass.seen \in Snapshots

(* The sandbox that a pass works on is the one of the record.              *)
RecordIsThePass ==
    /\ pass.pc = "creates" => ~HasRecord
    /\ pass.pc = "holds" => HasRecord /\ ~HasRuntime /\ network = {}
    /\ pass.pc \in Working => HasRecord /\ pass.seen.id = record.id
    /\ pass.pc = "removes record" => ~HasRuntime
    /\ pass.pc \in {"stops again", "removes runtime", "removes record"} => network = {}

(* What ensure has seen to be so, or made so, by each step.                *)
EnsuredSoFar ==
    /\ pass.pc \in {"environment", "stops for environment", "stops network for environment",
                    "modifies environment", "records environment", "resources"} =>
          pass.seen.resources = record.resources
    /\ pass.pc = "environment" => pass.seen.environment = record.environment
    /\ pass.pc = "records environment" => ~VmRuns
    /\ pass.pc \in {"holds", "resources", "stops for resources", "records resources", "starts with resources",
                    "network", "starts", "inspects"} => record.environment = pass.request.environment
    /\ pass.pc \in {"holds", "starts with resources", "network", "starts", "inspects"} =>
          record.resources = pass.request.resources
    /\ pass.pc \in {"starts", "inspects"} => pass.seen.id \in network

(* An update of the resources is recorded once no VM runs without it, and  *)
(* the VM is only started again under the network's control.               *)
UpdateIsPrepared ==
    /\ pass.pc = "records resources" /\ VmRuns => runtime.booted.resources.cpu = pass.request.resources.cpu
    /\ pass.pc = "stops for resources" => pass.restarts
    /\ pass.pc = "starts with resources" => controlled
    /\ pass.pc \in {"stops for resources", "records resources"} /\ pass.restarts => controlled

(* What holds of the sandbox whatever the pass does.                       *)
Machine ==
    /\ record \in Records \cup {NoRecord}
    /\ runtime \in Runtimes \cup {NoRuntime}
    /\ controlled \in BOOLEAN
    /\ network \subseteq 1..MaxIds
    /\ lastId \in 0..MaxIds
    /\ RuntimeHasItsRecord
    /\ RunningBootedItsRecord
    /\ RunningIsControlled
    /\ NetworkHasItsSandbox

(* What holds between the pass and the sandbox.                            *)
PassIsRight == PassTypeOK /\ RecordIsThePass /\ EnsuredSoFar /\ UpdateIsPrepared /\ EnsuredIsAsAsked

IInv == Machine /\ PassIsRight

-----------------------------------------------------------------------------
(* Records, runtimes and passes.                                           *)

LEMMA RecordExists ==
    ASSUME record \in Records \cup {NoRecord}
    PROVE  HasRecord <=> record \in Records
BY DEF HasRecord, Records, NoRecord

LEMMA RuntimeExists ==
    ASSUME runtime \in Runtimes \cup {NoRuntime}
    PROVE  /\ HasRuntime <=> runtime \in Runtimes
           /\ VmRuns => HasRuntime
           /\ runtime.status \in {"Running", "Stopped"}
BY DEF HasRuntime, Runtimes, NoRuntime, VmRuns

LEMMA InspectedIsSnapshot ==
    ASSUME record \in Records
    PROVE  /\ inspect_record \in Snapshots
           /\ inspect_record.id = record.id /\ inspect_record.resources = record.resources
           /\ inspect_record.environment = record.environment
           /\ inspect_record.state = "Running" <=> VmRuns
BY RecordExists DEF inspect_record, Records, Snapshots

(* A VM that stops keeps what its runtime stores.                          *)
LEMMA StoppedRuntime ==
    ASSUME runtime \in Runtimes \cup {NoRuntime}, StopVm
    PROVE  /\ runtime' \in Runtimes \cup {NoRuntime}
           /\ runtime'.status = "Stopped" /\ runtime'.id = runtime.id
<1>1. CASE runtime \in Runtimes
    BY <1>1 DEF StopVm, VmRuns, Runtimes
<1>2. CASE runtime = NoRuntime
    BY <1>2 DEF StopVm, VmRuns, NoRuntime
<1> QED
    BY <1>1, <1>2

(* A step goes on with the pass as it was.                                 *)
LEMMA PassGoes ==
    ASSUME pass \in Passes, NEW pc \in PCs \ {"rests"}, Goes(pc)
    PROVE  /\ pass' \in Passes /\ pass'.pc = pc
           /\ pass'.seen = pass.seen /\ pass'.request = pass.request /\ pass'.restarts = pass.restarts
BY DEF Goes, Passes

(* A step goes on with the sandbox that the operation returned.            *)
LEMMA PassGoesWith ==
    ASSUME pass \in Passes, NEW pc \in PCs \ {"rests"}, NEW seen \in Snapshots,
           pass' = [pass EXCEPT !.pc = pc, !.seen = seen]
    PROVE  /\ pass' \in Passes /\ pass'.pc = pc
           /\ pass'.seen = seen /\ pass'.request = pass.request /\ pass'.restarts = pass.restarts
BY DEF Passes

LEMMA RequestFields ==
    ASSUME pass \in Passes
    PROVE  /\ pass.request.resources \in BoxResources /\ pass.request.environment \in Environments
           /\ pass.request.image \in Images
BY DEF Passes, Requests

LEMMA RestIsNoPass == Resting.pc = "rests" /\ Resting \notin Passes
BY DEF Resting, Passes, PCs

(* A pass that rests asks nothing of the sandbox.                          *)
LEMMA RestIsRight == pass' = Resting => PassIsRight'
BY DEF Resting, PassIsRight, PassTypeOK, RecordIsThePass, EnsuredSoFar, UpdateIsPrepared, EnsuredIsAsAsked,
    Working, EnsurePCs, ReleasePCs, At

LEMMA MachineRests ==
    ASSUME Machine, UNCHANGED <<record, runtime, controlled, network, lastId>>
    PROVE  Machine'
BY DEF Machine, RuntimeHasItsRecord, RunningBootedItsRecord, RunningIsControlled, NetworkHasItsSandbox,
    HasRuntime, VmRuns

(* Every VM that stops leaves the sandbox as it should be.                 *)
LEMMA MachineStops ==
    ASSUME Machine, runtime' \in Runtimes \cup {NoRuntime}, runtime'.status = "Stopped", runtime'.id = runtime.id,
           UNCHANGED <<record, controlled, network, lastId>>
    PROVE  Machine'
BY DEF Machine, RuntimeHasItsRecord, RunningBootedItsRecord, RunningIsControlled, NetworkHasItsSandbox,
    HasRuntime, VmRuns

-----------------------------------------------------------------------------
(* Interruptions.                                                          *)

LEMMA InterruptionKeeps ==
    ASSUME IInv, PassFails \/ ProcessRestarts \/ VmEnds \/ Returns
    PROVE  IInv'
<1>1. Machine /\ PassIsRight
    BY DEF IInv
<1>2. CASE PassFails \/ Returns
    BY <1>1, <1>2, MachineRests, RestIsRight DEF PassFails, Returns, IInv
<1>3. CASE ProcessRestarts
  <2>1. Machine'
    BY <1>1, <1>3 DEF ProcessRestarts, Machine, RuntimeHasItsRecord, RunningBootedItsRecord, RunningIsControlled,
        NetworkHasItsSandbox, HasRuntime, VmRuns
  <2> QED
    BY <1>3, <2>1, RestIsRight DEF ProcessRestarts, IInv
<1>4. CASE VmEnds
  <2>1. runtime' \in Runtimes \cup {NoRuntime} /\ runtime'.status = "Stopped" /\ runtime'.id = runtime.id
    BY <1>1, <1>4, StoppedRuntime DEF VmEnds, StopVm, Machine
  <2>2. Machine'
    BY <1>1, <1>4, <2>1, MachineStops DEF VmEnds
  <2>3. PassIsRight'
    BY ZenonT(60), <1>1, <1>4, <2>1 DEF VmEnds, PassIsRight, PassTypeOK, RecordIsThePass, EnsuredSoFar, UpdateIsPrepared,
        EnsuredIsAsAsked, HasRecord, HasRuntime, VmRuns, At, Asked
  <2> QED
    BY <2>2, <2>3 DEF IInv
<1> QED
    BY <1>2, <1>3, <1>4

-----------------------------------------------------------------------------
(* Steps that only look.                                                   *)

LEMMA UnderWay ==
    ASSUME PassIsRight, pass.pc # "rests"
    PROVE  pass \in Passes
BY RestIsNoPass DEF PassIsRight, PassTypeOK

LEMMA BeginsKeeps ==
    ASSUME IInv, NEW kind \in Kinds, NEW request \in Requests, Begins(kind, request)
    PROVE  IInv'
<1>1. Machine'
    BY MachineRests DEF IInv, Begins
<1>2. pass'.pc = "finds" /\ pass' \in Passes
    BY DEF Begins, Passes, PCs
<1>3. PassIsRight'
    BY <1>2 DEF PassIsRight, PassTypeOK, RecordIsThePass, EnsuredSoFar, UpdateIsPrepared, EnsuredIsAsAsked,
        Working, EnsurePCs, ReleasePCs, At
<1> QED
    BY <1>1, <1>3 DEF IInv

LEMMA FindsKeeps ==
    ASSUME IInv, Finds
    PROVE  IInv'
<1>1. Machine /\ PassIsRight /\ pass.pc = "finds" /\ UNCHANGED <<record, runtime, controlled, network, lastId>>
    BY DEF IInv, Finds, At
<1>2. Machine'
    BY <1>1, MachineRests
<1>3. pass \in Passes
    BY <1>1, UnderWay
<1>4. PassIsRight'
  <2>1. CASE pass' = Resting
    BY <2>1, RestIsRight
  <2>2. CASE pass' = [pass EXCEPT !.pc = "creates"] /\ ~HasRecord
    <3>1. pass' \in Passes /\ pass'.pc = "creates"
        BY <1>3, <2>2, PassGoes DEF Goes, PCs, EnsurePCs
    <3> QED
        BY <1>1, <2>2, <3>1 DEF PassIsRight, PassTypeOK, RecordIsThePass, EnsuredSoFar, UpdateIsPrepared,
            EnsuredIsAsAsked, Working, EnsurePCs, ReleasePCs, At, HasRecord
  <2>3. CASE HasRecord /\ \E pc \in {"environment", "kills", "stops", "stops network"} :
                pass' = [pass EXCEPT !.pc = pc, !.seen = inspect_record]
    <3>1. PICK pc \in {"environment", "kills", "stops", "stops network"} :
                pass' = [pass EXCEPT !.pc = pc, !.seen = inspect_record]
        BY <2>3
    <3>2. record \in Records
        BY <1>1, <2>3, RecordExists DEF Machine
    <3>3. pass' \in Passes /\ pass'.pc = pc /\ pass'.seen = inspect_record
        BY <1>3, <3>1, <3>2, InspectedIsSnapshot, PassGoesWith DEF PCs, EnsurePCs, ReleasePCs
    <3> QED
        BY <1>1, <2>3, <3>2, <3>3, InspectedIsSnapshot DEF PassIsRight, PassTypeOK, RecordIsThePass, EnsuredSoFar,
            UpdateIsPrepared, EnsuredIsAsAsked, Working, EnsurePCs, ReleasePCs, At, HasRecord
  <2> QED
    BY <2>1, <2>2, <2>3 DEF Finds
<1> QED
    BY <1>2, <1>4 DEF IInv

LEMMA HoldsImageKeeps ==
    ASSUME IInv, HoldsImage
    PROVE  IInv'
<1>1. Machine /\ PassIsRight /\ pass.pc = "holds" /\ UNCHANGED <<record, runtime, controlled, network, lastId>>
    BY DEF IInv, HoldsImage, At
<1>2. pass \in Passes
    BY <1>1, UnderWay
<1>3. /\ HasRecord
      /\ record.environment = pass.request.environment /\ record.resources = pass.request.resources
    BY <1>1 DEF PassIsRight, RecordIsThePass, EnsuredSoFar
<1>4. record \in Records
    BY <1>1, <1>3, RecordExists DEF Machine
<1>5. /\ pass' \in Passes /\ pass'.pc = "network"
      /\ pass'.seen = inspect_record /\ pass'.request = pass.request
    BY <1>2, <1>4, InspectedIsSnapshot, PassGoesWith DEF HoldsImage, GoesWith, PCs, EnsurePCs
<1>6. PassIsRight'
    BY <1>1, <1>3, <1>4, <1>5, InspectedIsSnapshot DEF PassIsRight, PassTypeOK, RecordIsThePass, EnsuredSoFar,
        UpdateIsPrepared, EnsuredIsAsAsked, Working, EnsurePCs, ReleasePCs, At, HasRecord
<1> QED
    BY <1>1, <1>6, MachineRests DEF IInv

LEMMA EnsuresEnvironmentKeeps ==
    ASSUME IInv, EnsuresEnvironment
    PROVE  IInv'
<1>1. /\ Machine /\ PassIsRight /\ pass.pc = "environment"
      /\ UNCHANGED <<record, runtime, controlled, network, lastId>>
    BY DEF IInv, EnsuresEnvironment, At
<1>2. pass \in Passes
    BY <1>1, UnderWay
<1>3. /\ HasRecord /\ pass.seen \in Snapshots /\ pass.seen.id = record.id
      /\ pass.seen.environment = record.environment /\ pass.seen.resources = record.resources
    BY <1>1 DEF PassIsRight, PassTypeOK, RecordIsThePass, EnsuredSoFar, Working, EnsurePCs
<1>4. \E pc \in {"resources", "stops for environment", "modifies environment"} :
          Goes(pc) /\ (pc = "resources" => pass.seen.environment = pass.request.environment)
    BY DEF EnsuresEnvironment
<1>5. PICK pc \in {"resources", "stops for environment", "modifies environment"} :
          Goes(pc) /\ (pc = "resources" => pass.seen.environment = pass.request.environment)
    BY <1>4
<1>6. pass' \in Passes /\ pass'.pc = pc /\ pass'.seen = pass.seen /\ pass'.request = pass.request
    BY <1>2, <1>5, PassGoes DEF PCs, EnsurePCs
<1>7. PassIsRight'
    BY <1>1, <1>3, <1>5, <1>6 DEF PassIsRight, PassTypeOK, RecordIsThePass, EnsuredSoFar,
        UpdateIsPrepared, EnsuredIsAsAsked, Working, EnsurePCs, ReleasePCs, At, HasRecord
<1> QED
    BY <1>1, <1>7, MachineRests DEF IInv

LEMMA InspectsKeeps ==
    ASSUME IInv, Inspects
    PROVE  IInv'
<1>1. Machine /\ PassIsRight /\ pass.pc = "inspects" /\ UNCHANGED <<record, runtime, controlled, network, lastId>>
    BY DEF IInv, Inspects, At
<1>2. pass \in Passes
    BY <1>1, UnderWay
<1>3. /\ HasRecord /\ pass.seen.id = record.id /\ pass.seen.id \in network
      /\ record.environment = pass.request.environment /\ record.resources = pass.request.resources
    BY <1>1 DEF PassIsRight, RecordIsThePass, EnsuredSoFar, Working, EnsurePCs
<1>4. record \in Records
    BY <1>1, <1>3, RecordExists DEF Machine
<1>5. /\ pass' \in Passes /\ pass'.pc = "ready"
      /\ pass'.seen = inspect_record /\ pass'.request = pass.request
    BY <1>2, <1>4, InspectedIsSnapshot, PassGoesWith DEF Inspects, GoesWith, PCs, EnsurePCs
<1>6. PassIsRight'
    BY <1>1, <1>3, <1>4, <1>5, InspectedIsSnapshot DEF PassIsRight, PassTypeOK, RecordIsThePass, EnsuredSoFar,
        UpdateIsPrepared, EnsuredIsAsAsked, Working, EnsurePCs, ReleasePCs, At, HasRecord, Asked
<1> QED
    BY <1>1, <1>6, MachineRests DEF IInv

-----------------------------------------------------------------------------
(* ensure: a sandbox that does not exist, and the environment.             *)

(* Without a record there is no VM and no network.                         *)
LEMMA NothingIsLeft ==
    ASSUME Machine, ~HasRecord
    PROVE  record = NoRecord /\ runtime = NoRuntime /\ network = {}
<1>1. record = NoRecord
    BY RecordExists DEF Machine, HasRecord, Records
<1>2. ~HasRuntime
    BY <1>1 DEF Machine, RuntimeHasItsRecord, HasRuntime, NoRecord
<1>3. runtime = NoRuntime
    BY <1>2, RuntimeExists DEF Machine
<1>4. network = {}
    BY <1>1 DEF Machine, NetworkHasItsSandbox, NoRecord
<1> QED
    BY <1>1, <1>3, <1>4

LEMMA CreatesRecordKeeps ==
    ASSUME IInv, CreatesRecord
    PROVE  IInv'
<1>1. Machine /\ PassIsRight /\ pass.pc = "creates"
    BY DEF IInv, CreatesRecord, At
<1>2. pass \in Passes
    BY <1>1, UnderWay
<1>3. ~HasRecord
    BY <1>1 DEF PassIsRight, RecordIsThePass
<1>4. record = NoRecord /\ runtime = NoRuntime /\ network = {}
    BY <1>1, <1>3, NothingIsLeft
<1>5. lastId' \in 1..MaxIds
    BY <1>1, MicrosandboxConstants DEF CreatesRecord, Machine
<1>6. /\ record' \in Records /\ record'.id = lastId'
      /\ record'.resources = pass.request.resources /\ record'.environment = pass.request.environment
    BY <1>2, <1>5, RequestFields DEF CreatesRecord, Records
<1>7. Machine'
    BY <1>1, <1>4, <1>5, <1>6 DEF CreatesRecord, Machine, RuntimeHasItsRecord, RunningBootedItsRecord,
        RunningIsControlled, NetworkHasItsSandbox, HasRuntime, VmRuns, NoRuntime
<1>8. pass' \in Passes /\ pass'.pc = "holds" /\ pass'.request = pass.request
    BY <1>2, PassGoes DEF CreatesRecord, PCs, EnsurePCs
<1>9. PassIsRight'
    BY <1>4, <1>5, <1>6, <1>8 DEF CreatesRecord, PassIsRight, PassTypeOK, RecordIsThePass, EnsuredSoFar,
        UpdateIsPrepared, EnsuredIsAsAsked, Working, EnsurePCs, ReleasePCs, At, HasRecord, HasRuntime, NoRuntime
<1> QED
    BY <1>7, <1>9 DEF IInv

(* The record goes when neither a VM nor a network is left.                *)
LEMMA RecordGoes ==
    ASSUME Machine, ~HasRuntime, network = {}, record' = NoRecord,
           UNCHANGED <<runtime, controlled, network, lastId>>
    PROVE  Machine'
<1>1. runtime = NoRuntime
    BY RuntimeExists DEF Machine
<1> QED
    BY <1>1 DEF Machine, RuntimeHasItsRecord, RunningBootedItsRecord, RunningIsControlled, NetworkHasItsSandbox,
        HasRuntime, VmRuns, NoRuntime

LEMMA RecordGoesKeeps ==
    ASSUME IInv, HoldFails \/ RemovesRecord
    PROVE  IInv'
<1>1. /\ Machine /\ PassIsRight /\ pass.pc \in {"holds", "removes record"}
      /\ pass' = Resting /\ record' = NoRecord /\ UNCHANGED <<runtime, controlled, network, lastId>>
    BY DEF IInv, HoldFails, RemovesRecord, At
<1>2. ~HasRuntime /\ network = {}
    BY <1>1 DEF PassIsRight, RecordIsThePass
<1> QED
    BY <1>1, <1>2, RecordGoes, RestIsRight DEF IInv

(* The VM stops, or has ended by itself, and the pass goes on.             *)
LEMMA StopsKeeps ==
    ASSUME IInv, StopsForEnvironment \/ StopsForResources \/ Stops \/ StopsAgain
    PROVE  IInv'
<1>1. /\ Machine /\ PassIsRight /\ StopVm /\ UNCHANGED <<record, controlled, network, lastId>>
      /\ \/ pass.pc = "stops for environment" /\ Goes("stops network for environment")
         \/ pass.pc = "stops for resources" /\ Goes("records resources")
         \/ pass.pc = "stops" /\ Goes("stops network")
         \/ pass.pc = "stops again" /\ Goes("removes runtime")
    BY DEF IInv, StopsForEnvironment, StopsForResources, Stops, StopsAgain, At
<1>2. pass \in Passes
    BY <1>1, UnderWay
<1>3. runtime' \in Runtimes \cup {NoRuntime} /\ runtime'.status = "Stopped" /\ runtime'.id = runtime.id
    BY <1>1, StoppedRuntime DEF Machine
<1>4. /\ pass' \in Passes /\ pass'.seen = pass.seen /\ pass'.request = pass.request /\ pass'.restarts = pass.restarts
      /\ \/ pass.pc = "stops for environment" /\ pass'.pc = "stops network for environment"
         \/ pass.pc = "stops for resources" /\ pass'.pc = "records resources"
         \/ pass.pc = "stops" /\ pass'.pc = "stops network"
         \/ pass.pc = "stops again" /\ pass'.pc = "removes runtime"
    BY <1>1, <1>2, PassGoes DEF PCs, EnsurePCs, ReleasePCs
<1>5. PassIsRight'
    BY <1>1, <1>3, <1>4 DEF PassIsRight, PassTypeOK, RecordIsThePass, EnsuredSoFar, UpdateIsPrepared,
        EnsuredIsAsAsked, Working, EnsurePCs, ReleasePCs, At, HasRecord, HasRuntime, VmRuns
<1> QED
    BY <1>1, <1>3, <1>5, MachineStops DEF IInv

LEMMA KillsKeeps ==
    ASSUME IInv, Kills
    PROVE  IInv'
<1>1. /\ Machine /\ PassIsRight /\ StopVm /\ UNCHANGED <<record, controlled, network, lastId>>
      /\ pass.pc = "kills" /\ pass' = [pass EXCEPT !.pc = "finds", !.kind = "stop"]
    BY DEF IInv, Kills, At
<1>2. pass \in Passes
    BY <1>1, UnderWay
<1>3. runtime' \in Runtimes \cup {NoRuntime} /\ runtime'.status = "Stopped" /\ runtime'.id = runtime.id
    BY <1>1, StoppedRuntime DEF Machine
<1>4. pass' \in Passes /\ pass'.pc = "finds"
    BY <1>1, <1>2 DEF Passes, PCs, Kinds
<1>5. PassIsRight'
    BY <1>4 DEF PassIsRight, PassTypeOK, RecordIsThePass, EnsuredSoFar, UpdateIsPrepared,
        EnsuredIsAsAsked, Working, EnsurePCs, ReleasePCs, At
<1> QED
    BY <1>1, <1>3, <1>5, MachineStops DEF IInv

LEMMA MachineStopsNetwork ==
    ASSUME Machine, NEW id, network' = network \ {id}, UNCHANGED <<record, runtime, controlled, lastId>>
    PROVE  Machine'
BY DEF Machine, RuntimeHasItsRecord, RunningBootedItsRecord, RunningIsControlled, NetworkHasItsSandbox,
    HasRuntime, VmRuns

LEMMA StopsNetworkKeeps ==
    ASSUME IInv, StopsNetworkForEnvironment \/ StopsNetwork \/ DeletesNetwork
    PROVE  IInv'
<1>1. /\ Machine /\ PassIsRight /\ network' = network \ {pass.seen.id}
      /\ UNCHANGED <<record, runtime, controlled, lastId>>
      /\ pass.pc \in {"stops network for environment", "stops network", "deletes network"}
    BY DEF IInv, StopsNetworkForEnvironment, StopsNetwork, DeletesNetwork, At
<1>2. Machine'
    BY <1>1, MachineStopsNetwork
<1>3. pass \in Passes
    BY <1>1, UnderWay
<1>4. HasRecord /\ pass.seen \in Snapshots /\ pass.seen.id = record.id
    BY <1>1 DEF PassIsRight, PassTypeOK, RecordIsThePass, Working, EnsurePCs, ReleasePCs
<1>5. network' = {}
    BY <1>1, <1>4 DEF Machine, NetworkHasItsSandbox
<1>6. PassIsRight'
  <2>1. CASE pass' = Resting
    BY <2>1, RestIsRight
  <2>2. CASE \/ pass.pc = "stops network for environment" /\ Goes("modifies environment")
             \/ pass.pc = "stops network" /\ Goes("deletes network")
             \/ pass.pc = "deletes network" /\ Goes("stops again")
    <3>1. /\ pass' \in Passes /\ pass'.seen = pass.seen /\ pass'.request = pass.request
          /\ \/ pass.pc = "stops network for environment" /\ pass'.pc = "modifies environment"
             \/ pass.pc = "stops network" /\ pass'.pc = "deletes network"
             \/ pass.pc = "deletes network" /\ pass'.pc = "stops again"
        BY <1>3, <2>2, PassGoes DEF PCs, EnsurePCs, ReleasePCs
    <3> QED
        BY <1>1, <1>4, <1>5, <3>1 DEF PassIsRight, PassTypeOK, RecordIsThePass, EnsuredSoFar, UpdateIsPrepared,
            EnsuredIsAsAsked, Working, EnsurePCs, ReleasePCs, At, HasRecord
  <2> QED
    BY <1>1, <2>1, <2>2 DEF StopsNetworkForEnvironment, StopsNetwork, DeletesNetwork, At, Goes
<1> QED
    BY <1>2, <1>6 DEF IInv

LEMMA RemovesRuntimeKeeps ==
    ASSUME IInv, RemovesRuntime
    PROVE  IInv'
<1>1. /\ Machine /\ PassIsRight /\ pass.pc = "removes runtime"
      /\ runtime' = NoRuntime /\ controlled' = FALSE /\ UNCHANGED <<record, network, lastId>>
    BY DEF IInv, RemovesRuntime, At
<1>2. pass \in Passes
    BY <1>1, UnderWay
<1>3. Machine'
    BY <1>1 DEF Machine, RuntimeHasItsRecord, RunningBootedItsRecord, RunningIsControlled, NetworkHasItsSandbox,
        HasRuntime, VmRuns, NoRuntime
<1>4. pass' \in Passes /\ pass'.pc = "removes record" /\ pass'.seen = pass.seen
    BY <1>2, PassGoes DEF RemovesRuntime, PCs, ReleasePCs
<1>5. PassIsRight'
    BY <1>1, <1>4 DEF PassIsRight, PassTypeOK, RecordIsThePass, EnsuredSoFar, UpdateIsPrepared,
        EnsuredIsAsAsked, Working, EnsurePCs, ReleasePCs, At, HasRecord, HasRuntime, NoRuntime
<1> QED
    BY <1>3, <1>5 DEF IInv

-----------------------------------------------------------------------------
(* ensure: the environment and the resources of the record.                *)

LEMMA ModifiesEnvironmentKeeps ==
    ASSUME IInv, ModifiesEnvironment
    PROVE  IInv'
<1>1. /\ Machine /\ PassIsRight /\ pass.pc = "modifies environment" /\ ~VmRuns
      /\ UNCHANGED <<record, controlled, network, lastId>>
    BY DEF IInv, ModifiesEnvironment, At
<1>2. pass \in Passes
    BY <1>1, UnderWay
<1>3. runtime' \in Runtimes \cup {NoRuntime} /\ runtime'.status = "Stopped" /\ runtime'.id = runtime.id
  <2>1. CASE runtime \in Runtimes
    <3>1. HasRuntime /\ runtime.status = "Stopped"
        BY <1>1, <2>1, RuntimeExists DEF VmRuns
    <3>2. runtime' = [runtime EXCEPT !.stored = [@ EXCEPT !.environment = pass.request.environment]]
        BY <3>1 DEF ModifiesEnvironment
    <3>3. [runtime.stored EXCEPT !.environment = pass.request.environment] \in Configs
        BY <1>2, <2>1, RequestFields DEF Runtimes, Configs
    <3> QED
        BY <2>1, <3>1, <3>2, <3>3 DEF Runtimes
  <2>2. CASE runtime = NoRuntime
    BY <2>2 DEF ModifiesEnvironment, HasRuntime, NoRuntime
  <2> QED
    BY <1>1, <2>1, <2>2 DEF Machine
<1>4. pass' \in Passes /\ pass'.pc = "records environment" /\ pass'.seen = pass.seen /\ pass'.request = pass.request
    BY <1>2, PassGoes DEF ModifiesEnvironment, PCs, EnsurePCs
<1>5. PassIsRight'
    BY <1>1, <1>3, <1>4 DEF PassIsRight, PassTypeOK, RecordIsThePass, EnsuredSoFar, UpdateIsPrepared,
        EnsuredIsAsAsked, Working, EnsurePCs, ReleasePCs, At, HasRecord, VmRuns
<1> QED
    BY <1>1, <1>3, <1>5, MachineStops DEF IInv

LEMMA RecordsEnvironmentKeeps ==
    ASSUME IInv, RecordsEnvironment
    PROVE  IInv'
<1> DEFINE seen == [inspect_record EXCEPT !.environment = pass.request.environment]
<1>1. /\ Machine /\ PassIsRight /\ pass.pc = "records environment"
      /\ record' = [record EXCEPT !.environment = pass.request.environment]
      /\ UNCHANGED <<runtime, controlled, network, lastId>>
    BY DEF IInv, RecordsEnvironment, At
<1>2. pass \in Passes
    BY <1>1, UnderWay
<1>3. HasRecord
    BY <1>1 DEF PassIsRight, RecordIsThePass, Working, EnsurePCs
<1>4. record \in Records
    BY <1>1, <1>3, RecordExists DEF Machine
<1>5. /\ record' \in Records /\ record'.id = record.id /\ record'.resources = record.resources
      /\ record'.environment = pass.request.environment
    BY <1>1, <1>2, <1>4, RequestFields DEF Records
<1>6. /\ seen \in Snapshots /\ seen.id = record.id /\ seen.resources = record.resources
      /\ seen.environment = pass.request.environment
    BY <1>2, <1>4, InspectedIsSnapshot, RequestFields DEF Snapshots
<1>7. Machine'
    BY <1>1, <1>5 DEF Machine, RuntimeHasItsRecord, RunningBootedItsRecord,
        RunningIsControlled, NetworkHasItsSandbox, HasRuntime, VmRuns
<1>8. pass' = [pass EXCEPT !.pc = "resources", !.seen = seen]
    BY DEF RecordsEnvironment
<1> HIDE DEF seen
<1>9. pass' \in Passes /\ pass'.pc = "resources" /\ pass'.seen = seen /\ pass'.request = pass.request
    BY <1>2, <1>6, <1>8, PassGoesWith DEF PCs, EnsurePCs
<1>10. PassIsRight'
    BY <1>1, <1>3, <1>5, <1>6, <1>9 DEF PassIsRight, PassTypeOK, RecordIsThePass, EnsuredSoFar, UpdateIsPrepared,
        EnsuredIsAsAsked, Working, EnsurePCs, ReleasePCs, At, HasRecord
<1> QED
    BY <1>7, <1>10 DEF IInv

(* The configuration of the next start is one.                             *)
LEMMA ChangesAreConfig ==
    ASSUME runtime \in Runtimes, NEW from \in Configs, NEW desired \in Configs
    PROVE  /\ boot_changes(from, desired) \in Configs
           /\ boot_changes(from, desired).resources \in BoxResources
           /\ boot_changes(from, desired).resources.cpu =
                IF from.resources.cpu # desired.resources.cpu THEN desired.resources.cpu
                                                              ELSE runtime.stored.resources.cpu
BY DEF boot_changes, Runtimes, Configs, BoxResources

LEMMA GrownIsConfig ==
    ASSUME NEW config \in Configs, NEW disk \in 1..MaxDisk
    PROVE  Grown(config, disk) \in Configs
<1>1. Grown(config, disk) = [config EXCEPT !.resources = [@ EXCEPT !.disk = disk]]
    BY DEF Grown
<1>2. [config.resources EXCEPT !.disk = disk] \in BoxResources
    BY DEF Configs, BoxResources
<1> QED
    BY <1>1, <1>2 DEF Configs

(* The runtime with another configuration stored is the same to everything *)
(* that looks at what runs.                                                *)
LEMMA StoresConfig ==
    ASSUME Machine, HasRuntime, NEW config \in Configs, runtime' = [runtime EXCEPT !.stored = config],
           controlled' \in BOOLEAN, controlled => controlled', UNCHANGED <<record, network, lastId>>
    PROVE  /\ Machine'
           /\ runtime'.status = runtime.status /\ runtime'.booted = runtime.booted /\ runtime'.id = runtime.id
<1>1. runtime \in Runtimes
    BY RuntimeExists DEF Machine
<1>2. /\ runtime' \in Runtimes
      /\ runtime'.status = runtime.status /\ runtime'.booted = runtime.booted /\ runtime'.id = runtime.id
      /\ runtime'.controlled = runtime.controlled
    BY <1>1 DEF Runtimes
<1>3. Machine'
    BY <1>2 DEF Machine, RuntimeHasItsRecord, RunningBootedItsRecord, RunningIsControlled, NetworkHasItsSandbox,
        HasRuntime, VmRuns
<1> QED
    BY <1>2, <1>3

LEMMA ModifiesResourcesKeeps ==
    ASSUME IInv, ModifiesResources
    PROVE  IInv'
<1> DEFINE from == IF VmRuns THEN runtime.booted ELSE runtime.stored
           changes == \/ from.resources.cpu # pass.request.resources.cpu
                      \/ runtime.stored.resources.disk < pass.request.resources.disk
           config == Grown(boot_changes(from, Asked), pass.request.resources.disk)
           pc == IF changes /\ VmRuns THEN "stops for resources" ELSE "records resources"
<1>1. /\ Machine /\ PassIsRight /\ pass.pc = "resources" /\ UNCHANGED <<record, network, lastId>>
    BY DEF IInv, ModifiesResources, At
<1>2. pass \in Passes
    BY <1>1, UnderWay
<1>3. /\ HasRecord /\ pass.seen \in Snapshots /\ pass.seen.id = record.id
      /\ pass.seen.resources = record.resources /\ record.environment = pass.request.environment
    BY <1>1 DEF PassIsRight, PassTypeOK, RecordIsThePass, EnsuredSoFar, Working, EnsurePCs
<1>4. record \in Records
    BY <1>1, <1>3, RecordExists DEF Machine
<1>5. CASE pass.seen.resources = pass.request.resources \/ record.resources = pass.request.resources
  <2>1. /\ UNCHANGED <<runtime, controlled>>
        /\ \E seen \in {pass.seen, inspect_record} : GoesWith("network", seen)
    BY <1>5 DEF ModifiesResources
  <2>2. PICK seen \in {pass.seen, inspect_record} : GoesWith("network", seen)
    BY <2>1
  <2>3. seen \in Snapshots /\ seen.id = record.id
    BY <1>3, <1>4, InspectedIsSnapshot
  <2>4. pass' \in Passes /\ pass'.pc = "network" /\ pass'.seen = seen /\ pass'.request = pass.request
    BY <1>2, <2>2, <2>3, PassGoesWith DEF GoesWith, PCs, EnsurePCs
  <2>5. PassIsRight'
    BY <1>1, <1>3, <1>5, <2>3, <2>4 DEF PassIsRight, PassTypeOK, RecordIsThePass, EnsuredSoFar, UpdateIsPrepared,
        EnsuredIsAsAsked, Working, EnsurePCs, ReleasePCs, At, HasRecord
  <2> QED
    BY <1>1, <2>1, <2>5, MachineRests DEF IInv
<1>6. CASE /\ ~HasRuntime /\ UNCHANGED <<runtime, controlled>>
           /\ pass' = [pass EXCEPT !.pc = "records resources", !.restarts = FALSE]
  <2>1. ~VmRuns
    BY <1>1, <1>6, RuntimeExists DEF Machine
  <2>2. /\ pass' \in Passes /\ pass'.pc = "records resources" /\ pass'.seen = pass.seen /\ pass'.request = pass.request
        /\ pass'.restarts = FALSE
    BY <1>2, <1>6 DEF Passes, PCs, EnsurePCs
  <2>3. PassIsRight'
    BY <1>1, <1>3, <1>6, <2>1, <2>2 DEF PassIsRight, PassTypeOK, RecordIsThePass, EnsuredSoFar, UpdateIsPrepared,
        EnsuredIsAsAsked, Working, EnsurePCs, ReleasePCs, At, HasRecord, VmRuns
  <2> QED
    BY <1>1, <1>6, <2>3, MachineRests DEF IInv
<1>7. CASE pass' = Resting /\ UNCHANGED <<runtime, controlled>>
    BY <1>1, <1>7, MachineRests, RestIsRight DEF IInv
<1>8. CASE /\ HasRuntime /\ runtime' = [runtime EXCEPT !.stored = config]
           /\ controlled' = (controlled \/ changes)
           /\ pass' = [pass EXCEPT !.pc = pc, !.restarts = changes /\ VmRuns]
  <2>1. runtime \in Runtimes
    BY <1>1, <1>8, RuntimeExists DEF Machine
  <2>2. from \in Configs /\ Asked \in Configs /\ pass.request.resources.disk \in 1..MaxDisk
    BY <1>2, <2>1, RequestFields DEF Runtimes, Configs, Asked, BoxResources
  <2>3. config \in Configs
    BY <2>1, <2>2, ChangesAreConfig, GrownIsConfig
  <2>4. controlled' \in BOOLEAN /\ (controlled => controlled') /\ (changes => controlled')
    BY ONLY <1>8
  <2>5. VmRuns /\ ~changes => runtime.booted.resources.cpu = pass.request.resources.cpu
    OBVIOUS
  <2> HIDE DEF config, changes, from
  <2>6. /\ pass' \in Passes /\ pass'.pc = pc /\ pass'.seen = pass.seen /\ pass'.request = pass.request
        /\ pass'.restarts = (changes /\ VmRuns)
    BY <1>2, <1>8 DEF Passes, PCs, EnsurePCs
  <2>7. Machine' /\ runtime'.status = runtime.status /\ runtime'.booted = runtime.booted
    BY <1>1, <1>8, <2>3, <2>4, StoresConfig
  <2>8. PassIsRight'
    BY <1>1, <1>3, <2>4, <2>5, <2>6, <2>7 DEF PassIsRight, PassTypeOK, RecordIsThePass, EnsuredSoFar, UpdateIsPrepared,
        EnsuredIsAsAsked, Working, EnsurePCs, ReleasePCs, At, HasRecord, VmRuns
  <2> QED
    BY <2>7, <2>8 DEF IInv
<1> QED
    BY <1>5, <1>6, <1>7, <1>8 DEF ModifiesResources, PreparedFor

LEMMA RecordsResourcesKeeps ==
    ASSUME IInv, RecordsResources
    PROVE  IInv'
<1> DEFINE seen == [inspect_record EXCEPT !.resources = pass.request.resources]
<1>1. /\ Machine /\ PassIsRight /\ pass.pc = "records resources"
      /\ record' = [record EXCEPT !.resources = pass.request.resources]
      /\ UNCHANGED <<runtime, controlled, network, lastId>>
    BY DEF IInv, RecordsResources, At
<1>2. pass \in Passes
    BY <1>1, UnderWay
<1>3. /\ HasRecord /\ pass.seen \in Snapshots /\ pass.seen.id = record.id
      /\ record.environment = pass.request.environment
      /\ VmRuns => runtime.booted.resources.cpu = pass.request.resources.cpu
      /\ pass.restarts => controlled
    BY <1>1 DEF PassIsRight, PassTypeOK, RecordIsThePass, EnsuredSoFar, UpdateIsPrepared, Working, EnsurePCs
<1>4. record \in Records
    BY <1>1, <1>3, RecordExists DEF Machine
<1>5. /\ record' \in Records /\ record'.id = record.id /\ record'.environment = record.environment
      /\ record'.resources = pass.request.resources
    BY <1>1, <1>2, <1>4, RequestFields DEF Records
<1>6. seen \in Snapshots /\ seen.id = record.id
    BY <1>2, <1>4, InspectedIsSnapshot, RequestFields DEF Snapshots
<1>7. Machine'
    BY <1>1, <1>3, <1>5 DEF Machine, RuntimeHasItsRecord, RunningBootedItsRecord,
        RunningIsControlled, NetworkHasItsSandbox, HasRuntime, VmRuns
<1>8. \/ pass.restarts /\ Goes("starts with resources")
      \/ pass' = [pass EXCEPT !.pc = "network", !.seen = seen]
    BY DEF RecordsResources, GoesWith
<1> HIDE DEF seen
<1>9. /\ pass' \in Passes /\ pass'.request = pass.request /\ pass'.restarts = pass.restarts
      /\ pass'.seen \in Snapshots /\ pass'.seen.id = record.id
      /\ \/ pass.restarts /\ pass'.pc = "starts with resources"
         \/ pass'.pc = "network"
  <2>1. CASE pass.restarts /\ Goes("starts with resources")
    BY <1>2, <1>3, <2>1, PassGoes DEF PCs, EnsurePCs
  <2>2. CASE pass' = [pass EXCEPT !.pc = "network", !.seen = seen]
    <3>1. /\ pass' \in Passes /\ pass'.pc = "network" /\ pass'.seen = seen
          /\ pass'.request = pass.request /\ pass'.restarts = pass.restarts
        BY <1>2, <1>6, <2>2, PassGoesWith DEF PCs, EnsurePCs
    <3> QED
        BY <1>6, <3>1
  <2> QED
    BY <1>8, <2>1, <2>2
<1>10. PassIsRight'
    BY <1>1, <1>3, <1>5, <1>9 DEF PassIsRight, PassTypeOK, RecordIsThePass, EnsuredSoFar, UpdateIsPrepared,
        EnsuredIsAsAsked, Working, EnsurePCs, ReleasePCs, At, HasRecord
<1> QED
    BY <1>7, <1>10 DEF IInv

-----------------------------------------------------------------------------
(* ensure: the VM starts.                                                  *)

(* A VM that boots a configuration with the CPUs of its record under the   *)
(* control of the network is as it should be.                              *)
LEMMA MachineBoots ==
    ASSUME Machine, HasRecord, NEW config \in Configs, config.resources.cpu = record.resources.cpu,
           runtime' = Boots(config), controlled', controlled' \in BOOLEAN, UNCHANGED <<record, network, lastId>>
    PROVE  Machine' /\ runtime'.id = record.id /\ runtime'.status = "Running"
<1>1. record \in Records
    BY RecordExists DEF Machine
<1>2. /\ runtime' \in Runtimes /\ runtime'.id = record.id /\ runtime'.status = "Running"
      /\ runtime'.booted = config /\ runtime'.controlled
    BY <1>1 DEF Boots, Runtimes, Records
<1> QED
    BY <1>1, <1>2 DEF Machine, RuntimeHasItsRecord, RunningBootedItsRecord, RunningIsControlled, NetworkHasItsSandbox,
        HasRuntime, VmRuns

(* converge_next_start: what is stored boots with what is recorded.        *)
LEMMA NextStartIsTheRecord ==
    ASSUME Machine, HasRecord, HasRuntime
    PROVE  converge_next_start \in Configs /\ converge_next_start.resources.cpu = record.resources.cpu
<1>1. record \in Records /\ runtime \in Runtimes
    BY RecordExists, RuntimeExists DEF Machine
<1>2. Recorded \in Configs /\ Recorded.resources = record.resources
    BY <1>1 DEF Recorded, Records, Configs
<1>3. runtime.stored \in Configs
    BY <1>1 DEF Runtimes
<1> QED
    BY <1>1, <1>2, <1>3, ChangesAreConfig DEF converge_next_start

LEMMA StartsWithResourcesKeeps ==
    ASSUME IInv, StartsWithResources
    PROVE  IInv'
<1> DEFINE seen == [inspect_record EXCEPT !.state = "Running"]
<1>1. /\ Machine /\ PassIsRight /\ pass.pc = "starts with resources" /\ HasRuntime
      /\ runtime' = Boots(converge_next_start) /\ UNCHANGED <<record, controlled, network, lastId>>
    BY DEF IInv, StartsWithResources, At
<1>2. pass \in Passes
    BY <1>1, UnderWay
<1>3. /\ HasRecord /\ controlled
      /\ record.environment = pass.request.environment /\ record.resources = pass.request.resources
    BY <1>1 DEF PassIsRight, RecordIsThePass, EnsuredSoFar, UpdateIsPrepared, Working, EnsurePCs
<1>4. Machine'
  <2>1. controlled' /\ controlled' \in BOOLEAN
    BY <1>1, <1>3 DEF Machine
  <2> QED
    BY <1>1, <1>3, <2>1, NextStartIsTheRecord, MachineBoots
<1>5. record \in Records
    BY <1>1, <1>3, RecordExists DEF Machine
<1>6. seen \in Snapshots /\ seen.id = record.id
    BY <1>5, InspectedIsSnapshot DEF Snapshots
<1>7. pass' = [pass EXCEPT !.pc = "network", !.seen = seen]
    BY DEF StartsWithResources, GoesWith
<1> HIDE DEF seen
<1>8. pass' \in Passes /\ pass'.pc = "network" /\ pass'.seen = seen /\ pass'.request = pass.request
    BY <1>2, <1>6, <1>7, PassGoesWith DEF PCs, EnsurePCs
<1>9. PassIsRight'
    BY <1>1, <1>3, <1>6, <1>8 DEF PassIsRight, PassTypeOK, RecordIsThePass, EnsuredSoFar, UpdateIsPrepared,
        EnsuredIsAsAsked, Working, EnsurePCs, ReleasePCs, At, HasRecord
<1> QED
    BY <1>4, <1>9 DEF IInv

LEMMA EnsuresNetworkKeeps ==
    ASSUME IInv, EnsuresNetwork
    PROVE  IInv'
<1>1. /\ Machine /\ PassIsRight /\ pass.pc = "network" /\ network' = network \cup {pass.seen.id}
      /\ controlled' = (controlled \/ pass.seen.id \notin network) /\ UNCHANGED <<record, runtime, lastId>>
    BY DEF IInv, EnsuresNetwork, At
<1>2. pass \in Passes
    BY <1>1, UnderWay
<1>3. /\ HasRecord /\ pass.seen \in Snapshots /\ pass.seen.id = record.id
      /\ record.environment = pass.request.environment /\ record.resources = pass.request.resources
    BY <1>1 DEF PassIsRight, PassTypeOK, RecordIsThePass, EnsuredSoFar, Working, EnsurePCs
<1>4. pass.seen.id \in 1..MaxIds
    BY <1>3 DEF Snapshots
<1>5. controlled' \in BOOLEAN
    BY ONLY <1>1
<1>6. Machine'
    BY <1>1, <1>3, <1>4, <1>5 DEF Machine, RuntimeHasItsRecord, RunningBootedItsRecord,
        RunningIsControlled, NetworkHasItsSandbox, HasRuntime, VmRuns
<1>7. \E pc \in {"inspects", "starts"} : Goes(pc)
    BY DEF EnsuresNetwork
<1>8. pass' \in Passes /\ pass'.pc \in {"inspects", "starts"} /\ pass'.seen = pass.seen /\ pass'.request = pass.request
    BY <1>2, <1>7, PassGoes DEF PCs, EnsurePCs
<1>9. PassIsRight'
    BY <1>1, <1>3, <1>8 DEF PassIsRight, PassTypeOK, RecordIsThePass, EnsuredSoFar, UpdateIsPrepared,
        EnsuredIsAsAsked, Working, EnsurePCs, ReleasePCs, At, HasRecord
<1> QED
    BY <1>6, <1>9 DEF IInv

LEMMA StartsKeeps ==
    ASSUME IInv, Starts
    PROVE  IInv'
<1>1. /\ Machine /\ PassIsRight /\ pass.pc = "starts" /\ HasRecord
      /\ controlled' = TRUE /\ UNCHANGED <<record, network, lastId>>
    BY DEF IInv, Starts, At
<1>2. pass \in Passes
    BY <1>1, UnderWay
<1>3. /\ pass.seen \in Snapshots /\ pass.seen.id = record.id /\ pass.seen.id \in network
      /\ record.environment = pass.request.environment /\ record.resources = pass.request.resources
    BY <1>1 DEF PassIsRight, PassTypeOK, RecordIsThePass, EnsuredSoFar, Working, EnsurePCs
<1>4. record \in Records
    BY <1>1, RecordExists DEF Machine
<1>5. Machine'
  <2>1. CASE runtime' = runtime
    BY <1>1, <2>1 DEF Machine, RuntimeHasItsRecord, RunningBootedItsRecord, RunningIsControlled, NetworkHasItsSandbox,
        HasRuntime, VmRuns
  <2>2. CASE HasRuntime /\ runtime' = Boots(converge_next_start)
    BY <1>1, <2>2, NextStartIsTheRecord, MachineBoots
  <2>3. CASE runtime' = Boots(Recorded)
    <3>1. Recorded \in Configs /\ Recorded.resources.cpu = record.resources.cpu
        BY <1>4 DEF Recorded, Records, Configs
    <3> QED
        BY <1>1, <2>3, <3>1, MachineBoots
  <2> QED
    BY <2>1, <2>2, <2>3 DEF Starts
<1>6. pass' \in Passes /\ pass'.pc = "inspects" /\ pass'.seen = pass.seen /\ pass'.request = pass.request
    BY <1>2, PassGoes DEF Starts, PCs, EnsurePCs
<1>7. PassIsRight'
    BY <1>1, <1>3, <1>6 DEF PassIsRight, PassTypeOK, RecordIsThePass, EnsuredSoFar, UpdateIsPrepared,
        EnsuredIsAsAsked, Working, EnsurePCs, ReleasePCs, At, HasRecord
<1> QED
    BY <1>5, <1>7 DEF IInv

-----------------------------------------------------------------------------
(* The theorem of the sandbox.                                             *)

LEMMA InitIInv == BoxInit => IInv
<1> SUFFICES ASSUME BoxInit PROVE IInv
    OBVIOUS
<1>1. Machine
  <2>1. MaxIds \in Nat \ {0}
    BY MicrosandboxConstants
  <2>2. lastId \in 0..MaxIds /\ network \subseteq 1..MaxIds
    BY <2>1 DEF BoxInit
  <2>3. controlled \in BOOLEAN
    BY DEF BoxInit
  <2>4. ~HasRuntime /\ ~VmRuns
    BY DEF BoxInit, HasRuntime, VmRuns, NoRuntime
  <2> QED
    BY <2>2, <2>3, <2>4 DEF BoxInit, Machine, RuntimeHasItsRecord,
        RunningBootedItsRecord, RunningIsControlled, NetworkHasItsSandbox
<1>2. PassIsRight
    BY DEF BoxInit, PassIsRight, PassTypeOK, RecordIsThePass, EnsuredSoFar, UpdateIsPrepared, EnsuredIsAsAsked,
        Working, EnsurePCs, ReleasePCs, At, Resting
<1> QED
    BY <1>1, <1>2 DEF IInv

LEMMA StutteringKeeps ==
    ASSUME IInv, UNCHANGED boxVars
    PROVE  IInv'
<1>1. Machine'
    BY MachineRests DEF IInv, boxVars
<1>2. PassTypeOK' /\ RecordIsThePass' /\ UpdateIsPrepared'
    BY DEF IInv, boxVars, PassIsRight, PassTypeOK, RecordIsThePass, UpdateIsPrepared, HasRecord, HasRuntime, VmRuns
<1>3. EnsuredSoFar' /\ EnsuredIsAsAsked'
    BY DEF IInv, boxVars, PassIsRight, EnsuredSoFar, EnsuredIsAsAsked, At, Asked, VmRuns
<1> QED
    BY <1>1, <1>2, <1>3 DEF IInv, PassIsRight

LEMMA Invariance == BoxSpec => []IInv
<1>1. IInv /\ [BoxNext]_boxVars => IInv'
    BY StutteringKeeps, BeginsKeeps, FindsKeeps, InterruptionKeeps, CreatesRecordKeeps, HoldsImageKeeps,
        RecordGoesKeeps, EnsuresEnvironmentKeeps, StopsKeeps, StopsNetworkKeeps, ModifiesEnvironmentKeeps,
        RecordsEnvironmentKeeps, ModifiesResourcesKeeps, RecordsResourcesKeeps, StartsWithResourcesKeeps,
        EnsuresNetworkKeeps, StartsKeeps, InspectsKeeps, KillsKeeps, RemovesRuntimeKeeps
        DEF BoxNext
<1> QED
    BY InitIInv, <1>1, PTL DEF BoxSpec

LEMMA RecordStands == IInv => SandboxIsItsRecord
<1> SUFFICES ASSUME IInv PROVE SandboxIsItsRecord
    OBVIOUS
<1>1. Machine /\ PassIsRight
    BY DEF IInv
<1>2. pass.pc \in PCs
    BY <1>1, RestIsNoPass DEF PassIsRight, PassTypeOK, Passes, PCs
<1>3. pass.pc \in ReleasePCs \cup (EnsurePCs \ {"creates", "holds"}) => pass.seen.id # 0
    BY <1>1 DEF PassIsRight, RecordIsThePass, Working, HasRecord
<1>4. BoxTypeOK
    BY <1>1, <1>2, <1>3 DEF BoxTypeOK, Machine, PCs
<1> QED
    BY <1>1, <1>4 DEF SandboxIsItsRecord, Machine, PassIsRight

(* Whatever is interrupted, a VM has its record and runs with the CPUs of  *)
(* it, under the control of its network, and ensure returns the sandbox    *)
(* that it was asked for (core/service.rs, microsandbox/backend.rs).       *)
THEOREM SandboxStaysItsRecord == BoxSpec => []SandboxIsItsRecord
BY Invariance, RecordStands, PTL

-----------------------------------------------------------------------------
(* The sandbox, seen through its record, is one of the backend of          *)
(* sandbox/core.                                                           *)

LEMMA Unseen ==
    ASSUME UNCHANGED <<record, lastId>>, VmRuns' <=> VmRuns
    PROVE  UNCHANGED Backend!backendVars
BY DEF Backend!backendVars, inspect_record, HasRecord

LEMMA SeenToCreate ==
    ASSUME record = NoRecord, runtime = NoRuntime, runtime' = runtime, lastId < MaxIds, lastId' = lastId + 1,
           record' \in Records, record'.id = lastId'
    PROVE  Backend!create
<1>1. record'.id # 0 /\ record'.resources \in BoxResources /\ record'.environment \in Environments
    BY DEF Records
<1> QED
    BY <1>1 DEF Backend!create, Backend!Exists, Backend!Box, inspect_record, HasRecord, NoRecord, VmRuns, NoRuntime

LEMMA SeenToDelete ==
    ASSUME HasRecord, record' = NoRecord, lastId' = lastId
    PROVE  Backend!delete
BY DEF Backend!delete, Backend!Exists, Backend!NoBox, inspect_record, HasRecord, NoRecord

LEMMA SeenToStop ==
    ASSUME HasRecord, UNCHANGED <<record, lastId>>, ~VmRuns'
    PROVE  Backend!stop
BY DEF Backend!stop, Backend!Exists, inspect_record, HasRecord

LEMMA SeenToStart ==
    ASSUME HasRecord, UNCHANGED <<record, lastId>>, VmRuns'
    PROVE  Backend!start
BY DEF Backend!start, Backend!Exists, inspect_record, HasRecord

LEMMA SeenToUpdateEnvironment ==
    ASSUME record \in Records, HasRecord, ~VmRuns, UNCHANGED <<runtime, lastId>>, NEW e \in Environments,
           record' = [record EXCEPT !.environment = e]
    PROVE  Backend!update_environment
<1>1. record'.id = record.id /\ record'.resources = record.resources /\ record'.environment = e
    BY DEF Records
<1> QED
    BY <1>1 DEF Backend!update_environment, inspect_record, HasRecord, VmRuns

LEMMA SeenToUpdateResources ==
    ASSUME record \in Records, HasRecord, UNCHANGED <<runtime, lastId>>, NEW r \in BoxResources,
           record' = [record EXCEPT !.resources = r]
    PROVE  Backend!update_resources
<1>1. record'.id = record.id /\ record'.environment = record.environment /\ record'.resources = r
    BY DEF Records
<1> QED
    BY <1>1 DEF Backend!update_resources, Backend!Exists, inspect_record, HasRecord, VmRuns

(* The VM ends, or is stopped, or was stopped already.                     *)
LEMMA StoppingIsSeen ==
    ASSUME Machine, UNCHANGED <<record, lastId>>, ~VmRuns', VmRuns => HasRecord
    PROVE  Backend!stop \/ UNCHANGED Backend!backendVars
BY Unseen, SeenToStop

LEMMA RunsUnderRecord ==
    ASSUME Machine
    PROVE  VmRuns => HasRecord
BY RuntimeExists DEF Machine, RuntimeHasItsRecord, HasRuntime, HasRecord

LEMMA StepsAreSeen ==
    ASSUME IInv, BoxNext
    PROVE  [Backend!BackendNext]_Backend!backendVars
<1>1. Machine /\ PassIsRight
    BY DEF IInv
<1>2. VmRuns => HasRecord
    BY <1>1, RunsUnderRecord
<1>3. CASE \/ \E kind \in Kinds, request \in Requests : Begins(kind, request)
           \/ Finds \/ PassFails \/ ProcessRestarts \/ HoldsImage \/ EnsuresEnvironment
           \/ StopsNetworkForEnvironment \/ EnsuresNetwork \/ Inspects \/ Returns \/ StopsNetwork \/ DeletesNetwork
  <2>1. UNCHANGED <<record, runtime, lastId>>
    BY <1>3 DEF Begins, Finds, PassFails, ProcessRestarts, HoldsImage, EnsuresEnvironment,
        StopsNetworkForEnvironment, EnsuresNetwork, Inspects, Returns, StopsNetwork, DeletesNetwork
  <2> QED
    BY <2>1, Unseen DEF VmRuns
<1>4. CASE VmEnds \/ StopsForEnvironment \/ StopsForResources \/ Kills \/ Stops \/ StopsAgain
  <2>1. StopVm /\ UNCHANGED <<record, lastId>>
    BY <1>4 DEF VmEnds, StopsForEnvironment, StopsForResources, Kills, Stops, StopsAgain, StopVm
  <2>2. ~VmRuns'
    BY <1>1, <2>1, StoppedRuntime DEF Machine, VmRuns
  <2> QED
    BY <1>1, <1>2, <2>1, <2>2, StoppingIsSeen DEF Backend!BackendNext
<1>5. CASE CreatesRecord
  <2>1. pass.pc = "creates" /\ pass \in Passes
    BY <1>1, <1>5, UnderWay DEF CreatesRecord, At
  <2>2. record = NoRecord /\ runtime = NoRuntime
    BY <1>1, <2>1, NothingIsLeft DEF PassIsRight, RecordIsThePass
  <2>3. lastId' \in 1..MaxIds
    BY <1>1, <1>5, MicrosandboxConstants DEF CreatesRecord, Machine
  <2>4. record' \in Records /\ record'.id = lastId'
    BY <1>5, <2>1, <2>3, RequestFields DEF CreatesRecord, Records
  <2>5. Backend!create
    BY <1>5, <2>2, <2>4, SeenToCreate DEF CreatesRecord
  <2> QED
    BY <2>5 DEF Backend!BackendNext
<1>6. CASE HoldFails \/ RemovesRecord
  <2>1. HasRecord
    BY <1>1, <1>6 DEF HoldFails, RemovesRecord, At, PassIsRight, RecordIsThePass, Working, ReleasePCs
  <2>2. Backend!delete
    BY <1>6, <2>1, SeenToDelete DEF HoldFails, RemovesRecord
  <2> QED
    BY <2>2 DEF Backend!BackendNext
<1>7. CASE ModifiesEnvironment
  <2>1. ~VmRuns /\ UNCHANGED <<record, lastId>>
    BY <1>7 DEF ModifiesEnvironment
  <2>2. runtime'.status = runtime.status
    BY <1>1, <1>7, RuntimeExists DEF ModifiesEnvironment, Machine, HasRuntime, Runtimes
  <2> QED
    BY <2>1, <2>2, Unseen DEF VmRuns
<1>8. CASE RecordsEnvironment
  <2>1. pass.pc = "records environment" /\ pass \in Passes
    BY <1>1, <1>8, UnderWay DEF RecordsEnvironment, At
  <2>2. HasRecord /\ ~VmRuns
    BY <1>1, <2>1 DEF PassIsRight, RecordIsThePass, EnsuredSoFar, Working, EnsurePCs
  <2>3. record \in Records /\ pass.request.environment \in Environments
    BY <1>1, <2>1, <2>2, RecordExists, RequestFields DEF Machine
  <2>4. Backend!update_environment
    BY <1>8, <2>2, <2>3, SeenToUpdateEnvironment DEF RecordsEnvironment
  <2> QED
    BY <2>4 DEF Backend!BackendNext
<1>9. CASE ModifiesResources
  <2>1. UNCHANGED <<record, lastId>>
    BY <1>9 DEF ModifiesResources
  <2>2. \/ runtime' = runtime
        \/ HasRuntime /\ \E config : runtime' = [runtime EXCEPT !.stored = config]
    BY <1>9 DEF ModifiesResources
  <2>3. runtime'.status = runtime.status
    BY <1>1, <2>2, RuntimeExists DEF Machine, Runtimes
  <2> QED
    BY <2>1, <2>3, Unseen DEF VmRuns
<1>10. CASE RecordsResources
  <2>1. pass.pc = "records resources" /\ pass \in Passes
    BY <1>1, <1>10, UnderWay DEF RecordsResources, At
  <2>2. HasRecord
    BY <1>1, <2>1 DEF PassIsRight, RecordIsThePass, Working, EnsurePCs
  <2>3. record \in Records /\ pass.request.resources \in BoxResources
    BY <1>1, <2>1, <2>2, RecordExists, RequestFields DEF Machine
  <2>4. Backend!update_resources
    BY <1>10, <2>2, <2>3, SeenToUpdateResources DEF RecordsResources
  <2> QED
    BY <2>4 DEF Backend!BackendNext
<1>11. CASE StartsWithResources \/ Starts
  <2>1. HasRecord /\ UNCHANGED <<record, lastId>>
    BY <1>1, <1>11 DEF StartsWithResources, Starts, At, PassIsRight, RecordIsThePass, Working, EnsurePCs
  <2>2. runtime' = runtime \/ \E config : runtime' = Boots(config)
    BY <1>11 DEF StartsWithResources, Starts
  <2>3. (VmRuns' <=> VmRuns) \/ VmRuns'
    BY <2>2 DEF Boots, VmRuns
  <2> QED
    BY <2>1, <2>3, Unseen, SeenToStart DEF Backend!BackendNext
<1>12. CASE RemovesRuntime
  <2>1. ~VmRuns /\ ~VmRuns' /\ UNCHANGED <<record, lastId>>
    BY <1>12 DEF RemovesRuntime, VmRuns, NoRuntime
  <2> QED
    BY <2>1, Unseen
<1> QED
    BY <1>3, <1>4, <1>5, <1>6, <1>7, <1>8, <1>9, <1>10, <1>11, <1>12 DEF BoxNext

(* The Microsandbox provider implements the backend of sandbox/core: seen  *)
(* through its records, every step of a pass, and every interruption of    *)
(* one, is one operation of the in-memory Provider or is not seen.         *)
THEOREM ProviderIsBackend == BoxSpec => ImplementsBackend
<1>1. BoxInit => Backend!BackendInit
    BY DEF BoxInit, Backend!BackendInit, Backend!NoBox, HasRecord, NoRecord
<1>2. IInv /\ [BoxNext]_boxVars => [Backend!BackendNext]_Backend!backendVars
  <2>1. ASSUME UNCHANGED boxVars PROVE UNCHANGED Backend!backendVars
    BY <2>1, Unseen DEF boxVars, VmRuns
  <2> QED
    BY <2>1, StepsAreSeen
<1> QED
    BY <1>1, <1>2, Invariance, PTL DEF BoxSpec, ImplementsBackend, Backend!BackendSpec

-----------------------------------------------------------------------------
(* The network.                                                            *)

LogIsRight(log) ==
    /\ log = [counts |-> log.counts, total |-> log.total, lines |-> log.lines, written |-> log.written]
    /\ IsFiniteSet(DOMAIN log.counts) /\ Cardinality(DOMAIN log.counts) <= MAX_KEYS
    /\ log.total \in Nat /\ log.lines \in Nat /\ log.written \in Nat /\ log.lines <= MAX_LINES
    /\ log.written <= log.lines + log.total \div SUMMARY_EVERY

DriverIsRight(d) ==
    /\ d = [runs |-> d.runs, bindings |-> d.bindings, handshake |-> d.handshake, flows |-> d.flows, denials |-> d.denials]
    /\ d.runs \in BOOLEAN /\ d.handshake \in BOOLEAN /\ d.flows \subseteq Flows /\ LogIsRight(d.denials)
    /\ ~d.runs => d = NoDriver

(* What is carried is known to the driver, for an operation the policy     *)
(* allowed; nothing is before the runtime says hello.                      *)
Reaches(op) ==
    op.action \in {"connect", "http"} /\ op.address # "public" => op.host = PlatformHost /\ op.port = PlatformPort
FlowsAreRight ==
    /\ DOMAIN live \subseteq driver.flows /\ DOMAIN through = DOMAIN live
    /\ \A flow \in DOMAIN live : live[flow] \in Nat /\ revoked <= live[flow] /\ Reaches(through[flow])
    /\ evaluating = NoRequest \/ /\ evaluating.flow \in Flows /\ evaluating.op.action = "secret" /\ driver.handshake
                                 /\ evaluating.number \in Nat /\ revoked <= evaluating.number
    /\ ~driver.handshake => DOMAIN live = {}
    /\ ~driver.runs => revokes = <<>>

(* The policy in force is the newest, and no revocation is of a later one. *)
SerialIsNewest ==
    /\ serial \in 0..MaxPolicies /\ revoked \in Nat /\ revoked <= serial
    /\ policy.set \in BOOLEAN /\ policy.number \in 0..MaxPolicies /\ (policy.set => policy.number = serial)
    /\ revokes \in Seq(0..MaxPolicies) /\ \A i \in 1..Len(revokes) : revokes[i] <= serial

(* What a pass holds: secrets of its manifest or its login, and after a    *)
(* restart of the network no driver.                                       *)
PassStages == {"idle", "stores", "logins", "sets", "ensures", "compares", "stops", "ensures again"}
PassHolds ==
    /\ netPass = [pc |-> netPass.pc, manifest |-> netPass.manifest, prepared |-> netPass.prepared, ok |-> netPass.ok]
    /\ netPass.pc \in PassStages /\ netPass.ok \in BOOLEAN
    /\ netPass.ok => netPass.pc = "idle" /\ (driver.runs => driver.bindings = bindings)
    /\ netPass.pc \in {"stores", "logins", "sets"} =>
          serial < MaxPolicies /\ DOMAIN netPass.prepared \subseteq DOMAIN netPass.manifest.secrets \cup {Login}
    /\ netPass.pc = "ensures again" => ~driver.runs
    /\ DOMAIN bindings \subseteq DOMAIN policy.secrets

NetInv == DriverIsRight(driver) /\ FlowsAreRight /\ SerialIsNewest /\ PassHolds


LEMMA NoDriverIsRight == DriverIsRight(NoDriver) /\ DOMAIN <<>> = {}
<1>1. DOMAIN NoDenials.counts = {} /\ IsFiniteSet({}) /\ Cardinality({}) = 0
    BY FS_EmptySet DEF NoDenials
<1>2. LogIsRight(NoDenials)
  <2>1. 0 \div SUMMARY_EVERY \in Nat
    BY NetworkConstants
  <2>2. 0 <= 0 + 0 \div SUMMARY_EVERY /\ 0 <= MAX_LINES /\ 0 <= MAX_KEYS
    BY <2>1, NetworkConstants
  <2> QED
    BY <1>1, <2>2 DEF LogIsRight, NoDenials
<1> QED
    BY <1>2 DEF DriverIsRight, NoDriver

LEMMA NetParts ==
    ASSUME NetInv
    PROVE  DriverIsRight(driver) /\ FlowsAreRight /\ SerialIsNewest /\ PassHolds
BY DEF NetInv

(* However many names are denied, the log stays bounded.                   *)
LEMMA LogStaysRight ==
    ASSUME NEW log, LogIsRight(log), NEW key
    PROVE  LogIsRight(record_denial(log, key))
<1> DEFINE total == log.total + 1
           kept == IF key \notin DOMAIN log.counts /\ Cardinality(DOMAIN log.counts) >= MAX_KEYS THEN <<>> ELSE log.counts
           count == IF key \in DOMAIN kept THEN kept[key] + 1 ELSE 1
           line == IF count = 1 \/ count % REPEAT_EVERY = 0 THEN 1 ELSE 0
           summary == IF total % SUMMARY_EVERY = 0 THEN 1 ELSE 0
           counts == [k \in DOMAIN kept \cup {key} |-> IF k = key THEN count ELSE kept[k]]
           after == IF log.lines >= MAX_LINES
                    THEN [log EXCEPT !.total = total, !.written = @ + summary]
                    ELSE [counts |-> counts, total |-> total, lines |-> log.lines + line, written |-> log.written + line]
<1>1. record_denial(log, key) = after
    BY DEF record_denial
<1>2. /\ log = [counts |-> log.counts, total |-> log.total, lines |-> log.lines, written |-> log.written]
      /\ IsFiniteSet(DOMAIN log.counts) /\ Cardinality(DOMAIN log.counts) <= MAX_KEYS
      /\ log.total \in Nat /\ log.lines \in Nat /\ log.written \in Nat /\ log.lines <= MAX_LINES
      /\ log.written <= log.lines + log.total \div SUMMARY_EVERY
    BY DEF LogIsRight
<1>3. SUMMARY_EVERY \in Nat \ {0} /\ MAX_KEYS \in Nat \ {0} /\ MAX_LINES \in Nat
    BY NetworkConstants
<1>4. /\ log.total \div SUMMARY_EVERY \in Nat /\ total \div SUMMARY_EVERY \in Nat
      /\ log.total \div SUMMARY_EVERY <= total \div SUMMARY_EVERY
      /\ summary = 1 => total \div SUMMARY_EVERY = log.total \div SUMMARY_EVERY + 1
  <2>1. \A n \in Nat, s \in Nat \ {0} : n \div s \in Nat /\ (n + 1) \div s \in Nat /\ n \div s <= (n + 1) \div s
    OBVIOUS
  <2>2. \A n \in Nat, s \in Nat \ {0} : (n + 1) % s = 0 => (n + 1) \div s = n \div s + 1
    OBVIOUS
  <2> QED
    BY <1>2, <1>3, <2>1, <2>2
<1>5. summary \in {0, 1} /\ line \in {0, 1} /\ total \in Nat
    BY <1>2
<1>6. IsFiniteSet(DOMAIN counts) /\ Cardinality(DOMAIN counts) <= MAX_KEYS
  <2>1. DOMAIN counts = DOMAIN kept \cup {key}
    OBVIOUS
  <2>2. CASE key \in DOMAIN kept
    <3>1. DOMAIN kept \cup {key} = DOMAIN log.counts
        BY <2>2, NoDriverIsRight
    <3> HIDE DEF counts, kept
    <3> QED
        BY <1>2, <2>1, <3>1
  <2>3. CASE key \notin DOMAIN kept
    <3>1. IsFiniteSet(DOMAIN kept) /\ Cardinality(DOMAIN kept) + 1 <= MAX_KEYS
      <4>1. CASE key \notin DOMAIN log.counts /\ Cardinality(DOMAIN log.counts) >= MAX_KEYS
        <5>1. DOMAIN kept = {}
            BY <4>1, NoDriverIsRight
        <5>2. IsFiniteSet({}) /\ Cardinality({}) = 0
            BY FS_EmptySet
        <5> HIDE DEF kept
        <5> QED
            BY <1>3, <5>1, <5>2
      <4>2. CASE ~(key \notin DOMAIN log.counts /\ Cardinality(DOMAIN log.counts) >= MAX_KEYS)
        <5>1. kept = log.counts
            BY <4>2
        <5>2. Cardinality(DOMAIN log.counts) \in Nat
            BY <1>2, FS_CardinalityType
        <5>3. ~(Cardinality(DOMAIN log.counts) >= MAX_KEYS)
            BY <2>3, <4>2, <5>1
        <5> HIDE DEF kept
        <5> QED
            BY <1>2, <1>3, <5>1, <5>2, <5>3
      <4> QED
        BY <4>1, <4>2
    <3> HIDE DEF kept
    <3>2. IsFiniteSet(DOMAIN kept \cup {key}) /\ Cardinality(DOMAIN kept \cup {key}) = Cardinality(DOMAIN kept) + 1
        BY <2>3, <3>1, FS_AddElement
    <3> HIDE DEF counts
    <3> QED
        BY <2>1, <3>1, <3>2
  <2> QED
    BY <2>2, <2>3
<1> HIDE DEF total, kept, count, line, summary, counts
<1>7. CASE log.lines >= MAX_LINES
  <2>1. after = [counts |-> log.counts, total |-> total, lines |-> log.lines, written |-> log.written + summary]
    BY <1>2, <1>7
  <2>2. log.written + summary \in Nat /\ log.written + summary <= log.lines + total \div SUMMARY_EVERY
    BY <1>2, <1>4, <1>5
  <2> HIDE DEF after
  <2> QED
    BY <1>1, <1>2, <1>5, <2>1, <2>2 DEF LogIsRight
<1>8. CASE ~(log.lines >= MAX_LINES)
  <2>1. after = [counts |-> counts, total |-> total, lines |-> log.lines + line, written |-> log.written + line]
    BY <1>8
  <2>2. /\ log.written + line \in Nat /\ log.lines + line \in Nat /\ log.lines + line <= MAX_LINES
        /\ log.written + line <= log.lines + line + total \div SUMMARY_EVERY
    BY <1>2, <1>3, <1>4, <1>5, <1>8
  <2> HIDE DEF after
  <2> QED
    BY <1>1, <1>5, <1>6, <2>1, <2>2 DEF LogIsRight
<1> QED
    BY <1>7, <1>8

(* Traffic to the host goes to the platform.                               *)
LEMMA EvaluatedReachesThePlatform ==
    ASSUME NEW op \in Operations, evaluate(authorization_request(op))
    PROVE  policy.set /\ Reaches(op)
<1> DEFINE request == authorization_request(op)
<1>1. policy.set
    BY DEF evaluate
<1>2. ASSUME op.action \in {"connect", "http"}, op.address # "public"
      PROVE  op.host = PlatformHost /\ op.port = PlatformPort
  <2>1. /\ request.action = op.action /\ request.host = op.host /\ request.port = op.port /\ request.reserved
        /\ op.action # "secret" /\ op.action # "dns"
    BY <1>2, NetworkConstants DEF authorization_request
  <2>2. host_destined_decision(request) = IF op.host = PlatformHost /\ op.port = PlatformPort THEN "allow" ELSE "deny"
    BY <2>1 DEF host_destined_decision
  <2>3. evaluate(request) /\ host_destined_decision(request) # "none"
    BY <2>2
  <2> HIDE DEF request
  <2>4. host_destined_decision(request) = "allow"
    BY <2>3 DEF evaluate
  <2> QED
    BY <2>2, <2>4
<1> QED
    BY <1>1, <1>2 DEF Reaches

-----------------------------------------------------------------------------
(* The driver.                                                             *)

(* A driver that is gone carries nothing.                                  *)
LEMMA StopsDriverIsRight ==
    ASSUME NetInv, StopsDriver
    PROVE  DriverIsRight(driver') /\ FlowsAreRight'
<1>1. driver' = NoDriver /\ evaluating' = NoRequest /\ revokes' = <<>> /\ live' = <<>> /\ through' = <<>>
    BY DEF StopsDriver
<1>2. NoDriver.flows = {} /\ ~NoDriver.runs
    BY DEF NoDriver
<1> QED
    BY <1>1, <1>2, NoDriverIsRight DEF FlowsAreRight

(* A step of the driver leaves what a pass holds.                          *)
LEMMA DriverMoves ==
    ASSUME NetInv, UNCHANGED ForPass, DriverIsRight(driver'), FlowsAreRight',
           driver'.runs => driver.runs /\ driver'.bindings = driver.bindings,
           revoked' \in Nat, revoked' <= serial,
           revokes' \in Seq(0..MaxPolicies), \A i \in 1..Len(revokes') : revokes'[i] <= serial
    PROVE  NetInv'
<1>1. SerialIsNewest'
    BY NetParts DEF SerialIsNewest, ForPass
<1>2. PassHolds'
    BY NetParts DEF PassHolds, ForPass
<1> QED
    BY <1>1, <1>2 DEF NetInv, DriverIsRight, LogIsRight

LEMMA NoRevokes == <<>> \in Seq(0..MaxPolicies) /\ \A i \in 1..Len(<<>>) : FALSE
OBVIOUS

LEMMA DriverEndsIsRight ==
    ASSUME NetInv, DriverEnds
    PROVE  NetInv'
<1>1. DriverIsRight(driver') /\ FlowsAreRight'
    BY StopsDriverIsRight DEF DriverEnds, StopsDriver
<1>2. ~driver'.runs /\ revokes' = <<>> /\ revoked' = revoked /\ UNCHANGED ForPass
    BY DEF DriverEnds, NoDriver
<1>3. revokes' \in Seq(0..MaxPolicies) /\ \A i \in 1..Len(revokes') : revokes'[i] <= serial
    BY <1>2, NoRevokes
<1> QED
    BY <1>1, <1>2, <1>3, DriverMoves, NetParts DEF SerialIsNewest

LEMMA HelloIsRight ==
    ASSUME NetInv, Hello
    PROVE  NetInv'
<1>1. DriverIsRight(driver) /\ FlowsAreRight /\ SerialIsNewest
    BY NetParts
<1>2. /\ driver' = [driver EXCEPT !.handshake = TRUE, !.flows = {}] /\ driver.runs
      /\ UNCHANGED <<evaluating, revokes, live, revoked, through, ForPass>>
    BY DEF Hello
<1>3. driver' = [runs |-> driver.runs, bindings |-> driver.bindings, handshake |-> TRUE, flows |-> {}, denials |-> driver.denials]
    BY <1>1, <1>2 DEF DriverIsRight
<1>4. DriverIsRight(driver')
    BY <1>1, <1>2, <1>3 DEF DriverIsRight
<1>5. DOMAIN live = {}
    BY <1>1 DEF Hello, FlowsAreRight
<1>6. FlowsAreRight'
    BY <1>1, <1>2, <1>3, <1>5 DEF FlowsAreRight
<1> QED
    BY <1>1, <1>2, <1>3, <1>4, <1>6, DriverMoves DEF SerialIsNewest

(* A denied operation is only logged.                                      *)
LEMMA DeniesIsRight ==
    ASSUME NetInv, driver.runs, NEW op, Denies(op), evaluating' \in {evaluating, NoRequest}, UNCHANGED <<revokes, revoked, ForPass>>
    PROVE  NetInv'
<1>1. DriverIsRight(driver) /\ FlowsAreRight /\ SerialIsNewest
    BY NetParts
<1> DEFINE key == <<op.action, op.host>>
           log == record_denial(driver.denials, key)
<1>2. LogIsRight(log)
    BY <1>1, LogStaysRight DEF DriverIsRight
<1>3. driver' = [driver EXCEPT !.denials = log] /\ UNCHANGED <<live, through>>
    BY DEF Denies
<1> HIDE DEF log, key
<1>4. driver' = [runs |-> driver.runs, bindings |-> driver.bindings, handshake |-> driver.handshake, flows |-> driver.flows,
                 denials |-> log]
    BY <1>1, <1>3 DEF DriverIsRight
<1>5. DriverIsRight(driver')
    BY <1>1, <1>2, <1>4 DEF DriverIsRight
<1>6. FlowsAreRight'
    BY <1>1, <1>3, <1>4 DEF FlowsAreRight
<1> QED
    BY <1>1, <1>4, <1>5, <1>6, DriverMoves DEF SerialIsNewest

(* An allowed one is carried, recorded, and not older than the last        *)
(* revocation.                                                             *)
LEMMA AllowsIsRight ==
    ASSUME NetInv, driver.runs, driver.handshake, NEW flow \in Flows, NEW number \in Nat, revoked <= number,
           NEW op, Reaches(op), Allows(flow, number, op), evaluating' \in {evaluating, NoRequest},
           UNCHANGED <<revokes, revoked, ForPass>>
    PROVE  NetInv'
<1>1. DriverIsRight(driver) /\ FlowsAreRight /\ SerialIsNewest
    BY NetParts
<1>2. driver' = [runs |-> driver.runs, bindings |-> driver.bindings, handshake |-> driver.handshake,
                 flows |-> driver.flows \cup {flow}, denials |-> driver.denials]
    BY <1>1 DEF DriverIsRight, Allows
<1>3. DriverIsRight(driver')
    BY <1>1, <1>2 DEF DriverIsRight
<1>4. /\ DOMAIN live' = DOMAIN live \cup {flow} /\ DOMAIN through' = DOMAIN through \cup {flow}
      /\ \A f \in DOMAIN live' : live'[f] = IF f = flow THEN number ELSE live[f]
      /\ \A f \in DOMAIN through' : through'[f] = IF f = flow THEN op ELSE through[f]
    BY DEF Allows
<1>5. \A f \in DOMAIN live' : live'[f] \in Nat /\ revoked <= live'[f] /\ Reaches(through'[f])
    BY <1>1, <1>4 DEF FlowsAreRight
<1>6. FlowsAreRight'
    BY <1>1, <1>2, <1>4, <1>5 DEF FlowsAreRight, Reaches
<1> QED
    BY <1>1, <1>2, <1>3, <1>6, DriverMoves DEF SerialIsNewest

LEMMA AuthorizationIsRight ==
    ASSUME NetInv, NEW flow \in Flows, NEW op \in Operations, AuthorizationRequest(flow, op)
    PROVE  NetInv'
<1>1. DriverIsRight(driver) /\ FlowsAreRight /\ SerialIsNewest
    BY NetParts
<1>2. driver.runs /\ driver.handshake /\ UNCHANGED <<revokes, revoked, ForPass>>
    BY DEF AuthorizationRequest
<1>3. CASE ~(Eligible(op) /\ evaluate(authorization_request(op)))
    BY <1>2, <1>3, DeniesIsRight DEF AuthorizationRequest
<1>4. CASE Eligible(op) /\ evaluate(authorization_request(op))
  <2>1. policy.set /\ Reaches(op) /\ policy.number = serial /\ serial \in Nat /\ revoked <= serial
    BY <1>1, <1>4, EvaluatedReachesThePlatform, NetworkConstants DEF SerialIsNewest
  <2>2. CASE op.action = "secret"
    <3>1. evaluating' = [flow |-> flow, number |-> policy.number, op |-> op] /\ UNCHANGED <<driver, live, through>>
        BY <1>4, <2>2 DEF AuthorizationRequest
    <3>2. DriverIsRight(driver') /\ FlowsAreRight'
        BY <1>1, <1>2, <2>1, <2>2, <3>1 DEF FlowsAreRight, Reaches
    <3> QED
        BY <1>1, <1>2, <3>1, <3>2, DriverMoves DEF SerialIsNewest
  <2>3. CASE op.action # "secret"
    BY <1>2, <1>4, <2>1, <2>3, AllowsIsRight DEF AuthorizationRequest
  <2> QED
    BY <2>2, <2>3
<1> QED
    BY <1>3, <1>4

LEMMA SecretResolvesIsRight ==
    ASSUME NetInv, NEW found \in BOOLEAN, SecretResolves(found)
    PROVE  NetInv'
<1>1. DriverIsRight(driver) /\ FlowsAreRight
    BY NetParts
<1>2. /\ evaluating # NoRequest /\ evaluating.flow \in Flows /\ evaluating.op.action = "secret"
      /\ evaluating.number \in Nat /\ revoked <= evaluating.number /\ driver.handshake
    BY <1>1 DEF SecretResolves, FlowsAreRight
<1>3. driver.runs
    BY <1>1, <1>2 DEF DriverIsRight, NoDriver
<1>4. evaluating' = NoRequest /\ UNCHANGED <<revokes, revoked, ForPass>>
    BY DEF SecretResolves
<1>5. Reaches(evaluating.op)
    BY <1>2 DEF Reaches
<1>6. CASE found
    BY <1>2, <1>3, <1>4, <1>5, <1>6, AllowsIsRight DEF SecretResolves
<1>7. CASE ~found
    BY <1>3, <1>4, <1>7, DeniesIsRight DEF SecretResolves
<1> QED
    BY <1>6, <1>7

(* Flows end, on their own or revoked.                                     *)
LEMMA FlowsEnd ==
    ASSUME NetInv, driver.runs, NEW gone, NEW flows, flows \subseteq driver.flows,
           driver' = [driver EXCEPT !.flows = flows],
           live' = [f \in DOMAIN live \ gone |-> live[f]], through' = [f \in DOMAIN through \ gone |-> through[f]],
           DOMAIN live \ gone \subseteq flows,
           evaluating = NoRequest, UNCHANGED <<evaluating, ForPass>>,
           revoked' \in Nat, revoked' <= serial, DOMAIN live \ gone = {} \/ revoked' = revoked,
           revokes' \in Seq(0..MaxPolicies), \A i \in 1..Len(revokes') : revokes'[i] <= serial
    PROVE  NetInv'
<1>1. DriverIsRight(driver) /\ FlowsAreRight
    BY NetParts
<1>2. driver' = [runs |-> driver.runs, bindings |-> driver.bindings, handshake |-> driver.handshake, flows |-> flows,
                 denials |-> driver.denials]
    BY <1>1 DEF DriverIsRight
<1>3. DriverIsRight(driver')
    BY <1>1, <1>2 DEF DriverIsRight
<1>4. /\ DOMAIN live' = DOMAIN live \ gone /\ DOMAIN through' = DOMAIN live'
      /\ \A f \in DOMAIN live' : live'[f] = live[f] /\ through'[f] = through[f]
    BY <1>1 DEF FlowsAreRight
<1>5. \A f \in DOMAIN live' : live'[f] \in Nat /\ revoked' <= live'[f] /\ Reaches(through'[f])
    BY <1>1, <1>4 DEF FlowsAreRight
<1>6. FlowsAreRight'
    BY <1>1, <1>2, <1>4, <1>5 DEF FlowsAreRight, Reaches
<1> QED
    BY <1>2, <1>3, <1>6, DriverMoves

LEMMA FlowClosedIsRight ==
    ASSUME NetInv, NEW flow \in Flows, FlowClosed(flow)
    PROVE  NetInv'
<1>1. FlowsAreRight /\ SerialIsNewest
    BY NetParts
<1>2. /\ driver.runs /\ evaluating = NoRequest /\ UNCHANGED <<evaluating, revokes, revoked, ForPass>>
      /\ driver' = [driver EXCEPT !.flows = driver.flows \ {flow}]
      /\ live' = [f \in DOMAIN live \ {flow} |-> live[f]] /\ through' = [f \in DOMAIN through \ {flow} |-> through[f]]
    BY DEF FlowClosed
<1>3. DOMAIN live \ {flow} \subseteq driver.flows \ {flow}
    BY <1>1 DEF FlowsAreRight
<1> QED
    BY ZenonT(60), <1>1, <1>2, <1>3, FlowsEnd DEF SerialIsNewest

LEMMA RevokesIsRight ==
    ASSUME NetInv, revoke_all \/ RevokeAll
    PROVE  NetInv'
<1>1. DriverIsRight(driver) /\ FlowsAreRight /\ SerialIsNewest
    BY NetParts
<1>2. serial \in 0..MaxPolicies /\ serial \in Nat /\ serial <= serial
    BY <1>1, NetworkConstants DEF SerialIsNewest
<1>3. revokes \in Seq(0..MaxPolicies) /\ \A i \in 1..Len(revokes) : revokes[i] <= serial
    BY <1>1 DEF SerialIsNewest
<1>4. CASE revoke_all
  <2>1. /\ driver.runs /\ revokes' = Append(revokes, serial)
        /\ UNCHANGED <<driver, evaluating, live, revoked, through, ForPass>>
    BY <1>4 DEF revoke_all
  <2>2. revokes' \in Seq(0..MaxPolicies)
    BY <1>2, <1>3, <2>1
  <2>3. \A i \in 1..Len(revokes') : revokes'[i] <= serial
    <3>1. Len(revokes') = Len(revokes) + 1 /\ Len(revokes) \in Nat
        BY <1>2, <1>3, <2>1
    <3>2. \A i \in 1..Len(revokes) + 1 : Append(revokes, serial)[i] = IF i = Len(revokes) + 1 THEN serial ELSE revokes[i]
        BY <1>2, <1>3
    <3> QED
        BY <1>2, <1>3, <2>1, <3>1, <3>2
  <2>4. FlowsAreRight' /\ DriverIsRight(driver')
    BY <1>1, <2>1 DEF FlowsAreRight
  <2> QED
    BY <1>1, <2>1, <2>2, <2>3, <2>4, DriverMoves DEF SerialIsNewest
<1>5. CASE RevokeAll
  <2>1. /\ revokes # <<>> /\ evaluating = NoRequest /\ revoked' = Head(revokes) /\ revokes' = Tail(revokes)
        /\ live' = [f \in DOMAIN live \ driver.flows |-> live[f]] /\ through' = [f \in DOMAIN through \ driver.flows |-> through[f]]
        /\ driver' = [driver EXCEPT !.flows = {}] /\ UNCHANGED <<evaluating, ForPass>>
    BY <1>5 DEF RevokeAll
  <2>2. Len(revokes) \in Nat /\ Len(revokes) # 0 /\ Head(revokes) = revokes[1] /\ Tail(revokes) \in Seq(0..MaxPolicies)
    BY <1>3, <2>1
  <2>3. Len(Tail(revokes)) = Len(revokes) - 1 /\ \A i \in 1..Len(Tail(revokes)) : Tail(revokes)[i] = revokes[i + 1]
    BY <1>3, <2>1
  <2>4. \A i \in 1..Len(Tail(revokes)) : i + 1 \in 1..Len(revokes)
    BY <2>2, <2>3
  <2>5. 1 \in 1..Len(revokes)
    BY <2>2
  <2>6. revoked' \in 0..MaxPolicies /\ revoked' <= serial
    <3>1. revokes[1] \in 0..MaxPolicies /\ revokes[1] <= serial
        BY <1>3, <2>5, ElementOfSeq
    <3> QED
        BY <2>1, <2>2, <3>1
  <2>7. revokes' \in Seq(0..MaxPolicies) /\ \A i \in 1..Len(revokes') : revokes'[i] <= serial
    BY <1>3, <2>1, <2>2, <2>3, <2>4
  <2>8. DOMAIN live \ driver.flows = {} /\ driver.runs /\ {} \subseteq driver.flows
    BY <1>1, <2>1 DEF FlowsAreRight, DriverIsRight
  <2>9. revoked' \in Nat
    BY <2>6, NetworkConstants
  <2> QED
    BY <2>1, <2>6, <2>7, <2>8, <2>9, FlowsEnd
<1> QED
    BY <1>4, <1>5


-----------------------------------------------------------------------------
(* The pass.                                                               *)

LEMMA NoPassIsRight ==
    NoPass = [pc |-> "idle", manifest |-> NoPass.manifest, prepared |-> NoPass.prepared, ok |-> FALSE]
BY DEF NoPass

(* A step of the pass that leaves the driver alone.                        *)
LEMMA PassMoves ==
    ASSUME NetInv, UNCHANGED ForDriver, PassHolds', SerialIsNewest'
    PROVE  NetInv'
<1>1. DriverIsRight(driver') /\ FlowsAreRight'
    BY NetParts DEF ForDriver, FlowsAreRight
<1> QED
    BY <1>1 DEF NetInv, DriverIsRight, LogIsRight

LEMMA RemovesIsRight ==
    ASSUME NetInv, Removes, UNCHANGED serial, netPass' = NoPass, UNCHANGED <<revokes, revoked>> \/ StopsDriver
    PROVE  SerialIsNewest' /\ PassHolds'
<1>1. policy' = NoPolicy /\ bindings' = <<>>
    BY DEF Removes
<1>2. 0 \in 0..MaxPolicies
    BY NetworkConstants
<1>3. SerialIsNewest'
    BY <1>1, <1>2, NetParts, NoRevokes DEF SerialIsNewest, NoPolicy, StopsDriver
<1>4. DOMAIN bindings' \subseteq DOMAIN policy'.secrets
    BY <1>1, NoDriverIsRight DEF NoPolicy
<1>5. netPass'.pc = "idle" /\ netPass'.ok = FALSE
    BY DEF NoPass
<1>6. PassHolds'
    BY <1>4, <1>5, NoPassIsRight DEF PassHolds, PassStages
<1> QED
    BY <1>3, <1>6

LEMMA ReadsEnvironmentIsRight ==
    ASSUME NetInv, NEW manifest, NEW present, ReadsEnvironment(manifest, present)
    PROVE  NetInv'
<1>1. UNCHANGED <<serial, ForDriver>>
    BY DEF ReadsEnvironment
<1>2. CASE Removes /\ netPass' = NoPass
    BY <1>1, <1>2, RemovesIsRight, PassMoves DEF ForDriver
<1>3. CASE ~(Removes /\ netPass' = NoPass)
  <2> DEFINE prepared == [env \in DOMAIN manifest.secrets \cap present |-> <<"agent", env>>]
  <2>1. /\ netPass' = [pc |-> "stores", manifest |-> manifest, ok |-> FALSE, prepared |-> prepared]
        /\ UNCHANGED <<policy, bindings>> /\ serial < MaxPolicies
    BY <1>3 DEF ReadsEnvironment
  <2>2. DOMAIN prepared \subseteq DOMAIN manifest.secrets
    OBVIOUS
  <2> HIDE DEF prepared
  <2>3. PassHolds'
    BY <1>1, <2>1, <2>2, NetParts DEF PassHolds, PassStages
  <2>4. SerialIsNewest'
    BY <1>1, <2>1, NetParts DEF SerialIsNewest, ForDriver
  <2> QED
    BY <1>1, <2>3, <2>4, PassMoves
<1> QED
    BY <1>2, <1>3

(* The pass goes on, or ends, and changes nothing else.                    *)
LEMMA PassGoesOn ==
    ASSUME NetInv, UNCHANGED <<policy, bindings, serial, ForDriver>>, PassHolds'
    PROVE  NetInv'
<1>1. SerialIsNewest'
    BY NetParts DEF SerialIsNewest, ForDriver
<1> QED
    BY <1>1, PassMoves

LEMMA SecretsArePrepared ==
    ASSUME NetInv, ReplacesSecrets \/ (\E login : PreparesLogin(login)) \/ PrepareFails
    PROVE  NetInv'
<1>1. PassHolds
    BY NetParts
<1>2. CASE ReplacesSecrets
  <2>1. netPass' = [netPass EXCEPT !.pc = "logins"] /\ UNCHANGED <<policy, bindings, serial, ForDriver>> /\ netPass.pc = "stores"
    BY <1>2 DEF ReplacesSecrets
  <2>2. netPass' = [pc |-> "logins", manifest |-> netPass.manifest, prepared |-> netPass.prepared, ok |-> netPass.ok]
    BY <1>1, <2>1 DEF PassHolds
  <2>3. PassHolds'
    BY <1>1, <2>1, <2>2 DEF PassHolds, PassStages, ForDriver
  <2> QED
    BY <2>1, <2>3, PassGoesOn
<1>3. CASE \E login : PreparesLogin(login)
  <2>1. PICK login : PreparesLogin(login)
    BY <1>3
  <2> DEFINE added == [env \in DOMAIN netPass.prepared \cup {Login} |->
                          IF env = Login THEN <<"login", login>> ELSE netPass.prepared[env]]
             prepared == IF login = "none" THEN netPass.prepared ELSE added
  <2>2. /\ netPass' = [netPass EXCEPT !.pc = "sets", !.prepared = prepared]
        /\ UNCHANGED <<policy, bindings, serial, ForDriver>> /\ netPass.pc = "logins"
    BY <2>1 DEF PreparesLogin
  <2>3. DOMAIN added = DOMAIN netPass.prepared \cup {Login}
    OBVIOUS
  <2> HIDE DEF added
  <2>4. DOMAIN prepared \subseteq DOMAIN netPass.prepared \cup {Login}
    BY <2>3
  <2> HIDE DEF prepared
  <2>5. netPass' = [pc |-> "sets", manifest |-> netPass.manifest, prepared |-> prepared, ok |-> netPass.ok]
    BY <1>1, <2>2 DEF PassHolds
  <2>6. PassHolds'
    BY <1>1, <2>2, <2>4, <2>5 DEF PassHolds, PassStages, ForDriver
  <2> QED
    BY <2>2, <2>6, PassGoesOn
<1>4. CASE PrepareFails
    BY <1>4, RemovesIsRight, PassMoves DEF PrepareFails, ForDriver
<1> QED
    BY <1>2, <1>3, <1>4

LEMMA SetsPolicyIsRight ==
    ASSUME NetInv, SetsPolicy
    PROVE  NetInv'
<1>1. PassHolds /\ SerialIsNewest
    BY NetParts
<1> DEFINE managed == {Login} \cap DOMAIN netPass.prepared
           secrets == [env \in DOMAIN netPass.manifest.secrets \cup managed |->
                          IF env = Login THEN LoginHosts ELSE netPass.manifest.secrets[env].hosts]
<1>2. /\ serial' = serial + 1 /\ bindings' = netPass.prepared /\ netPass' = [netPass EXCEPT !.pc = "ensures"]
      /\ policy' = [set |-> TRUE, deny |-> netPass.manifest.deny, number |-> serial + 1, secrets |-> secrets]
      /\ netPass.pc = "sets" /\ UNCHANGED ForDriver
    BY DEF SetsPolicy, PolicyOf
<1>3. DOMAIN secrets = DOMAIN netPass.manifest.secrets \cup managed
    OBVIOUS
<1> HIDE DEF secrets
<1>4. DOMAIN netPass.prepared \subseteq DOMAIN secrets
    BY <1>1, <1>2, <1>3 DEF PassHolds
<1>5. serial \in Nat /\ serial + 1 \in 0..MaxPolicies /\ serial <= serial + 1 /\ revoked \in Nat /\ revoked <= serial + 1
  <2>1. serial < MaxPolicies /\ serial \in 0..MaxPolicies /\ revoked \in Nat /\ revoked <= serial
    BY <1>1, <1>2 DEF PassHolds, SerialIsNewest
  <2> QED
    BY <2>1, NetworkConstants
<1>6. \A i \in 1..Len(revokes) : revokes[i] <= serial + 1
  <2>1. SUFFICES ASSUME NEW i \in 1..Len(revokes) PROVE revokes[i] <= serial + 1
    OBVIOUS
  <2>2. revokes[i] \in 0..MaxPolicies
    BY <1>1, <2>1, ElementOfSeq DEF SerialIsNewest
  <2>3. revokes[i] <= serial
    BY <1>1, <2>1 DEF SerialIsNewest
  <2> QED
    BY <1>5, <2>2, <2>3, NetworkConstants
<1>7. SerialIsNewest'
    BY <1>1, <1>2, <1>5, <1>6 DEF SerialIsNewest, ForDriver
<1>8. netPass' = [pc |-> "ensures", manifest |-> netPass.manifest, prepared |-> netPass.prepared, ok |-> netPass.ok]
    BY <1>1, <1>2 DEF PassHolds
<1>9. PassHolds'
    BY <1>1, <1>2, <1>4, <1>8 DEF PassHolds, PassStages
<1> QED
    BY <1>2, <1>7, <1>9, PassMoves

(* A driver that runs applies the bindings it was started with.            *)
LEMMA EnsuresIsRight ==
    ASSUME NetInv, Ensures
    PROVE  NetInv'
<1>1. DriverIsRight(driver) /\ FlowsAreRight /\ SerialIsNewest /\ PassHolds
    BY NetParts
<1>2. /\ netPass.pc \in {"ensures", "ensures again"} /\ UNCHANGED <<policy, bindings, serial>> /\ StartsDriver
      /\ netPass' = IF netPass.pc = "ensures" THEN [netPass EXCEPT !.pc = "compares"] ELSE [NoPass EXCEPT !.ok = TRUE]
    BY DEF Ensures
<1>3. driver'.runs /\ revokes' = revokes /\ revoked' = revoked /\ (~driver.runs => driver'.bindings = bindings)
    BY <1>2 DEF StartsDriver, ForDriver, NoDriver
<1>4. DriverIsRight(driver') /\ FlowsAreRight'
  <2>1. CASE driver.runs
    BY <1>1, <1>2, <2>1 DEF StartsDriver, ForDriver, FlowsAreRight
  <2>2. CASE ~driver.runs
    <3>1. /\ driver' = [NoDriver EXCEPT !.runs = TRUE, !.bindings = bindings]
          /\ UNCHANGED <<evaluating, revokes, live, revoked, through>>
        BY <1>2, <2>2 DEF StartsDriver
    <3>2. driver' = [runs |-> TRUE, bindings |-> bindings, handshake |-> FALSE, flows |-> {}, denials |-> NoDenials]
        BY <3>1 DEF NoDriver
    <3>3. LogIsRight(NoDenials)
        BY NoDriverIsRight DEF DriverIsRight, NoDriver
    <3>4. DriverIsRight(driver')
        BY <3>2, <3>3 DEF DriverIsRight
    <3>5. driver = NoDriver /\ driver.flows = {} /\ ~driver.handshake
        BY <1>1, <2>2 DEF DriverIsRight, NoDriver
    <3>6. FlowsAreRight'
        BY <1>1, <3>1, <3>2, <3>5 DEF FlowsAreRight
    <3> QED
        BY <3>4, <3>6
  <2> QED
    BY <2>1, <2>2
<1>5. SerialIsNewest'
    BY <1>1, <1>2, <1>3 DEF SerialIsNewest
<1>6. PassHolds'
  <2>1. CASE netPass.pc = "ensures"
    <3>1. netPass' = [pc |-> "compares", manifest |-> netPass.manifest, prepared |-> netPass.prepared, ok |-> netPass.ok]
        BY <1>1, <1>2, <2>1 DEF PassHolds
    <3> QED
        BY <1>1, <1>2, <2>1, <3>1 DEF PassHolds, PassStages
  <2>2. CASE netPass.pc = "ensures again"
    <3>1. netPass' = [pc |-> "idle", manifest |-> NoPass.manifest, prepared |-> NoPass.prepared, ok |-> TRUE]
        BY <1>2, <2>2 DEF NoPass
    <3>2. driver'.bindings = bindings
        BY <1>1, <1>3, <2>2 DEF PassHolds
    <3>3. netPass'.pc = "idle" /\ netPass'.ok = TRUE /\ netPass'.manifest = NoPass.manifest /\ netPass'.prepared = NoPass.prepared
        BY <3>1
    <3>4. netPass' = [pc |-> netPass'.pc, manifest |-> netPass'.manifest, prepared |-> netPass'.prepared, ok |-> netPass'.ok]
        BY <3>1, <3>3
    <3> QED
        BY <1>1, <1>2, <3>2, <3>3, <3>4 DEF PassHolds, PassStages
  <2> QED
    BY <1>2, <2>1, <2>2
<1> QED
    BY <1>4, <1>5, <1>6 DEF NetInv, DriverIsRight, LogIsRight

LEMMA ComparesIsRight ==
    ASSUME NetInv, ComparesBindings \/ EnsureFails
    PROVE  NetInv'
<1>1. PassHolds
    BY NetParts
<1>2. UNCHANGED <<policy, bindings, serial, ForDriver>>
    BY DEF ComparesBindings, EnsureFails
<1>3. \/ netPass' = NoPass
      \/ netPass' = [netPass EXCEPT !.pc = "stops"] /\ netPass.pc = "compares"
      \/ netPass' = [NoPass EXCEPT !.ok = TRUE] /\ ~has_stale_secret_bindings
    BY DEF ComparesBindings, EnsureFails
<1>4. \/ netPass' = [pc |-> "idle", manifest |-> NoPass.manifest, prepared |-> NoPass.prepared, ok |-> FALSE]
      \/ /\ netPass' = [pc |-> "stops", manifest |-> netPass.manifest, prepared |-> netPass.prepared, ok |-> netPass.ok]
         /\ netPass.pc = "compares"
      \/ /\ netPass' = [pc |-> "idle", manifest |-> NoPass.manifest, prepared |-> NoPass.prepared, ok |-> TRUE]
         /\ driver.runs => driver.bindings = bindings
    BY <1>1, <1>3 DEF PassHolds, NoPass, has_stale_secret_bindings
<1>5. netPass' = [pc |-> netPass'.pc, manifest |-> netPass'.manifest, prepared |-> netPass'.prepared, ok |-> netPass'.ok]
    BY <1>4
<1>6. /\ netPass'.pc \in {"idle", "stops"} /\ netPass'.ok \in BOOLEAN
      /\ netPass'.ok => netPass'.pc = "idle" /\ (driver.runs => driver.bindings = bindings)
  <2>1. CASE netPass' = [pc |-> "idle", manifest |-> NoPass.manifest, prepared |-> NoPass.prepared, ok |-> FALSE]
    <3>1. netPass'.pc = "idle" /\ netPass'.ok = FALSE
        BY <2>1
    <3> QED
        BY <3>1
  <2>2. CASE /\ netPass' = [pc |-> "stops", manifest |-> netPass.manifest, prepared |-> netPass.prepared, ok |-> netPass.ok]
             /\ netPass.pc = "compares"
    <3>1. netPass'.pc = "stops" /\ netPass'.ok = netPass.ok /\ netPass.ok = FALSE
        BY <1>1, <2>2 DEF PassHolds
    <3> QED
        BY <3>1
  <2>3. CASE /\ netPass' = [pc |-> "idle", manifest |-> NoPass.manifest, prepared |-> NoPass.prepared, ok |-> TRUE]
             /\ driver.runs => driver.bindings = bindings
    <3>1. netPass'.pc = "idle" /\ netPass'.ok = TRUE
        BY <2>3
    <3> QED
        BY <2>3, <3>1
  <2> QED
    BY <1>4, <2>1, <2>2, <2>3
<1>7. PassHolds'
    BY <1>1, <1>2, <1>5, <1>6 DEF PassHolds, PassStages, ForDriver
<1> QED
    BY <1>2, <1>7, PassGoesOn

LEMMA NetworkStops ==
    ASSUME NetInv, RestartsNetwork \/ EndsSandbox \/ DropsNetwork \/ NetRestart
    PROVE  NetInv'
<1>1. DriverIsRight(driver) /\ SerialIsNewest /\ PassHolds
    BY NetParts
<1>2. StopsDriver
    BY DEF RestartsNetwork, EndsSandbox, DropsNetwork, NetRestart
<1>3. DriverIsRight(driver') /\ FlowsAreRight' /\ ~driver'.runs /\ revokes' = <<>> /\ revoked' = revoked
    BY <1>2, StopsDriverIsRight DEF StopsDriver, NoDriver
<1>4. SerialIsNewest' /\ PassHolds'
  <2>1. CASE DropsNetwork \/ NetRestart
    BY <1>2, <2>1, RemovesIsRight DEF DropsNetwork, NetRestart
  <2>2. CASE RestartsNetwork
    <3>1. netPass' = [netPass EXCEPT !.pc = "ensures again"] /\ UNCHANGED <<policy, bindings, serial>> /\ netPass.pc = "stops"
        BY <2>2 DEF RestartsNetwork
    <3>2. netPass' = [pc |-> "ensures again", manifest |-> netPass.manifest, prepared |-> netPass.prepared, ok |-> netPass.ok]
        BY <1>1, <3>1 DEF PassHolds
    <3> QED
        BY <1>1, <1>3, <3>1, <3>2, NoRevokes DEF SerialIsNewest, PassHolds, PassStages
  <2>3. CASE EndsSandbox
    <3>1. UNCHANGED <<policy, bindings, serial, netPass>>
        BY <2>3 DEF EndsSandbox, ForPass
    <3> QED
        BY <1>1, <1>3, <3>1, NoRevokes DEF SerialIsNewest, PassHolds
  <2> QED
    BY <2>1, <2>2, <2>3
<1> QED
    BY <1>3, <1>4 DEF NetInv, DriverIsRight, LogIsRight

-----------------------------------------------------------------------------
(* What is prepared is what is applied.                                    *)

LEMMA NetStarts ==
    ASSUME NetInit
    PROVE  NetInv
<1>1. policy = NoPolicy /\ bindings = <<>> /\ driver = NoDriver /\ evaluating = NoRequest /\ revokes = <<>> /\ live = <<>>
      /\ netPass = NoPass /\ serial = 0 /\ revoked = 0 /\ through = <<>>
    BY DEF NetInit
<1>2. NoDriver.flows = {} /\ ~NoDriver.runs /\ 0 \in 0..MaxPolicies
    BY NetworkConstants DEF NoDriver
<1>3. FlowsAreRight
    BY <1>1, <1>2, NoDriverIsRight DEF FlowsAreRight
<1>4. SerialIsNewest
    BY <1>1, <1>2, NoRevokes DEF SerialIsNewest, NoPolicy
<1>5. PassHolds
    BY <1>1, NoPassIsRight, NoDriverIsRight DEF PassHolds, NoPass, PassStages
<1> QED
    BY <1>1, <1>3, <1>4, <1>5, NoDriverIsRight DEF NetInv

LEMMA NetRests ==
    ASSUME NetInv, UNCHANGED netVars
    PROVE  NetInv'
BY DEF netVars, NetInv, DriverIsRight, LogIsRight, FlowsAreRight, SerialIsNewest, PassHolds

LEMMA NetSteps ==
    ASSUME NetInv, [NetNext]_netVars
    PROVE  NetInv'
<1>1. CASE NetNext
    BY <1>1, ReadsEnvironmentIsRight, SecretsArePrepared, SetsPolicyIsRight, EnsuresIsRight, ComparesIsRight, NetworkStops,
       DriverEndsIsRight, HelloIsRight, AuthorizationIsRight, FlowClosedIsRight, SecretResolvesIsRight, RevokesIsRight
    DEF NetNext
<1> QED
    BY <1>1, NetRests

LEMMA NetInvIsAsPrepared ==
    ASSUME NetInv
    PROVE  NetworkIsAsPrepared
<1>1. DriverIsRight(driver) /\ FlowsAreRight /\ SerialIsNewest /\ PassHolds
    BY NetParts
<1>2. LogIsRight(driver.denials)
    BY <1>1 DEF DriverIsRight
<1>3. evaluating.flow \in Flows \cup {0}
    BY <1>1 DEF FlowsAreRight, NoRequest
<1>4. NetTypeOK
    BY <1>1, <1>2, <1>3 DEF NetTypeOK, DriverIsRight, LogIsRight, FlowsAreRight, SerialIsNewest, PassHolds, PassStages
<1>5. AppliesWhatWasPrepared /\ BoundIsCovered
    BY <1>1 DEF PassHolds, AppliesWhatWasPrepared, BoundIsCovered
<1>6. HostIsOnlyThePlatform
    BY <1>1 DEF FlowsAreRight, Reaches, HostIsOnlyThePlatform
<1>7. LiveIsRevocable
    BY <1>1 DEF FlowsAreRight, LiveIsRevocable
<1>8. OnlyLaterFlowsAreLive
  <2>1. \A flow \in DOMAIN live : live[flow] \in Nat /\ revoked \in Nat /\ revoked <= live[flow]
    BY <1>1 DEF FlowsAreRight, SerialIsNewest
  <2> QED
    BY <2>1 DEF OnlyLaterFlowsAreLive
<1>9. DenialsAreSummarised
  <2>1. /\ driver.denials.total \in Nat /\ driver.denials.lines \in Nat /\ driver.denials.written \in Nat
        /\ driver.denials.lines <= MAX_LINES
        /\ driver.denials.written <= driver.denials.lines + driver.denials.total \div SUMMARY_EVERY
    BY <1>2 DEF LogIsRight
  <2>2. driver.denials.total \div SUMMARY_EVERY \in Nat
    BY <2>1, NetworkConstants
  <2> QED
    BY <2>1, <2>2, NetworkConstants DEF DenialsAreSummarised
<1> QED
    BY <1>4, <1>5, <1>6, <1>7, <1>8, <1>9 DEF NetworkIsAsPrepared

(* However passes, the driver's task, its requests and revocations          *)
(* interleave, fail and restart: after a pass that succeeded the driver     *)
(* hands out what it prepared, what is bound has its entry in the policy,   *)
(* the host is reached for the platform only, every flow can be revoked, a  *)
(* revocation leaves none of an older policy, and the log stays bounded     *)
(* (network_backend.rs, agent_policy.rs, preparation.rs).                   *)
THEOREM NetworkStaysAsPrepared == NetSpec => []NetworkIsAsPrepared
<1>1. NetInit => NetInv
    BY NetStarts
<1>2. NetInv /\ [NetNext]_netVars => NetInv'
    BY NetSteps
<1>3. NetInv => NetworkIsAsPrepared
    BY NetInvIsAsPrepared
<1> QED
    BY <1>1, <1>2, <1>3, PTL DEF NetSpec
-----------------------------------------------------------------------------
(* Executions.                                                             *)

CallStages == {"idle", "converging", "opening", "starting", "started", "attached", "streaming", "killing", "done"}
LastEvents == {"exited", "failed", "closed"}
ExecEvents == {"started", "output"} \cup LastEvents
Calls == [kind : ExecKinds, at : CallStages, target : 0..MaxBoxIds, got : 0..MaxOutput,
          ended : {"none", "refused", "failed", "late", "exited", "detached", "overdue", "dropped"},
          kill : {"none", "sent", "unanswered", "not found"},
          env : {"none", "call", "agent", "guest copy", "runtime"}]
Processes == [box : 0..MaxBoxIds, said : 0..MaxOutput, exited : BOOLEAN, events : Seq(ExecEvents)]

ExecIsTyped ==
    /\ sandbox \in [id : 1..MaxBoxIds, up : BOOLEAN, wanted : BOOLEAN, ready : BOOLEAN]
    /\ calls \in [ExecCalls -> Calls] /\ process \in [ExecCalls -> Processes]
    /\ ca \in CaChoices

(* What is under way: the start, the output the caller has yet to get, and *)
(* the end of a process that no longer runs.                               *)
EventsFollow(p, got) ==
    \E first, last \in {0, 1} :
        /\ got <= p.said /\ Len(p.events) = first + (p.said - got) + last
        /\ first = 1 => p.events[1] = "started"
        /\ \A i \in first + 1 .. Len(p.events) - last : p.events[i] = "output"
        /\ last = 1 => /\ p.box = 0 /\ p.events[Len(p.events)] \in LastEvents
                       /\ p.events[Len(p.events)] = "exited" => p.exited

EnvIsRight(env) ==
    env # "none" => (ca.call => env = "call") /\ (ca.intercepts => env # "runtime")

CallIsRight(k, p) ==
    /\ k.at \in {"idle", "converging", "opening", "starting"} => p = NoProcess /\ k.got = 0
    /\ k.at \in {"started", "attached", "streaming", "killing"} => EventsFollow(p, k.got)
    /\ k.at # "done" => k.ended = "none"
    /\ k.ended = "exited" => p.exited /\ k.got = p.said
    /\ p.exited => p.box = 0
    /\ k.at = "killing" => k.kind \in {"probe", "lifecycle"}
    /\ k.kind = "lifecycle" /\ k.ended = "overdue" /\ p.box # 0 => k.kill = "unanswered"
    /\ EnvIsRight(k.env)

(* A process runs in the sandbox its caller resolved, which is up.         *)
RunsWhereAsked(k, p) == p.box # 0 => sandbox.up /\ p.box = sandbox.id /\ p.box = k.target

Holds(k) == k.at = "streaming" \/ (k.at = "killing" /\ k.kind = "lifecycle")

ExecInv ==
    /\ ExecIsTyped
    /\ \A c \in ExecCalls : CallIsRight(calls[c], process[c]) /\ RunsWhereAsked(calls[c], process[c])
    /\ controls = {c \in ExecCalls : Holds(calls[c])}

LEMMA ExecTypes ==
    ASSUME NEW p \in Processes
    PROVE  /\ p.box \in 0..MaxBoxIds /\ p.said \in 0..MaxOutput /\ p.exited \in BOOLEAN /\ p.events \in Seq(ExecEvents)
           /\ p.said \in Nat /\ Len(p.events) \in Nat
BY ExecConstants DEF Processes

(* A process that runs prints, and ends but once.                          *)
LEMMA EventAppended ==
    ASSUME NEW p \in Processes, NEW q \in Processes, NEW got \in Nat, EventsFollow(p, got), p.box # 0,
           q.events = Append(p.events, "output"), q.said = p.said + 1
    PROVE  EventsFollow(q, got)
<1>1. PICK first \in {0, 1}, last \in {0, 1} :
        /\ got <= p.said /\ Len(p.events) = first + (p.said - got) + last
        /\ first = 1 => p.events[1] = "started"
        /\ \A i \in first + 1 .. Len(p.events) - last : p.events[i] = "output"
        /\ last = 1 => /\ p.box = 0 /\ p.events[Len(p.events)] \in LastEvents
                       /\ p.events[Len(p.events)] = "exited" => p.exited
    BY DEF EventsFollow
<1>2. last = 0 /\ p.said \in Nat /\ Len(p.events) \in Nat /\ p.events \in Seq(ExecEvents) /\ "output" \in ExecEvents
    BY <1>1, ExecTypes DEF ExecEvents
<1>3. Len(q.events) = Len(p.events) + 1
      /\ \A i \in 1..Len(p.events) + 1 : q.events[i] = IF i = Len(p.events) + 1 THEN "output" ELSE p.events[i]
    BY <1>2, AppendProperties
<1>4. got <= q.said /\ Len(q.events) = first + (q.said - got) + 0
    BY <1>1, <1>2, <1>3
<1>5. first = 1 => q.events[1] = "started"
    BY <1>1, <1>2, <1>3
<1>6. \A i \in first + 1 .. Len(q.events) - 0 : q.events[i] = "output"
    BY <1>1, <1>2, <1>3
<1> QED
    BY <1>4, <1>5, <1>6 DEF EventsFollow

LEMMA EndAppended ==
    ASSUME NEW p \in Processes, NEW q \in Processes, NEW got \in Nat, EventsFollow(p, got), p.box # 0,
           NEW end \in LastEvents, q.events = Append(p.events, end), q.said = p.said, q.box = 0, end = "exited" => q.exited
    PROVE  EventsFollow(q, got)
<1>1. PICK first \in {0, 1}, last \in {0, 1} :
        /\ got <= p.said /\ Len(p.events) = first + (p.said - got) + last
        /\ first = 1 => p.events[1] = "started"
        /\ \A i \in first + 1 .. Len(p.events) - last : p.events[i] = "output"
        /\ last = 1 => /\ p.box = 0 /\ p.events[Len(p.events)] \in LastEvents
                       /\ p.events[Len(p.events)] = "exited" => p.exited
    BY DEF EventsFollow
<1>2. last = 0 /\ p.said \in Nat /\ Len(p.events) \in Nat /\ p.events \in Seq(ExecEvents) /\ end \in ExecEvents
    BY <1>1, ExecTypes DEF ExecEvents
<1>3. Len(q.events) = Len(p.events) + 1
      /\ \A i \in 1..Len(p.events) + 1 : q.events[i] = IF i = Len(p.events) + 1 THEN end ELSE p.events[i]
    BY <1>2, AppendProperties
<1>4. got <= q.said /\ Len(q.events) = first + (q.said - got) + 1
    BY <1>1, <1>2, <1>3
<1>5. first = 1 => q.events[1] = "started"
    BY <1>1, <1>2, <1>3
<1>6. \A i \in first + 1 .. Len(q.events) - 1 : q.events[i] = "output"
    BY <1>1, <1>2, <1>3
<1>7. q.events[Len(q.events)] = end
    BY <1>2, <1>3
<1> QED
    BY <1>4, <1>5, <1>6, <1>7 DEF EventsFollow

(* The caller takes the next event: the start, some output, or the end,    *)
(* and then it has all of the output.                                      *)
LEMMA EventTaken ==
    ASSUME NEW p \in Processes, NEW q \in Processes, NEW got \in Nat, EventsFollow(p, got), p.events # <<>>,
           q = [p EXCEPT !.events = Tail(p.events)]
    PROVE  /\ Head(p.events) \in {"started", "output"} \cup LastEvents
           /\ Head(p.events) = "started" => EventsFollow(q, got)
           /\ Head(p.events) = "output" => EventsFollow(q, got + 1) /\ got + 1 <= p.said
           /\ Head(p.events) = "exited" => got = p.said /\ p.exited
<1>1. PICK first \in {0, 1}, last \in {0, 1} :
        /\ got <= p.said /\ Len(p.events) = first + (p.said - got) + last
        /\ first = 1 => p.events[1] = "started"
        /\ \A i \in first + 1 .. Len(p.events) - last : p.events[i] = "output"
        /\ last = 1 => /\ p.box = 0 /\ p.events[Len(p.events)] \in LastEvents
                       /\ p.events[Len(p.events)] = "exited" => p.exited
    BY DEF EventsFollow
<1>2. p.said \in Nat /\ Len(p.events) \in Nat /\ p.events \in Seq(ExecEvents) /\ Len(p.events) # 0
    BY ExecTypes, EmptySeq
<1>3. Head(p.events) = p.events[1] /\ Tail(p.events) \in Seq(ExecEvents) /\ Len(Tail(p.events)) = Len(p.events) - 1
      /\ \A i \in 1..Len(Tail(p.events)) : Tail(p.events)[i] = p.events[i + 1]
    BY <1>2, HeadTailProperties
<1>4. q.events = Tail(p.events) /\ q.said = p.said /\ q.box = p.box /\ q.exited = p.exited
    BY DEF Processes
<1>8. PICK none \in {0, 1} : none = 0
    OBVIOUS
<1>5. CASE first = 1
  <2>1. Head(p.events) = "started"
    BY <1>1, <1>3, <1>5
  <2>2. got <= q.said /\ Len(q.events) = none + (q.said - got) + last
    BY <1>1, <1>2, <1>3, <1>4, <1>5, <1>8
  <2>3. \A i \in none + 1 .. Len(q.events) - last : q.events[i] = "output"
    <3>1. SUFFICES ASSUME NEW i \in none + 1 .. Len(q.events) - last PROVE q.events[i] = "output"
        OBVIOUS
    <3>2. i \in 1..Len(Tail(p.events)) /\ i + 1 \in first + 1 .. Len(p.events) - last
        BY <1>2, <1>3, <1>4, <1>5, <1>8, <3>1
    <3> QED
        BY <1>1, <1>3, <1>4, <3>2
  <2>4. last = 1 => /\ q.box = 0 /\ q.events[Len(q.events)] \in LastEvents
                    /\ q.events[Len(q.events)] = "exited" => q.exited
    <3>1. SUFFICES ASSUME last = 1
                   PROVE  /\ q.box = 0 /\ q.events[Len(q.events)] \in LastEvents
                          /\ q.events[Len(q.events)] = "exited" => q.exited
        OBVIOUS
    <3>2. Len(q.events) \in 1..Len(Tail(p.events)) /\ Len(q.events) + 1 = Len(p.events)
      <4>1. Len(p.events) = 1 + (p.said - got) + 1 /\ got <= p.said /\ Len(q.events) = Len(p.events) - 1
        BY <1>1, <1>3, <1>4, <1>5, <3>1
      <4>2. Len(q.events) = Len(Tail(p.events))
        BY <1>4
      <4> QED
        BY <1>2, <4>1, <4>2
    <3>3. q.events[Len(q.events)] = p.events[Len(p.events)]
        BY <1>3, <1>4, <3>2
    <3> QED
        BY <1>1, <1>4, <3>1, <3>3
  <2>5. EventsFollow(q, got)
    <3>1. none = 1 => q.events[1] = "started"
        BY <1>8
    <3>2. \E l \in {0, 1} :
            /\ got <= q.said /\ Len(q.events) = none + (q.said - got) + l
            /\ none = 1 => q.events[1] = "started"
            /\ \A i \in none + 1 .. Len(q.events) - l : q.events[i] = "output"
            /\ l = 1 => /\ q.box = 0 /\ q.events[Len(q.events)] \in LastEvents
                        /\ q.events[Len(q.events)] = "exited" => q.exited
      <4> WITNESS last \in {0, 1}
      <4> QED
        BY <2>2, <2>3, <2>4, <3>1
    <3> QED
        BY <1>8, <3>2 DEF EventsFollow
  <2> QED
    BY <2>1, <2>5
<1>6. CASE first = 0 /\ got < p.said
  <2>1. 1 \in first + 1 .. Len(p.events) - last
    BY <1>1, <1>2, <1>6
  <2>2. Head(p.events) = "output"
    BY <1>1, <1>3, <2>1
  <2>3. got + 1 <= q.said /\ Len(q.events) = none + (q.said - (got + 1)) + last /\ got + 1 <= p.said
    BY <1>1, <1>2, <1>3, <1>4, <1>6, <1>8
  <2>4. \A i \in none + 1 .. Len(q.events) - last : q.events[i] = "output"
    <3>1. SUFFICES ASSUME NEW i \in none + 1 .. Len(q.events) - last PROVE q.events[i] = "output"
        OBVIOUS
    <3>2. i \in 1..Len(Tail(p.events)) /\ i + 1 \in first + 1 .. Len(p.events) - last
        BY <1>2, <1>3, <1>4, <1>6, <1>8, <3>1
    <3> QED
        BY <1>1, <1>3, <1>4, <3>2
  <2>5. last = 1 => /\ q.box = 0 /\ q.events[Len(q.events)] \in LastEvents
                    /\ q.events[Len(q.events)] = "exited" => q.exited
    <3>1. SUFFICES ASSUME last = 1
                   PROVE  /\ q.box = 0 /\ q.events[Len(q.events)] \in LastEvents
                          /\ q.events[Len(q.events)] = "exited" => q.exited
        OBVIOUS
    <3>2. Len(q.events) \in 1..Len(Tail(p.events)) /\ Len(q.events) + 1 = Len(p.events)
        BY <1>1, <1>2, <1>3, <1>4, <1>6, <3>1
    <3>3. q.events[Len(q.events)] = p.events[Len(p.events)]
        BY <1>3, <1>4, <3>2
    <3> QED
        BY <1>1, <1>4, <3>1, <3>3
  <2>6. EventsFollow(q, got + 1)
    <3>1. none = 1 => q.events[1] = "started"
        BY <1>8
    <3>2. \E l \in {0, 1} :
            /\ got + 1 <= q.said /\ Len(q.events) = none + (q.said - (got + 1)) + l
            /\ none = 1 => q.events[1] = "started"
            /\ \A i \in none + 1 .. Len(q.events) - l : q.events[i] = "output"
            /\ l = 1 => /\ q.box = 0 /\ q.events[Len(q.events)] \in LastEvents
                        /\ q.events[Len(q.events)] = "exited" => q.exited
      <4> WITNESS last \in {0, 1}
      <4> QED
        BY <2>3, <2>4, <2>5, <3>1
    <3> QED
        BY <1>8, <3>2 DEF EventsFollow
  <2> QED
    BY <2>2, <2>3, <2>6
<1>7. CASE first = 0 /\ got = p.said
  <2>1. last = 1 /\ Len(p.events) = 1
    BY <1>1, <1>2, <1>7
  <2>2. Head(p.events) \in LastEvents /\ (Head(p.events) = "exited" => p.exited)
    BY <1>1, <1>3, <2>1
  <2> QED
    BY <1>7, <2>2 DEF LastEvents
<1> QED
  <2>1. got < p.said \/ got = p.said
    BY <1>1, <1>2
  <2> QED
    BY <1>5, <1>6, <1>7, <2>1

-----------------------------------------------------------------------------
(* One call moves.                                                         *)

LEMMA ExecParts ==
    ASSUME ExecInv, NEW c \in ExecCalls
    PROVE  /\ ExecIsTyped /\ calls[c] \in Calls /\ process[c] \in Processes
           /\ CallIsRight(calls[c], process[c]) /\ RunsWhereAsked(calls[c], process[c])
           /\ calls[c].got \in Nat /\ (c \in controls <=> Holds(calls[c]))
<1>1. ExecIsTyped /\ calls[c] \in Calls /\ process[c] \in Processes
    BY DEF ExecInv, ExecIsTyped
<1>2. calls[c].got \in Nat
  <2>1. calls[c].got \in 0..MaxOutput
    BY <1>1 DEF Calls
  <2> QED
    BY <2>1, ExecConstants
<1> QED
    BY <1>1, <1>2 DEF ExecInv

LEMMA OneCallMoves ==
    ASSUME ExecInv, NEW c \in ExecCalls, NEW k \in Calls, NEW p \in Processes,
           calls' = [calls EXCEPT ![c] = k], process' = [process EXCEPT ![c] = p], UNCHANGED <<sandbox, ca>>,
           CallIsRight(k, p), RunsWhereAsked(k, p),
           controls' = IF Holds(k) THEN controls \cup {c} ELSE controls \ {c}
    PROVE  ExecInv'
<1>1. ExecIsTyped
    BY DEF ExecInv
<1>2. /\ calls' \in [ExecCalls -> Calls] /\ process' \in [ExecCalls -> Processes]
      /\ \A d \in ExecCalls : calls'[d] = IF d = c THEN k ELSE calls[d]
      /\ \A d \in ExecCalls : process'[d] = IF d = c THEN p ELSE process[d]
    BY <1>1 DEF ExecIsTyped
<1>3. ExecIsTyped'
    BY <1>1, <1>2 DEF ExecIsTyped
<1>4. \A d \in ExecCalls : CallIsRight(calls'[d], process'[d]) /\ RunsWhereAsked(calls'[d], process'[d])
    BY <1>2 DEF ExecInv
<1>5. \A d \in ExecCalls : CallIsRight(calls[d], process[d])' /\ RunsWhereAsked(calls[d], process[d])'
    BY <1>4 DEF CallIsRight, RunsWhereAsked, EventsFollow, EnvIsRight
<1>6. controls' = {d \in ExecCalls : Holds(calls'[d])}
  <2>1. controls = {d \in ExecCalls : Holds(calls[d])}
    BY DEF ExecInv
  <2> QED
    BY <1>2, <2>1
<1>7. controls' = {d \in ExecCalls : Holds(calls[d])'}
    BY <1>6 DEF Holds
<1> QED
    BY <1>3, <1>5, <1>7 DEF ExecInv

(* A call moves, and its process does not.                                 *)
LEMMA CallMoves ==
    ASSUME ExecInv, NEW c \in ExecCalls, NEW k \in Calls, calls' = [calls EXCEPT ![c] = k],
           UNCHANGED <<sandbox, ca, process>>, CallIsRight(k, process[c]), RunsWhereAsked(k, process[c]),
           controls' = IF Holds(k) THEN controls \cup {c} ELSE controls \ {c}
    PROVE  ExecInv'
<1>1. process[c] \in Processes /\ process' = [process EXCEPT ![c] = process[c]]
    BY ExecParts DEF ExecIsTyped
<1> QED
    BY <1>1, OneCallMoves

(* A call ends, other than by an exit or a time limit.                     *)
LEMMA CallEndsIsRight ==
    ASSUME ExecInv, NEW c \in ExecCalls, NEW how \in {"refused", "failed", "late", "detached", "dropped"},
           CallEnds(c, how), NEW p \in Processes, process' = [process EXCEPT ![c] = p],
           p.box = process[c].box, p.exited = process[c].exited, UNCHANGED <<sandbox, ca>>,
           controls' = controls \ {c}
    PROVE  ExecInv'
<1> DEFINE k == [calls[c] EXCEPT !.at = "done", !.ended = how]
<1>1. calls[c] \in Calls /\ CallIsRight(calls[c], process[c]) /\ RunsWhereAsked(calls[c], process[c]) /\ ExecIsTyped
    BY ExecParts
<1>2. calls' = [calls EXCEPT ![c] = k]
    BY DEF CallEnds
<1>3. /\ k \in Calls /\ k.at = "done" /\ k.ended = how /\ k.kind = calls[c].kind /\ k.env = calls[c].env
      /\ k.target = calls[c].target
    BY <1>1 DEF Calls, CallStages
<1> HIDE DEF k
<1>4. CallIsRight(k, p) /\ RunsWhereAsked(k, p) /\ ~Holds(k)
    BY <1>1, <1>3 DEF CallIsRight, RunsWhereAsked, Holds
<1> QED
    BY <1>2, <1>3, <1>4, OneCallMoves

LEMMA CallGivesUp ==
    ASSUME ExecInv, NEW c \in ExecCalls, NEW how \in {"refused", "failed", "late", "detached", "dropped"},
           CallEnds(c, how), UNCHANGED <<sandbox, process, ca>>,
           controls' = controls \ {c} \/ (controls' = controls /\ ~Holds(calls[c]))
    PROVE  ExecInv'
<1>1. process[c] \in Processes /\ process' = [process EXCEPT ![c] = process[c]]
    BY ExecParts DEF ExecIsTyped
<1>2. controls' = controls \ {c}
    BY ExecParts
<1> QED
    BY <1>1, <1>2, CallEndsIsRight

(* A call goes to another stage on one side of its start.                  *)
LEMMA CallGoesIsRight ==
    ASSUME ExecInv, NEW c \in ExecCalls, NEW at \in CallStages \ {"idle", "done"}, CallGoes(c, at),
           UNCHANGED <<sandbox, process, ca>>,
           \/ /\ calls[c].at \in {"idle", "converging", "opening", "starting"}
              /\ at \in {"converging", "opening", "starting"}
           \/ /\ calls[c].at \in {"started", "attached", "streaming", "killing"}
              /\ at \in {"started", "attached", "streaming", "killing"},
           at = "killing" => calls[c].kind \in {"probe", "lifecycle"},
           controls' = IF at = "streaming" \/ (at = "killing" /\ calls[c].kind = "lifecycle")
                       THEN controls \cup {c} ELSE controls \ {c}
    PROVE  ExecInv'
<1> DEFINE k == [calls[c] EXCEPT !.at = at]
<1>1. calls[c] \in Calls /\ CallIsRight(calls[c], process[c]) /\ RunsWhereAsked(calls[c], process[c])
    BY ExecParts
<1>2. calls' = [calls EXCEPT ![c] = k]
    BY DEF CallGoes
<1>3. /\ k \in Calls /\ k.at = at /\ k.ended = calls[c].ended /\ k.kind = calls[c].kind /\ k.env = calls[c].env
      /\ k.target = calls[c].target /\ k.got = calls[c].got /\ k.kill = calls[c].kill
    BY <1>1 DEF Calls
<1> HIDE DEF k
<1>4. CallIsRight(k, process[c])
    BY <1>1, <1>3 DEF CallIsRight
<1>5. RunsWhereAsked(k, process[c])
    BY <1>1, <1>3 DEF RunsWhereAsked
<1>6. controls' = IF Holds(k) THEN controls \cup {c} ELSE controls \ {c}
    BY <1>3 DEF Holds
<1> QED
    BY <1>2, <1>3, <1>4, <1>5, <1>6, CallMoves

(* A call is given the sandbox it is for before anything runs.             *)
LEMMA TargetIsRight ==
    ASSUME ExecInv, NEW c \in ExecCalls, NEW at \in {"opening", "starting"},
           calls[c].at \in {"idle", "converging"},
           calls' = [calls EXCEPT ![c].at = at, ![c].target = sandbox.id],
           UNCHANGED <<sandbox, process, controls, ca>>
    PROVE  ExecInv'
<1> DEFINE k == [calls[c] EXCEPT !.at = at, !.target = sandbox.id]
<1>1. calls[c] \in Calls /\ CallIsRight(calls[c], process[c]) /\ (c \in controls <=> Holds(calls[c]))
    BY ExecParts
<1>2. calls' = [calls EXCEPT ![c] = k]
    OBVIOUS
<1>3. sandbox.id \in 0..MaxBoxIds
  <2>1. sandbox.id \in 1..MaxBoxIds
    BY DEF ExecInv, ExecIsTyped
  <2> QED
    BY <2>1, ExecConstants
<1>4. /\ k \in Calls /\ k.at = at /\ k.ended = calls[c].ended /\ k.kind = calls[c].kind /\ k.env = calls[c].env
      /\ k.got = calls[c].got /\ k.kill = calls[c].kill
    BY <1>1, <1>3 DEF Calls, CallStages
<1> HIDE DEF k
<1>5. CallIsRight(k, process[c])
    BY <1>1, <1>4 DEF CallIsRight
<1>6. RunsWhereAsked(k, process[c])
    BY <1>1 DEF RunsWhereAsked, CallIsRight, NoProcess
<1>7. controls' = IF Holds(k) THEN controls \cup {c} ELSE controls \ {c}
    BY <1>1, <1>4 DEF Holds
<1> QED
    BY <1>2, <1>4, <1>5, <1>6, <1>7, CallMoves

LEMMA AsksTargetIsRight == ASSUME ExecInv, NEW c \in ExecCalls, AsksTarget(c) PROVE ExecInv'
<1>1. calls[c].at = "idle" /\ UNCHANGED <<sandbox, process, controls, ca>>
    BY DEF AsksTarget, AtCall
<1>2. c \notin controls /\ ~Holds(calls[c])
    BY <1>1, ExecParts DEF Holds
<1>3. CASE CallGoes(c, "converging")
  <2>1. controls' = IF "converging" = "streaming" \/ ("converging" = "killing" /\ calls[c].kind = "lifecycle")
                    THEN controls \cup {c} ELSE controls \ {c}
    BY <1>1, <1>2
  <2>2. "converging" \in CallStages \ {"idle", "done"}
    BY DEF CallStages
  <2> QED
    BY <1>1, <1>3, <2>1, <2>2, CallGoesIsRight
<1>4. CASE CallEnds(c, "refused")
    BY <1>1, <1>2, <1>4, CallGivesUp
<1> QED
    BY <1>3, <1>4 DEF AsksTarget

LEMMA ConvergedTargetIsRight == ASSUME ExecInv, NEW c \in ExecCalls, ConvergedTarget(c) PROVE ExecInv'
<1>1. calls[c].at = "converging" /\ UNCHANGED <<sandbox, process, controls, ca>>
    BY DEF ConvergedTarget, AtCall
<1>2. c \notin controls /\ ~Holds(calls[c])
    BY <1>1, ExecParts DEF Holds
<1>3. CASE CallEnds(c, "refused")
    BY <1>1, <1>2, <1>3, CallGivesUp
<1>4. CASE calls' = [calls EXCEPT ![c].at = "opening", ![c].target = sandbox.id]
    BY <1>1, <1>4, TargetIsRight
<1> QED
    BY <1>3, <1>4 DEF ConvergedTarget

LEMMA InspectsTargetIsRight == ASSUME ExecInv, NEW c \in ExecCalls, InspectsTarget(c) PROVE ExecInv'
<1>1. calls[c].at = "opening" /\ UNCHANGED <<sandbox, process, controls, ca>>
    BY DEF InspectsTarget, AtCall
<1>2. c \notin controls /\ ~Holds(calls[c])
    BY <1>1, ExecParts DEF Holds
<1>3. CASE CallGoes(c, "starting")
  <2>1. controls' = IF "starting" = "streaming" \/ ("starting" = "killing" /\ calls[c].kind = "lifecycle")
                    THEN controls \cup {c} ELSE controls \ {c}
    BY <1>1, <1>2
  <2>2. "starting" \in CallStages \ {"idle", "done"}
    BY DEF CallStages
  <2> QED
    BY <1>1, <1>3, <2>1, <2>2, CallGoesIsRight
<1>4. CASE CallEnds(c, "failed")
    BY <1>1, <1>2, <1>4, CallGivesUp
<1> QED
    BY <1>3, <1>4 DEF InspectsTarget

LEMMA PassAsksIsRight == ASSUME ExecInv, NEW c \in ExecCalls, PassAsks(c) PROVE ExecInv'
BY TargetIsRight DEF PassAsks, AtCall

(* The process starts in the sandbox as it is now, which is the target.    *)
LEMMA StartsProcessIsRight == ASSUME ExecInv, NEW c \in ExecCalls, StartsProcess(c) PROVE ExecInv'
<1>1. calls[c].at = "starting" /\ UNCHANGED <<sandbox, controls, ca>>
    BY DEF StartsProcess, AtCall
<1>2. /\ calls[c] \in Calls /\ CallIsRight(calls[c], process[c]) /\ c \notin controls /\ ~Holds(calls[c])
      /\ calls[c].got = 0 /\ calls[c].ended = "none" /\ ExecIsTyped
    BY <1>1, ExecParts DEF Holds, CallIsRight
<1>3. CASE /\ sandbox.id = calls[c].target /\ sandbox.up
           /\ calls' = [calls EXCEPT ![c].at = IF calls[c].kind = "attach" THEN "attached" ELSE "started",
                                     ![c].env = execution_environment(ca.call)]
           /\ process' = [process EXCEPT ![c] = [NoProcess EXCEPT !.box = sandbox.id, !.events = <<"started">>]]
  <2> DEFINE at == IF calls[c].kind = "attach" THEN "attached" ELSE "started"
             env == execution_environment(ca.call)
             k == [calls[c] EXCEPT !.at = at, !.env = env]
  <2>0. PICK p : p = [NoProcess EXCEPT !.box = sandbox.id, !.events = <<"started">>]
    OBVIOUS
  <2>1. calls' = [calls EXCEPT ![c] = k] /\ process' = [process EXCEPT ![c] = p]
    BY <1>3, <2>0
  <2>2. at \in {"attached", "started"}
    OBVIOUS
  <2>3. env \in {"call", "agent", "guest copy", "runtime"} /\ EnvIsRight(env)
    BY <1>2, CaChoicesType DEF execution_environment, EnvIsRight, ExecIsTyped
  <2> HIDE DEF at, env
  <2>4. /\ k \in Calls /\ k.at = at /\ k.ended = "none" /\ k.kind = calls[c].kind /\ k.env = env
        /\ k.target = calls[c].target /\ k.got = 0
    BY <1>2, <2>2, <2>3 DEF Calls, CallStages
  <2>5. sandbox.id \in 1..MaxBoxIds
    BY <1>2 DEF ExecIsTyped
  <2>6. p = [box |-> sandbox.id, said |-> 0, exited |-> FALSE, events |-> <<"started">>]
    BY <2>0 DEF NoProcess
  <2>7. p \in Processes /\ p.box = sandbox.id /\ p.said = 0 /\ p.exited = FALSE /\ p.events = <<"started">>
    <3>1. sandbox.id \in 0..MaxBoxIds /\ 0 \in 0..MaxOutput
      BY <2>5, ExecConstants
    <3>2. <<"started">> \in Seq(ExecEvents)
      BY DEF ExecEvents
    <3> QED
      BY <2>6, <3>1, <3>2 DEF Processes
  <2> HIDE DEF k
  <2>8. EventsFollow(p, 0)
    <3>1. PICK one \in {0, 1}, none \in {0, 1} : one = 1 /\ none = 0
      OBVIOUS
    <3>2. 0 <= p.said /\ Len(p.events) = one + (p.said - 0) + none
      BY <2>7, <3>1
    <3>3. one = 1 => p.events[1] = "started"
      BY <2>7
    <3>4. \A i \in one + 1 .. Len(p.events) - none : p.events[i] = "output"
      BY <2>7, <3>1
    <3>5. none = 1 => /\ p.box = 0 /\ p.events[Len(p.events)] \in LastEvents
                      /\ p.events[Len(p.events)] = "exited" => p.exited
      BY <3>1
    <3>6. \E l \in {0, 1} :
            /\ 0 <= p.said /\ Len(p.events) = one + (p.said - 0) + l
            /\ one = 1 => p.events[1] = "started"
            /\ \A i \in one + 1 .. Len(p.events) - l : p.events[i] = "output"
            /\ l = 1 => /\ p.box = 0 /\ p.events[Len(p.events)] \in LastEvents
                        /\ p.events[Len(p.events)] = "exited" => p.exited
      <4> WITNESS none \in {0, 1}
      <4> QED
        BY <3>2, <3>3, <3>4, <3>5
    <3> QED
      BY <3>1, <3>6 DEF EventsFollow
  <2>9. CallIsRight(k, p)
    BY <2>2, <2>3, <2>4, <2>7, <2>8 DEF CallIsRight
  <2>10. RunsWhereAsked(k, p)
    BY <1>3, <2>4, <2>7 DEF RunsWhereAsked
  <2>11. controls' = IF Holds(k) THEN controls \cup {c} ELSE controls \ {c}
    BY <1>1, <1>2, <2>2, <2>4 DEF Holds
  <2> QED
    BY <1>1, <2>1, <2>4, <2>7, <2>9, <2>10, <2>11, OneCallMoves
<1>4. CASE CallEnds(c, "failed") /\ UNCHANGED process
    BY <1>1, <1>2, <1>4, CallGivesUp
<1> QED
    BY <1>3, <1>4 DEF StartsProcess

LEMMA RegistersControlIsRight == ASSUME ExecInv, NEW c \in ExecCalls, RegistersControl(c) PROVE ExecInv'
<1>1. /\ calls[c].at = "started" /\ controls' = controls \cup {c} /\ CallGoes(c, "streaming")
      /\ UNCHANGED <<sandbox, process, ca>>
    BY DEF RegistersControl, AtCall
<1>2. controls' = IF "streaming" = "streaming" \/ ("streaming" = "killing" /\ calls[c].kind = "lifecycle")
                  THEN controls \cup {c} ELSE controls \ {c}
    BY <1>1
<1>3. "streaming" \in CallStages \ {"idle", "done"}
    BY DEF CallStages
<1> QED
    BY <1>1, <1>2, <1>3, CallGoesIsRight

LEMMA StartsLateIsRight == ASSUME ExecInv, NEW c \in ExecCalls, StartsLate(c) PROVE ExecInv'
<1>1. calls[c].at = "started" /\ CallEnds(c, "late") /\ UNCHANGED <<sandbox, process, controls, ca>>
    BY DEF StartsLate, AtCall
<1>2. ~Holds(calls[c])
    BY <1>1 DEF Holds
<1> QED
    BY <1>1, <1>2, CallGivesUp

-----------------------------------------------------------------------------
(* Its events, its time limits, and its caller.                            *)

(* The caller takes an event and its stream goes on.                       *)
LEMMA StreamGoesOn ==
    ASSUME ExecInv, NEW c \in ExecCalls, calls[c].at = "streaming", NEW got \in 0..MaxOutput, NEW p \in Processes,
           calls' = [calls EXCEPT ![c].got = got], process' = [process EXCEPT ![c] = p],
           UNCHANGED <<sandbox, controls, ca>>, EventsFollow(p, got),
           p.box = process[c].box, p.exited = process[c].exited
    PROVE  ExecInv'
<1> DEFINE k == [calls[c] EXCEPT !.got = got]
<1>1. /\ calls[c] \in Calls /\ CallIsRight(calls[c], process[c]) /\ RunsWhereAsked(calls[c], process[c])
      /\ c \in controls
    BY ExecParts DEF Holds
<1>2. calls' = [calls EXCEPT ![c] = k]
    OBVIOUS
<1>3. /\ k \in Calls /\ k.at = "streaming" /\ k.ended = calls[c].ended /\ k.kind = calls[c].kind
      /\ k.env = calls[c].env /\ k.target = calls[c].target /\ k.got = got
    BY <1>1 DEF Calls
<1> HIDE DEF k
<1>4. CallIsRight(k, p)
    BY <1>1, <1>3 DEF CallIsRight
<1>5. RunsWhereAsked(k, p)
    BY <1>1, <1>3 DEF RunsWhereAsked
<1>6. controls' = IF Holds(k) THEN controls \cup {c} ELSE controls \ {c}
    BY <1>1, <1>3 DEF Holds
<1> QED
    BY <1>2, <1>3, <1>4, <1>5, <1>6, OneCallMoves

(* A call ends with an exit: the process exited, and nothing was lost.     *)
LEMMA CallExits ==
    ASSUME ExecInv, NEW c \in ExecCalls, NEW p \in Processes, p.exited, p.box = 0, NEW got, got = p.said,
           calls' = [calls EXCEPT ![c].at = "done", ![c].ended = "exited", ![c].got = got],
           process' = [process EXCEPT ![c] = p], controls' = controls \ {c}, UNCHANGED <<sandbox, ca>>
    PROVE  ExecInv'
<1> DEFINE k == [calls[c] EXCEPT !.at = "done", !.ended = "exited", !.got = got]
<1>1. calls[c] \in Calls /\ CallIsRight(calls[c], process[c]) /\ got \in 0..MaxOutput
    BY ExecParts, ExecTypes
<1>2. calls' = [calls EXCEPT ![c] = k]
    OBVIOUS
<1>3. k \in Calls /\ k.at = "done" /\ k.ended = "exited" /\ k.env = calls[c].env /\ k.got = p.said
    BY <1>1 DEF Calls, CallStages
<1> HIDE DEF k
<1>4. CallIsRight(k, p) /\ RunsWhereAsked(k, p) /\ ~Holds(k)
    BY <1>1, <1>3 DEF CallIsRight, RunsWhereAsked, Holds
<1> QED
    BY <1>2, <1>3, <1>4, OneCallMoves

LEMMA ReceivesIsRight == ASSUME ExecInv, NEW c \in ExecCalls, Receives(c) PROVE ExecInv'
<1> DEFINE p == [process[c] EXCEPT !.events = Tail(process[c].events)]
           event == Head(process[c].events)
<1>1. /\ calls[c].at = "streaming" /\ process[c].events # <<>> /\ process' = [process EXCEPT ![c] = p]
      /\ UNCHANGED <<sandbox, ca>>
    BY DEF Receives, AtCall
<1>2. /\ calls[c] \in Calls /\ process[c] \in Processes /\ CallIsRight(calls[c], process[c]) /\ calls[c].got \in Nat
      /\ EventsFollow(process[c], calls[c].got) /\ ExecIsTyped /\ c \in controls /\ calls[c].ended = "none"
    BY <1>1, ExecParts DEF Holds, CallIsRight
<1>3. Tail(process[c].events) \in Seq(ExecEvents)
  <2>1. process[c].events \in Seq(ExecEvents)
    BY <1>2, ExecTypes
  <2> QED
    BY <1>1, <2>1, HeadTailProperties
<1>4. /\ p \in Processes /\ p.box = process[c].box /\ p.exited = process[c].exited /\ p.said = process[c].said
      /\ p = [process[c] EXCEPT !.events = Tail(process[c].events)]
    BY <1>2, <1>3 DEF Processes
<1> HIDE DEF p
<1>5. /\ event \in {"started", "output"} \cup LastEvents
      /\ event = "started" => EventsFollow(p, calls[c].got)
      /\ event = "output" => EventsFollow(p, calls[c].got + 1) /\ calls[c].got + 1 <= process[c].said
      /\ event = "exited" => calls[c].got = process[c].said /\ process[c].exited
    BY <1>1, <1>2, <1>4, EventTaken
<1>6. CASE event = "started"
  <2>1. UNCHANGED <<calls, controls>>
    BY <1>6 DEF Receives
  <2>2. calls' = [calls EXCEPT ![c].got = calls[c].got] /\ calls[c].got \in 0..MaxOutput
    BY ZenonT(60), <1>2, <2>1 DEF ExecIsTyped, Calls
  <2> QED
    BY <1>1, <1>4, <1>5, <1>6, <2>1, <2>2, StreamGoesOn
<1>7. CASE event = "output"
  <2>1. calls' = [calls EXCEPT ![c].got = calls[c].got + 1] /\ UNCHANGED controls
    BY <1>7 DEF Receives
  <2>2. calls[c].got + 1 \in 0..MaxOutput
    <3>1. process[c].said \in 0..MaxOutput /\ calls[c].got + 1 <= process[c].said
      BY <1>2, <1>5, <1>7, ExecTypes
    <3> QED
      BY <1>2, <3>1, ExecConstants
  <2> QED
    BY <1>1, <1>4, <1>5, <1>7, <2>1, <2>2, StreamGoesOn
<1>8. CASE event = "exited"
  <2>1. CallEnds(c, "exited") /\ controls' = controls \ {c}
    BY <1>8 DEF Receives, DropsStream
  <2>2. calls' = [calls EXCEPT ![c].at = "done", ![c].ended = "exited", ![c].got = calls[c].got]
    BY <1>2, <2>1 DEF CallEnds, ExecIsTyped, Calls
  <2>3. p.exited /\ p.box = 0 /\ calls[c].got = p.said
    BY <1>2, <1>4, <1>5, <1>8 DEF CallIsRight
  <2> QED
    BY <1>1, <1>4, <2>1, <2>2, <2>3, CallExits
<1>9. CASE event \in {"failed", "closed"}
  <2>1. CallEnds(c, "failed") /\ controls' = controls \ {c}
    BY <1>9 DEF Receives, DropsStream
  <2> QED
    BY <1>1, <1>4, <2>1, CallEndsIsRight
<1> QED
    BY <1>5, <1>6, <1>7, <1>8, <1>9 DEF LastEvents

LEMMA AttachEndsIsRight == ASSUME ExecInv, NEW c \in ExecCalls, AttachEnds(c) PROVE ExecInv'
<1>1. calls[c].at = "attached" /\ UNCHANGED <<sandbox, process, controls, ca>>
    BY DEF AttachEnds, AtCall
<1>2. process[c] \in Processes /\ ExecIsTyped /\ CallIsRight(calls[c], process[c]) /\ c \notin controls /\ ~Holds(calls[c])
    BY <1>1, ExecParts DEF Holds
<1>3. CASE process[c].exited
  <2>1. calls' = [calls EXCEPT ![c].at = "done", ![c].ended = "exited", ![c].got = process[c].said]
    BY <1>3 DEF AttachEnds
  <2>2. process' = [process EXCEPT ![c] = process[c]] /\ controls' = controls \ {c} /\ process[c].box = 0
    BY <1>1, <1>2, <1>3 DEF ExecIsTyped, CallIsRight
  <2> QED
    BY <1>1, <1>2, <1>3, <2>1, <2>2, CallExits
<1>4. CASE ~process[c].exited
  <2>1. CallEnds(c, "detached") \/ CallEnds(c, "failed")
    BY <1>4 DEF AttachEnds
  <2> QED
    BY <1>1, <1>2, <2>1, CallGivesUp
<1> QED
    BY <1>3, <1>4

LEMMA LifecycleTimesOutIsRight == ASSUME ExecInv, NEW c \in ExecCalls, LifecycleTimesOut(c) PROVE ExecInv'
<1>1. /\ calls[c].at = "streaming" /\ calls[c].kind = "lifecycle" /\ CallGoes(c, "killing")
      /\ UNCHANGED <<sandbox, process, controls, ca>>
    BY DEF LifecycleTimesOut, AtCall
<1>2. c \in controls /\ "killing" \in CallStages \ {"idle", "done"}
    BY <1>1, ExecParts DEF Holds, CallStages
<1>3. controls' = IF "killing" = "streaming" \/ ("killing" = "killing" /\ calls[c].kind = "lifecycle")
                  THEN controls \cup {c} ELSE controls \ {c}
    BY <1>1, <1>2
<1> QED
    BY <1>1, <1>2, <1>3, CallGoesIsRight

LEMMA ProbeTimesOutIsRight == ASSUME ExecInv, NEW c \in ExecCalls, ProbeTimesOut(c) PROVE ExecInv'
<1>1. /\ calls[c].at = "streaming" /\ calls[c].kind = "probe" /\ CallGoes(c, "killing")
      /\ UNCHANGED <<sandbox, process, ca>> /\ controls' = controls \ {c}
    BY DEF ProbeTimesOut, AtCall, DropsStream
<1>2. "killing" \in CallStages \ {"idle", "done"}
    BY DEF CallStages
<1>3. controls' = IF "killing" = "streaming" \/ ("killing" = "killing" /\ calls[c].kind = "lifecycle")
                  THEN controls \cup {c} ELSE controls \ {c}
    BY <1>1
<1> QED
    BY <1>1, <1>2, <1>3, CallGoesIsRight

(* Out of time: the process is gone, or its kill had no answer, or nobody  *)
(* held it any longer.                                                     *)
LEMMA CallIsOverdue ==
    ASSUME ExecInv, NEW c \in ExecCalls, NEW kill \in {"sent", "unanswered", "not found"}, NEW p \in Processes,
           calls' = [calls EXCEPT ![c].at = "done", ![c].ended = "overdue", ![c].kill = kill],
           process' = [process EXCEPT ![c] = p], UNCHANGED <<sandbox, ca>>, controls' = controls \ {c},
           p.box \in {0, process[c].box}, p.exited = process[c].exited,
           calls[c].kind = "lifecycle" /\ p.box # 0 => kill = "unanswered"
    PROVE  ExecInv'
<1> DEFINE k == [calls[c] EXCEPT !.at = "done", !.ended = "overdue", !.kill = kill]
<1>1. calls[c] \in Calls /\ CallIsRight(calls[c], process[c]) /\ RunsWhereAsked(calls[c], process[c])
    BY ExecParts
<1>2. calls' = [calls EXCEPT ![c] = k]
    OBVIOUS
<1>3. /\ k \in Calls /\ k.at = "done" /\ k.ended = "overdue" /\ k.env = calls[c].env /\ k.kind = calls[c].kind
      /\ k.target = calls[c].target /\ k.kill = kill
    BY <1>1 DEF Calls, CallStages
<1> HIDE DEF k
<1>4. CallIsRight(k, p) /\ RunsWhereAsked(k, p) /\ ~Holds(k)
    BY <1>1, <1>3 DEF CallIsRight, RunsWhereAsked, Holds
<1> QED
    BY <1>2, <1>3, <1>4, OneCallMoves

LEMMA KillsExecutionIsRight == ASSUME ExecInv, NEW c \in ExecCalls, KillsExecution(c) PROVE ExecInv'
<1>1. PICK answer \in {"sent", "unanswered"} :
        /\ calls' = [calls EXCEPT ![c].at = "done", ![c].ended = "overdue", ![c].kill = answer]
        /\ process' = [process EXCEPT ![c].box = IF answer = "sent" THEN 0 ELSE process[c].box]
    BY DEF KillsExecution
<1>2. controls' = controls \ {c} /\ UNCHANGED <<sandbox, ca>>
    BY DEF KillsExecution, DropsStream
<1>3. process[c] \in Processes
    BY ExecParts
<1> DEFINE box == IF answer = "sent" THEN 0 ELSE process[c].box
           p == [process[c] EXCEPT !.box = box]
<1>4. process' = [process EXCEPT ![c] = p]
    BY <1>1
<1>5. box \in 0..MaxBoxIds /\ box \in {0, process[c].box} /\ (box # 0 => answer = "unanswered")
    BY <1>3, ExecTypes, ExecConstants
<1> HIDE DEF box
<1>6. p \in Processes /\ p.box = box /\ p.exited = process[c].exited
    BY <1>3, <1>5 DEF Processes
<1> HIDE DEF p
<1> QED
    BY <1>1, <1>2, <1>4, <1>5, <1>6, CallIsOverdue

LEMMA KillFindsNothingIsRight == ASSUME ExecInv, NEW c \in ExecCalls, KillFindsNothing(c) PROVE ExecInv'
<1>1. /\ calls' = [calls EXCEPT ![c].at = "done", ![c].ended = "overdue", ![c].kill = "not found"]
      /\ calls[c].at = "killing" /\ c \notin controls /\ UNCHANGED <<sandbox, process, controls, ca>>
    BY DEF KillFindsNothing, AtCall
<1>2. process[c] \in Processes /\ ExecIsTyped /\ calls[c].kind # "lifecycle"
    BY <1>1, ExecParts DEF Holds
<1>3. process' = [process EXCEPT ![c] = process[c]] /\ controls' = controls \ {c}
    BY <1>1, <1>2 DEF ExecIsTyped
<1> QED
    BY <1>1, <1>2, <1>3, CallIsOverdue

LEMMA CallerGoesIsRight == ASSUME ExecInv, NEW c \in ExecCalls, CallerGoes(c) PROVE ExecInv'
<1>1. CallEnds(c, "dropped") /\ controls' = controls \ {c} /\ UNCHANGED <<sandbox, process, ca>>
    BY DEF CallerGoes, DropsStream
<1> QED
    BY <1>1, CallGivesUp

-----------------------------------------------------------------------------
(* The guest and the sandbox.                                              *)

LEMMA ProcessMoves ==
    ASSUME ExecInv, NEW c \in ExecCalls, NEW p \in Processes, process' = [process EXCEPT ![c] = p],
           UNCHANGED <<sandbox, calls, controls, ca>>, CallIsRight(calls[c], p), RunsWhereAsked(calls[c], p)
    PROVE  ExecInv'
<1>1. calls' = [calls EXCEPT ![c] = calls[c]]
    BY ExecParts DEF ExecIsTyped
<1>2. controls' = IF Holds(calls[c]) THEN controls \cup {c} ELSE controls \ {c}
    BY ExecParts
<1> QED
    BY <1>1, <1>2, ExecParts, OneCallMoves

(* What a process that runs is to its call.                                *)
LEMMA RunningIsCalled ==
    ASSUME ExecInv, NEW c \in ExecCalls, Running(c)
    PROVE  /\ process[c] \in Processes /\ process[c].box # 0 /\ ~process[c].exited /\ calls[c].ended # "exited"
           /\ calls[c].at \notin {"idle", "converging", "opening", "starting"}
           /\ CallIsRight(calls[c], process[c]) /\ RunsWhereAsked(calls[c], process[c]) /\ calls[c].got \in Nat
BY ExecParts DEF CallIsRight, NoProcess, Running

(* A process ends: its call is to be told so.                              *)
LEMMA ProcessEnds ==
    ASSUME ExecInv, NEW c \in ExecCalls, Running(c), NEW end \in LastEvents, NEW p \in Processes,
           p.events = Append(process[c].events, end), p.box = 0, p.said = process[c].said,
           p.exited <=> end = "exited"
    PROVE  CallIsRight(calls[c], p) /\ RunsWhereAsked(calls[c], p)
<1>1. calls[c].at \in {"started", "attached", "streaming", "killing"} => EventsFollow(p, calls[c].got)
  <2>1. EventsFollow(process[c], calls[c].got) => EventsFollow(p, calls[c].got)
    BY RunningIsCalled, EndAppended
  <2> QED
    BY <2>1, RunningIsCalled DEF CallIsRight
<1> QED
    BY <1>1, RunningIsCalled DEF CallIsRight, RunsWhereAsked

LEMMA PrintsOutputIsRight == ASSUME ExecInv, NEW c \in ExecCalls, PrintsOutput(c) PROVE ExecInv'
<1> DEFINE p == [process[c] EXCEPT !.events = Append(process[c].events, "output"), !.said = process[c].said + 1]
<1>1. /\ Running(c) /\ process[c].said < MaxOutput /\ process' = [process EXCEPT ![c] = p]
      /\ UNCHANGED <<sandbox, calls, controls, ca>>
    BY DEF PrintsOutput, Emits
<1>2. process[c] \in Processes
    BY ExecParts
<1>3. process[c].said + 1 \in 0..MaxOutput
  <2>1. process[c].said \in Nat
    BY <1>2, ExecTypes
  <2> QED
    BY <1>1, <2>1, ExecConstants
<1>4. Append(process[c].events, "output") \in Seq(ExecEvents)
  <2>1. process[c].events \in Seq(ExecEvents) /\ "output" \in ExecEvents
    BY <1>2, ExecTypes DEF ExecEvents
  <2> QED
    BY <2>1, AppendProperties
<1>5. /\ p \in Processes /\ p.box = process[c].box /\ p.exited = process[c].exited
      /\ p.events = Append(process[c].events, "output") /\ p.said = process[c].said + 1
    BY <1>2, <1>3, <1>4 DEF Processes
<1> HIDE DEF p
<1>6. EventsFollow(process[c], calls[c].got) => EventsFollow(p, calls[c].got)
    BY <1>1, <1>2, <1>5, RunningIsCalled, EventAppended
<1>7. CallIsRight(calls[c], p) /\ RunsWhereAsked(calls[c], p)
    BY <1>1, <1>5, <1>6, RunningIsCalled DEF CallIsRight, RunsWhereAsked
<1> QED
    BY <1>1, <1>5, <1>7, ProcessMoves

LEMMA ExitsProcessIsRight == ASSUME ExecInv, NEW c \in ExecCalls, ExitsProcess(c) PROVE ExecInv'
<1> DEFINE p == [process[c] EXCEPT !.box = 0, !.exited = TRUE, !.events = Append(process[c].events, "exited")]
<1>1. /\ Running(c) /\ process' = [process EXCEPT ![c] = p] /\ UNCHANGED <<sandbox, calls, controls, ca>>
    BY DEF ExitsProcess
<1>2. process[c] \in Processes /\ 0 \in 0..MaxBoxIds
    BY ExecParts, ExecConstants
<1>3. Append(process[c].events, "exited") \in Seq(ExecEvents)
  <2>1. process[c].events \in Seq(ExecEvents) /\ "exited" \in ExecEvents
    BY <1>2, ExecTypes DEF ExecEvents, LastEvents
  <2> QED
    BY <2>1, AppendProperties
<1>4. /\ p \in Processes /\ p.box = 0 /\ p.exited = TRUE /\ p.said = process[c].said
      /\ p.events = Append(process[c].events, "exited")
    BY <1>2, <1>3 DEF Processes
<1> HIDE DEF p
<1>5. "exited" \in LastEvents /\ p.exited
    BY <1>4 DEF LastEvents
<1>6. CallIsRight(calls[c], p) /\ RunsWhereAsked(calls[c], p)
    BY <1>1, <1>4, <1>5, ProcessEnds
<1> QED
    BY <1>1, <1>4, <1>6, ProcessMoves

LEMMA FailsToStartIsRight == ASSUME ExecInv, NEW c \in ExecCalls, FailsToStart(c) PROVE ExecInv'
<1> DEFINE p == [process[c] EXCEPT !.box = 0, !.events = Append(process[c].events, "failed")]
<1>1. /\ Running(c) /\ process' = [process EXCEPT ![c] = p] /\ UNCHANGED <<sandbox, calls, controls, ca>>
    BY DEF FailsToStart
<1>2. process[c] \in Processes /\ 0 \in 0..MaxBoxIds /\ ~process[c].exited
    BY <1>1, RunningIsCalled, ExecConstants
<1>3. Append(process[c].events, "failed") \in Seq(ExecEvents)
  <2>1. process[c].events \in Seq(ExecEvents) /\ "failed" \in ExecEvents
    BY <1>2, ExecTypes DEF ExecEvents, LastEvents
  <2> QED
    BY <2>1, AppendProperties
<1>4. /\ p \in Processes /\ p.box = 0 /\ p.exited = process[c].exited /\ p.said = process[c].said
      /\ p.events = Append(process[c].events, "failed")
    BY <1>2, <1>3 DEF Processes
<1> HIDE DEF p
<1>5. "failed" \in LastEvents /\ ~p.exited
    BY <1>2, <1>4 DEF LastEvents
<1>6. CallIsRight(calls[c], p) /\ RunsWhereAsked(calls[c], p)
    BY <1>1, <1>4, <1>5, ProcessEnds
<1> QED
    BY <1>1, <1>4, <1>6, ProcessMoves

LEMMA UnheldEndsIsRight == ASSUME ExecInv, NEW c \in ExecCalls, UnheldEnds(c) PROVE ExecInv'
<1> DEFINE p == [process[c] EXCEPT !.box = 0]
<1>1. /\ Running(c) /\ calls[c].at = "done" /\ process' = [process EXCEPT ![c] = p]
      /\ UNCHANGED <<sandbox, calls, controls, ca>>
    BY DEF UnheldEnds, AtCall
<1>2. process[c] \in Processes /\ 0 \in 0..MaxBoxIds
    BY ExecParts, ExecConstants
<1>3. p \in Processes /\ p.box = 0 /\ p.exited = process[c].exited
    BY <1>2 DEF Processes
<1> HIDE DEF p
<1>4. CallIsRight(calls[c], p) /\ RunsWhereAsked(calls[c], p)
    BY <1>1, <1>3, RunningIsCalled DEF CallIsRight, RunsWhereAsked
<1> QED
    BY <1>1, <1>3, <1>4, ProcessMoves

(* The sandbox changes under its processes: either all of them end with it,*)
(* or it stays the one they run in.                                        *)
LEMMA SandboxMoves ==
    ASSUME ExecInv, sandbox' \in [id : 1..MaxBoxIds, up : BOOLEAN, wanted : BOOLEAN, ready : BOOLEAN],
           UNCHANGED <<calls, process, controls, ca>>,
           \A c \in ExecCalls : process[c].box # 0 => sandbox'.up /\ sandbox'.id = sandbox.id
    PROVE  ExecInv'
<1>1. ExecIsTyped'
    BY DEF ExecInv, ExecIsTyped
<1>2. \A c \in ExecCalls : CallIsRight(calls[c], process[c])' /\ RunsWhereAsked(calls[c], process[c])'
    BY DEF ExecInv, CallIsRight, RunsWhereAsked, EventsFollow, EnvIsRight
<1>3. controls' = {c \in ExecCalls : Holds(calls[c])'}
    BY DEF ExecInv, Holds
<1> QED
    BY <1>1, <1>2, <1>3 DEF ExecInv

LEMMA SandboxChangesAreRight ==
    ASSUME ExecInv, StoppedOrStarted \/ BootsSandbox \/ ReplacesSandbox
    PROVE  ExecInv'
<1>1. /\ sandbox \in [id : 1..MaxBoxIds, up : BOOLEAN, wanted : BOOLEAN, ready : BOOLEAN]
      /\ \A c \in ExecCalls : process[c].box # 0 => sandbox.up
    BY DEF ExecInv, ExecIsTyped, RunsWhereAsked
<1>2. UNCHANGED <<calls, process, controls, ca>>
    BY DEF StoppedOrStarted, BootsSandbox, ReplacesSandbox
<1>3. CASE StoppedOrStarted
    BY <1>1, <1>2, <1>3, SandboxMoves DEF StoppedOrStarted
<1>4. CASE BootsSandbox
    BY <1>1, <1>2, <1>4, SandboxMoves DEF BootsSandbox
<1>5. CASE ReplacesSandbox
  <2>1. sandbox.id + 1 \in 1..MaxBoxIds /\ ~sandbox.up /\ sandbox' = [sandbox EXCEPT !.id = sandbox.id + 1, !.ready = FALSE]
    BY <1>1, <1>5, ExecConstants DEF ReplacesSandbox
  <2> QED
    BY <1>1, <1>2, <2>1, SandboxMoves
<1> QED
    BY <1>3, <1>4, <1>5

LEMMA StopsSandboxIsRight == ASSUME ExecInv, StopsSandbox PROVE ExecInv'
<1> DEFINE Closed(c) == [process[c] EXCEPT !.box = 0, !.events = Append(process[c].events, "closed")]
<1>1. /\ sandbox' = [sandbox EXCEPT !.up = FALSE, !.ready = FALSE] /\ UNCHANGED <<calls, controls, ca>>
      /\ process' = [c \in ExecCalls |-> IF Running(c) THEN Closed(c) ELSE process[c]]
    BY DEF StopsSandbox
<1>2. ExecIsTyped
    BY DEF ExecInv
<1>3. \A c \in ExecCalls :
        process'[c] \in Processes /\ CallIsRight(calls[c], process'[c]) /\ process'[c].box = 0
  <2>1. SUFFICES ASSUME NEW c \in ExecCalls
                 PROVE  process'[c] \in Processes /\ CallIsRight(calls[c], process'[c]) /\ process'[c].box = 0
    OBVIOUS
  <2>2. process[c] \in Processes /\ 0 \in 0..MaxBoxIds
    BY ExecParts, ExecConstants
  <2>3. CASE Running(c)
    <3>1. Append(process[c].events, "closed") \in Seq(ExecEvents)
      <4>1. process[c].events \in Seq(ExecEvents) /\ "closed" \in ExecEvents
        BY <2>2, ExecTypes DEF ExecEvents, LastEvents
      <4> QED
        BY <4>1, AppendProperties
    <3>2. PICK p : p = Closed(c)
      OBVIOUS
    <3>3. /\ p \in Processes /\ p.box = 0 /\ p.exited = process[c].exited /\ p.said = process[c].said
          /\ p.events = Append(process[c].events, "closed")
      BY <2>2, <3>1, <3>2 DEF Processes
    <3>4. "closed" \in LastEvents /\ ~p.exited
      BY <2>3, <3>3, RunningIsCalled DEF LastEvents
    <3>5. CallIsRight(calls[c], p)
      BY <2>3, <3>3, <3>4, ProcessEnds
    <3> QED
      BY <1>1, <2>3, <3>2, <3>3, <3>5
  <2>4. CASE ~Running(c)
    BY <1>1, <2>2, <2>4, ExecParts DEF Running
  <2> QED
    BY <2>3, <2>4
<1>4. ExecIsTyped'
  <2>1. process' \in [ExecCalls -> Processes]
    BY <1>1, <1>3
  <2>2. sandbox' \in [id : 1..MaxBoxIds, up : BOOLEAN, wanted : BOOLEAN, ready : BOOLEAN]
    BY <1>1, <1>2 DEF ExecIsTyped
  <2> QED
    BY <1>1, <1>2, <2>1, <2>2 DEF ExecIsTyped
<1>5. \A c \in ExecCalls : CallIsRight(calls[c], process[c])' /\ RunsWhereAsked(calls[c], process[c])'
  <2>1. SUFFICES ASSUME NEW c \in ExecCalls
                 PROVE  CallIsRight(calls[c], process[c])' /\ RunsWhereAsked(calls[c], process[c])'
    OBVIOUS
  <2>2. CallIsRight(calls[c], process'[c]) /\ process'[c].box = 0 /\ calls' = calls /\ ca' = ca
    BY <1>1, <1>3
  <2>3. CallIsRight(calls[c], process[c])'
    BY <2>2 DEF CallIsRight, EventsFollow, EnvIsRight
  <2>4. RunsWhereAsked(calls[c], process[c])'
    BY <2>2 DEF RunsWhereAsked
  <2> QED
    BY <2>3, <2>4
<1>6. controls' = {c \in ExecCalls : Holds(calls[c])'}
    BY <1>1 DEF ExecInv, Holds
<1> QED
    BY <1>4, <1>5, <1>6 DEF ExecInv

-----------------------------------------------------------------------------

LEMMA ExecStarts == ExecInit => ExecInv
<1> SUFFICES ASSUME ExecInit PROVE ExecInv
    OBVIOUS
<1>1. PICK kinds \in [ExecCalls -> ExecKinds] : calls = [c \in ExecCalls |-> NoCall(kinds[c])]
    BY DEF ExecInit
<1>2. /\ process = [c \in ExecCalls |-> NoProcess] /\ controls = {} /\ ca \in CaChoices
      /\ sandbox = [id |-> 1, up |-> FALSE, wanted |-> TRUE, ready |-> FALSE]
    BY DEF ExecInit
<1>3. 0 \in 0..MaxBoxIds /\ 0 \in 0..MaxOutput /\ 1 \in 1..MaxBoxIds
    BY ExecConstants
<1>4. NoProcess \in Processes
  <2>1. <<>> \in Seq(ExecEvents)
    BY EmptySeq
  <2> QED
    BY <1>3, <2>1 DEF NoProcess, Processes
<1>5. \A kind \in ExecKinds : NoCall(kind) \in Calls
    BY <1>3 DEF NoCall, Calls, CallStages
<1>6. ExecIsTyped
    BY <1>1, <1>2, <1>3, <1>4, <1>5 DEF ExecIsTyped
<1>7. \A c \in ExecCalls : calls[c] = NoCall(kinds[c]) /\ process[c] = NoProcess
    BY <1>1, <1>2
<1>8. \A c \in ExecCalls : CallIsRight(calls[c], process[c]) /\ RunsWhereAsked(calls[c], process[c]) /\ ~Holds(calls[c])
  <2>1. SUFFICES ASSUME NEW c \in ExecCalls
                 PROVE  CallIsRight(calls[c], process[c]) /\ RunsWhereAsked(calls[c], process[c]) /\ ~Holds(calls[c])
    OBVIOUS
  <2>2. /\ calls[c].at = "idle" /\ calls[c].got = 0 /\ calls[c].ended = "none" /\ calls[c].env = "none"
        /\ calls[c].kill = "none"
    <3>1. PICK kind : calls[c] = NoCall(kind)
      BY <1>7
    <3>2. calls[c] = [kind |-> kind, at |-> "idle", target |-> 0, got |-> 0, ended |-> "none", kill |-> "none", env |-> "none"]
      BY <3>1 DEF NoCall
    <3> QED
      BY <3>2
  <2>3. process[c] = NoProcess /\ process[c].box = 0 /\ ~process[c].exited
    BY <1>7 DEF NoProcess
  <2> QED
    BY <2>2, <2>3 DEF CallIsRight, RunsWhereAsked, Holds, EnvIsRight
<1> QED
    BY <1>2, <1>6, <1>8 DEF ExecInv

LEMMA ExecRests == ASSUME ExecInv, UNCHANGED execVars PROVE ExecInv'
BY DEF execVars, ExecInv, ExecIsTyped, CallIsRight, RunsWhereAsked, EventsFollow, EnvIsRight, Holds

LEMMA ExecSteps == ExecInv /\ [ExecNext]_execVars => ExecInv'
<1>1. ASSUME ExecInv, NEW c \in ExecCalls,
             \/ AsksTarget(c) \/ ConvergedTarget(c) \/ InspectsTarget(c) \/ PassAsks(c)
             \/ StartsProcess(c) \/ RegistersControl(c) \/ StartsLate(c)
      PROVE  ExecInv'
    BY <1>1, AsksTargetIsRight, ConvergedTargetIsRight, InspectsTargetIsRight, PassAsksIsRight,
       StartsProcessIsRight, RegistersControlIsRight, StartsLateIsRight
<1>2. ASSUME ExecInv, NEW c \in ExecCalls,
             \/ Receives(c) \/ AttachEnds(c)
             \/ LifecycleTimesOut(c) \/ ProbeTimesOut(c) \/ KillsExecution(c) \/ KillFindsNothing(c)
             \/ CallerGoes(c)
      PROVE  ExecInv'
    BY <1>2, ReceivesIsRight, AttachEndsIsRight, LifecycleTimesOutIsRight, ProbeTimesOutIsRight,
       KillsExecutionIsRight, KillFindsNothingIsRight, CallerGoesIsRight
<1>3. ASSUME ExecInv, NEW c \in ExecCalls,
             PrintsOutput(c) \/ ExitsProcess(c) \/ FailsToStart(c) \/ UnheldEnds(c)
      PROVE  ExecInv'
    BY <1>3, PrintsOutputIsRight, ExitsProcessIsRight, FailsToStartIsRight, UnheldEndsIsRight
<1>4. ASSUME ExecInv, StoppedOrStarted \/ BootsSandbox \/ StopsSandbox \/ ReplacesSandbox
      PROVE  ExecInv'
    BY <1>4, SandboxChangesAreRight, StopsSandboxIsRight
<1> QED
    BY <1>1, <1>2, <1>3, <1>4, ExecRests DEF ExecNext

LEMMA ExecInvIsTheirs == ExecInv => ExecutionsAreTheirCallers
<1> SUFFICES ASSUME ExecInv PROVE ExecutionsAreTheirCallers
    OBVIOUS
<1>1. /\ ExecIsTyped /\ controls = {c \in ExecCalls : Holds(calls[c])}
      /\ \A c \in ExecCalls : /\ calls[c] \in Calls /\ process[c] \in Processes
                              /\ CallIsRight(calls[c], process[c]) /\ RunsWhereAsked(calls[c], process[c])
    BY ExecParts DEF ExecInv
<1>2. ExecTypeOK
  <2>1. sandbox.id \in 1..MaxBoxIds /\ controls \subseteq ExecCalls
    BY <1>1 DEF ExecIsTyped
  <2> QED
    BY <1>1, <2>1 DEF ExecTypeOK, Calls, Processes
<1>3. ControlsAreOfHeldStreams
    BY <1>1 DEF ControlsAreOfHeldStreams, Holds, AtCall
<1>4. OutputIsWhole
    BY <1>1 DEF OutputIsWhole, CallIsRight
<1>5. RunsInItsTarget
    BY <1>1 DEF RunsInItsTarget, RunsWhereAsked, Running
<1>6. CaIsReadable
    BY <1>1 DEF CaIsReadable, CallIsRight, EnvIsRight
<1>7. LifecycleIsKilled
    BY <1>1 DEF LifecycleIsKilled, CallIsRight, Running
<1> QED
    BY <1>2, <1>3, <1>4, <1>5, <1>6, <1>7 DEF ExecutionsAreTheirCallers

(* An Execution runs in the sandbox its caller resolved, can be killed     *)
(* while somebody holds its stream, and is reported with all it said; a    *)
(* tmux command out of time does not run on unless its kill had no answer  *)
(* (execution.rs, process.rs, tmux.rs).                                    *)
THEOREM ExecutionsStayTheirCallers == ExecSpec => []ExecutionsAreTheirCallers
<1>1. ExecInit => ExecInv
    BY ExecStarts
<1>2. ExecInv /\ [ExecNext]_execVars => ExecInv'
    BY ExecSteps
<1>3. ExecInv => ExecutionsAreTheirCallers
    BY ExecInvIsTheirs
<1> QED
    BY <1>1, <1>2, <1>3, PTL DEF ExecSpec
=============================================================================
