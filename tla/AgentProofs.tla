---------------------------- MODULE AgentProofs ----------------------------
(***************************************************************************)
(* Proofs about AgentLifecycle, for any number of generations and faults.  *)
(*                                                                         *)
(* The inductive invariant relates what the pass holds to what the store   *)
(* has: until a stop has written Stopping, the pass holds the stored       *)
(* status, whatever requests were stored since it read the row; a status   *)
(* that is not written because the pass holds it already is therefore in   *)
(* the store.  Where the VM may boot, that status names the VM's Provider  *)
(* and is not Stopped; where the VM was taken down, it stays down until    *)
(* the pass boots it again.                                                *)
(***************************************************************************)
EXTENDS AgentLifecycle, TLAPS

StopSteps == {"stop", "stopping", "killing", "stopFailed", "writeStopped"}
DeleteSteps == {"killForDelete", "release", "finalize"}

(* Outside of a stop the pass holds the stored status.                     *)
HoldsStoredStatus ==
    pc \in PassSteps \ (StopSteps \cup {"idle"}) => rec.status = snap.status

(* In a stop the store says Stopping, and the pass holds that status only  *)
(* if it found it there.                                                   *)
AlreadyStopping == Current(snap) /\ RecordedByStop(snap.status)
StopIsRecorded ==
    pc \in StopSteps =>
        \/ AlreadyStopping /\ rec.status = snap.status
        \/ ~AlreadyStopping /\ rec.status = Kept(NotReady(snap, "Stopping"))
StopIsDue == pc = "writeStopping" => ~AlreadyStopping

(* Restarts are asked for, taken the VM down for, and observed in order.   *)
RestartsInOrder ==
    /\ rec.restart <= rec.gen /\ taken <= rec.gen
    /\ pc # "idle" => snap.restart <= rec.restart
    /\ rec.status.restart <= bounced /\ bounced <= rec.restart
    /\ vm # "running" => bounced = rec.restart

(* A VM that the pass took down or released is so until the pass boots it. *)
DownStaysDown ==
    /\ pc \in {"writeStopped", "settle", "writeRestarting"} => vm # "running"
    /\ pc = "finalize" => vm = "absent"

(* The VM boots only under a status that names its Provider and does not   *)
(* say Stopped, and a failed set up records no other.                      *)
BootsAreRecorded ==
    /\ pc \in SetupSteps \cup {"writeStarting"} => snap.status.sandbox # "none"
    /\ pc = "ensure" => snap.status.reason # "Stopped"
    /\ pc = "setupFailed" =>
          failing.restart = None /\ failing.sandbox # "none" /\ failing.reason # "Stopped"

(* Nothing is asked of an agent that is being deleted.                     *)
DeletionIsAlone ==
    /\ rec.state = "none" => rec.gen = 0
    /\ rec.state \in {"none", "finalized"} => pc = "idle"
    /\ pc \in DeleteSteps => rec.state = "deleting" /\ stops = None

IInv ==
    /\ TypeOK
    /\ HoldsStoredStatus /\ StopIsRecorded /\ StopIsDue
    /\ RestartsInOrder /\ DownStaysDown /\ BootsAreRecorded /\ DeletionIsAlone
    /\ StoppedMeansDown /\ VmIsAssigned /\ ReleasedLeavesNothing

-----------------------------------------------------------------------------
(* Records and the statuses that are written into them.                    *)

LEMMA RecordFields ==
    ASSUME NEW r \in Record
    PROVE  /\ r.state \in {"none", "active", "deleting", "finalized"}
           /\ r.gen \in Nat /\ r.restart \in Nat /\ r.run \in {"Running", "Stopped"}
           /\ r.status \in Status
           /\ r.status.observed \in Nat /\ r.status.restart \in Nat
           /\ r.status.reason \in Reasons
           /\ r.status.sandbox \in {"none", "selected", "materialized"}
BY DEF Record, Status

(* Observed and NotReady make statuses.                                    *)
LEMMA ObservedStatus ==
    ASSUME NEW r \in Record, NEW reason \in Reasons,
           NEW sandbox \in {"none", "selected", "materialized"}
    PROVE  LET s == Observed(r, reason, sandbox)
           IN  /\ s \in Status /\ s.observed = r.gen /\ s.restart = None
               /\ s.reason = reason /\ s.sandbox = sandbox /\ s.failed = FALSE
BY RecordFields DEF Observed, Status, None

LEMMA NotReadyStatus ==
    ASSUME NEW r \in Record, NEW reason \in Reasons
    PROVE  LET s == NotReady(r, reason)
           IN  /\ s \in Status /\ s.observed = r.gen /\ s.restart = None
               /\ s.reason = reason /\ s.sandbox = r.status.sandbox /\ s.failed = FALSE
BY RecordFields, ObservedStatus DEF NotReady

LEMMA FailedStatus ==
    ASSUME NEW s \in Status
    PROVE  /\ Failed(s) \in Status /\ Failed(s).observed = s.observed
           /\ Failed(s).restart = s.restart /\ Failed(s).reason = s.reason
           /\ Failed(s).sandbox = s.sandbox /\ Failed(s).failed
BY DEF Failed, Status

(* What the pass keeps of a status it writes: everything but the restart.  *)
LEMMA KeptStatus ==
    ASSUME snap \in Record, NEW s \in Status
    PROVE  /\ Kept(s) \in Status /\ Kept(s).observed = s.observed
           /\ Kept(s).reason = s.reason /\ Kept(s).sandbox = s.sandbox
           /\ Kept(s).failed = s.failed
           /\ Kept(s).restart = IF s.restart = None THEN snap.status.restart ELSE s.restart
BY RecordFields DEF Kept, Status, None

(* A row with another status.                                              *)
LEMMA StatusIsWritten ==
    ASSUME NEW r \in Record, NEW s \in Status
    PROVE  LET w == [r EXCEPT !.status = s]
           IN  /\ w \in Record /\ w.status = s /\ w.state = r.state /\ w.gen = r.gen
               /\ w.run = r.run /\ w.restart = r.restart
BY DEF Record

(* update_status stores the status or leaves the row, and leaves it only   *)
(* when the pass holds that very status.                                   *)
LEMMA WritesRow ==
    ASSUME TypeOK, NEW s \in Status, Writes(s)
    PROVE  /\ rec' \in Record /\ rec'.state = rec.state /\ rec'.gen = rec.gen
           /\ rec'.run = rec.run /\ rec'.restart = rec.restart
           /\ \/ rec'.status = Kept(s)
              \/ rec'.status = rec.status /\ Kept(s) = snap.status
<1>1. rec \in Record /\ snap \in Record
    BY DEF TypeOK
<1>2. Kept(s) \in Status
    BY <1>1, KeptStatus
<1> QED
    BY <1>1, <1>2, StatusIsWritten DEF Writes

THEOREM InitIInv == Init => IInv
<1> SUFFICES ASSUME Init PROVE IInv
    OBVIOUS
<1>1. NoStatus \in Status
    BY DEF NoStatus, Status, Reasons, None
<1>2. NoRecord \in Record
    BY <1>1 DEF NoRecord, Record, None
<1>3. TypeOK
    BY <1>1, <1>2, SMT DEF Init, TypeOK, PassSteps, None, NoRecord
<1>4. /\ pc = "idle" /\ stops = 0 /\ vm = "absent" /\ taken = 0 /\ bounced = 0
      /\ rec.state = "none" /\ rec.gen = 0 /\ rec.restart = 0
      /\ rec.status.restart = 0 /\ rec.status.reason # "Stopped"
    BY DEF Init, NoRecord, NoStatus, None
<1>5. HoldsStoredStatus /\ StopIsRecorded /\ StopIsDue /\ RestartsInOrder
    BY <1>4 DEF HoldsStoredStatus, StopIsRecorded, StopIsDue, StopSteps, RestartsInOrder
<1>6. DownStaysDown /\ BootsAreRecorded /\ DeletionIsAlone
    BY <1>4 DEF DownStaysDown, BootsAreRecorded, DeletionIsAlone, DeleteSteps, SetupSteps
<1>7. StoppedMeansDown /\ VmIsAssigned /\ ReleasedLeavesNothing
    BY <1>4 DEF StoppedMeansDown, VmIsAssigned, ReleasedLeavesNothing, IsStopped
<1> QED
    BY <1>3, <1>5, <1>6, <1>7 DEF IInv

-----------------------------------------------------------------------------
(* Requests, and passes that end.                                          *)

LEMMA ReasonNames ==
    {"Stopping", "Stopped", "Starting", "ProviderSelected", "Ready", "ProviderResolutionFailed",
     "SandboxReconcileFailed", "AccessFailed", "SandboxUnresponsive"} \subseteq Reasons
BY Zenon DEF Reasons, FailedReasons

LEMMA Typed ==
    ASSUME IInv
    PROVE  /\ rec \in Record /\ snap \in Record /\ failing \in Status
           /\ rec.gen \in Nat /\ rec.restart \in Nat /\ rec.status.restart \in Nat
           /\ snap.gen \in Nat /\ snap.restart \in Nat /\ snap.status.restart \in Nat
           /\ stops \in Nat /\ stops <= rec.gen /\ taken \in Nat /\ taken <= rec.gen
           /\ bounced \in Nat /\ faults \in Nat /\ lastStart \in Nat
           /\ vm \in {"absent", "stopped", "running"} /\ pc \in PassSteps
BY RecordFields DEF IInv, TypeOK, RestartsInOrder

(* A request stores a new row over an agent that is not being deleted; the *)
(* pass that runs is not disturbed.                                        *)
LEMMA PutKeeps ==
    ASSUME IInv, NEW r \in Record, Put(r),
           rec.state \in {"none", "active"}, r.state = "active",
           rec.gen <= r.gen, rec.restart <= r.restart, r.restart <= r.gen,
           r.status = rec.status, stops' \in Nat, stops' <= r.gen
    PROVE  IInv'
<1>1. /\ rec' = r /\ vm' = vm /\ pc' = pc /\ snap' = snap /\ taken' = taken /\ failing' = failing
      /\ faults' = faults
      /\ bounced' = IF vm # "running" THEN r.restart ELSE bounced
      /\ lastStart' = r.gen \/ lastStart' = lastStart
    BY DEF Put, pass
<1>2. r.gen \in Nat /\ r.restart \in Nat /\ r.status.restart \in Nat
    BY RecordFields
<1>3. TypeOK'
    BY <1>1, <1>2, Typed DEF IInv, TypeOK
<1>4. pc \notin DeleteSteps
    BY DEF IInv, DeletionIsAlone
<1>5. RestartsInOrder'
    BY <1>1, <1>2, Typed DEF IInv, RestartsInOrder
<1>6. DownStaysDown' /\ BootsAreRecorded' /\ DeletionIsAlone'
    BY <1>1, <1>4 DEF IInv, DownStaysDown, BootsAreRecorded, DeletionIsAlone
<1>7. HoldsStoredStatus' /\ StopIsRecorded' /\ StopIsDue'
    BY <1>1 DEF IInv, HoldsStoredStatus, StopIsRecorded, StopIsDue, AlreadyStopping, Current,
        RecordedByStop, Kept, NotReady, Observed
<1>8. StoppedMeansDown' /\ VmIsAssigned' /\ ReleasedLeavesNothing'
    BY <1>1 DEF IInv, StoppedMeansDown, VmIsAssigned, ReleasedLeavesNothing, IsStopped
<1> QED
    BY <1>3, <1>5, <1>6, <1>7, <1>8 DEF IInv

(* A pass may end wherever the row tells the truth of the VM.              *)
LEMMA EndKeeps ==
    ASSUME IInv, End, rec' \in Record, rec'.gen = rec.gen, rec'.restart = rec.restart,
           vm' \in {"absent", "stopped", "running"}, bounced' \in Nat, faults' \in Nat,
           lastStart' = lastStart, stops' \in Nat, stops' <= rec.gen,
           rec'.status.restart <= bounced', bounced' <= rec.restart,
           vm' # "running" => bounced' = rec.restart,
           rec'.state = "none" => rec.state = "none",
           rec'.status.reason = "Stopped" => vm' # "running",
           vm' # "absent" => rec'.status.sandbox # "none",
           rec'.state = "finalized" => vm' = "absent" /\ stops' = None
    PROVE  IInv'
<1>1. NoStatus \in Status
    BY DEF NoStatus, Status, Reasons, None
<1>2. pc' = "idle" /\ snap' \in Record /\ taken' = 0 /\ failing' \in Status
    BY <1>1 DEF End, NoRecord, Record, None
<1>3. TypeOK'
    BY <1>2, Typed DEF TypeOK, PassSteps
<1>4. RestartsInOrder'
    BY <1>2, Typed DEF IInv, RestartsInOrder
<1>5. HoldsStoredStatus' /\ StopIsRecorded' /\ StopIsDue'
    BY <1>2 DEF HoldsStoredStatus, StopIsRecorded, StopIsDue, StopSteps
<1>6. DownStaysDown' /\ BootsAreRecorded' /\ DeletionIsAlone'
    BY <1>2 DEF IInv, DownStaysDown, BootsAreRecorded, DeletionIsAlone, DeleteSteps, SetupSteps
<1>7. StoppedMeansDown' /\ VmIsAssigned' /\ ReleasedLeavesNothing'
    BY DEF StoppedMeansDown, VmIsAssigned, ReleasedLeavesNothing, IsStopped
<1> QED
    BY <1>3, <1>4, <1>5, <1>6, <1>7 DEF IInv

(* It may also end without a change of the row and the VM.                 *)
LEMMA EndLeaves ==
    ASSUME IInv, End, UNCHANGED <<rec, vm, bounced, lastStart>>, faults' \in Nat,
           \/ stops' = stops \/ stops' = None
           \/ stops' = taken /\ rec.state # "finalized"
    PROVE  IInv'
<1>1. stops' \in Nat /\ stops' <= rec.gen
    BY Typed DEF None
<1>2. rec.state = "finalized" => vm = "absent" /\ stops' = None
    BY DEF IInv, ReleasedLeavesNothing, None
<1> QED
    BY <1>1, <1>2, EndKeeps, Typed DEF IInv, RestartsInOrder, StoppedMeansDown, IsStopped, VmIsAssigned

(* The row of the next generation.                                         *)
LEMMA ChangedRow ==
    ASSUME rec \in Record
    PROVE  /\ Changed \in Record /\ Changed.state = rec.state /\ Changed.gen = rec.gen + 1
           /\ Changed.restart = rec.restart /\ Changed.status = rec.status
BY RecordFields DEF Changed, Record

LEMMA ControlPlaneKeeps == IInv /\ ControlPlane => IInv'
<1> SUFFICES ASSUME IInv, ControlPlane PROVE IInv'
    OBVIOUS
<1>0. rec \in Record /\ rec.gen \in Nat /\ rec.restart \in Nat /\ rec.restart <= rec.gen
      /\ stops \in Nat /\ stops <= rec.gen
    BY Typed DEF IInv, RestartsInOrder
<1>1. ASSUME NEW run \in {"Running", "Stopped"}, Create(run) PROVE IInv'
  <2> DEFINE r == [rec EXCEPT !.state = "active", !.gen = 1, !.run = run]
  <2>1. rec.gen = 0 /\ rec.state = "none" /\ stops' = stops /\ Put(r)
    BY <1>1 DEF Create, IInv, DeletionIsAlone
  <2>2. /\ r \in Record /\ r.state = "active" /\ r.gen = 1 /\ r.restart = rec.restart
        /\ r.status = rec.status
    BY <1>0 DEF Record
  <2> HIDE DEF r
  <2>3. rec.gen <= r.gen /\ rec.restart <= r.restart /\ r.restart <= r.gen /\ stops' \in Nat /\ stops' <= r.gen
    BY <1>0, <2>1, <2>2
  <2> QED
    BY <2>1, <2>2, <2>3, PutKeeps
<1>2. ASSUME NEW run \in {"Running", "Stopped"}, rec.state = "active", stops' \in Nat, stops' <= rec.gen + 1,
             Put([Changed EXCEPT !.run = run])
      PROVE  IInv'
  <2> DEFINE r == [Changed EXCEPT !.run = run]
  <2>1. Put(r)
    BY <1>2
  <2>2. /\ r \in Record /\ r.state = rec.state /\ r.gen = rec.gen + 1 /\ r.restart = rec.restart
        /\ r.status = rec.status
    BY <1>0, ChangedRow DEF Record
  <2> HIDE DEF r
  <2>3. rec.gen <= r.gen /\ rec.restart <= r.restart /\ r.restart <= r.gen /\ stops' <= r.gen
    BY <1>0, <1>2, <2>2
  <2> QED
    BY <1>2, <2>1, <2>2, <2>3, PutKeeps
<1>3. ASSUME NEW run \in {"Running", "Stopped"}, Apply(run) \/ SetRunState(run) PROVE IInv'
  <2>1. rec.state = "active" /\ stops' = stops /\ Put([Changed EXCEPT !.run = run])
    BY <1>3 DEF Apply, SetRunState, CanChange, Active
  <2>2. stops' \in Nat /\ stops' <= rec.gen + 1
    BY <1>0, <2>1
  <2> QED
    BY <1>2, <2>1, <2>2
<1>4. ASSUME NEW now \in BOOLEAN, Restart(now) PROVE IInv'
  <2> DEFINE r == [Changed EXCEPT !.run = "Running", !.restart = rec.gen + 1]
  <2>1. Put(r) /\ rec.state = "active" /\ stops' = IF now THEN rec.gen + 1 ELSE stops
    BY <1>4 DEF Restart, CanChange, Active
  <2>2. /\ r \in Record /\ r.state = rec.state /\ r.gen = rec.gen + 1 /\ r.restart = rec.gen + 1
        /\ r.status = rec.status
    BY <1>0, ChangedRow DEF Record
  <2> HIDE DEF r
  <2>3. rec.gen <= r.gen /\ rec.restart <= r.restart /\ r.restart <= r.gen
    BY <1>0, <2>2
  <2>4. stops' \in Nat /\ stops' <= r.gen
    BY <1>0, <2>1, <2>2
  <2> QED
    BY <2>1, <2>2, <2>3, <2>4, PutKeeps
<1>5. CASE StopNow
  <2>1. CASE rec.run = "Running"
    <3>1. rec.state = "active" /\ stops' = rec.gen + 1 /\ Put([Changed EXCEPT !.run = "Stopped"])
        BY <1>5, <2>1 DEF StopNow, Active
    <3>2. stops' \in Nat /\ stops' <= rec.gen + 1
        BY <1>0, <3>1
    <3> QED
        BY <1>2, <3>1, <3>2
  <2>2. CASE rec.run # "Running"
    <3>1. /\ Active /\ stops' = rec.gen
          /\ UNCHANGED <<rec, vm, pc, snap, taken, failing, faults, bounced, lastStart>>
        BY <1>5, <2>2 DEF StopNow, pass
    <3>2. TypeOK' /\ RestartsInOrder'
        BY <1>0, <3>1 DEF IInv, TypeOK, RestartsInOrder
    <3>3. HoldsStoredStatus' /\ StopIsRecorded' /\ StopIsDue'
        BY <3>1 DEF IInv, HoldsStoredStatus, StopIsRecorded, StopIsDue, AlreadyStopping, Current,
            RecordedByStop, Kept, NotReady, Observed
    <3>4. DownStaysDown' /\ BootsAreRecorded' /\ DeletionIsAlone'
        BY <3>1 DEF IInv, DownStaysDown, BootsAreRecorded, DeletionIsAlone, Active
    <3>5. StoppedMeansDown' /\ VmIsAssigned' /\ ReleasedLeavesNothing'
        BY <3>1 DEF IInv, StoppedMeansDown, VmIsAssigned, ReleasedLeavesNothing, IsStopped, Active
    <3> QED
        BY <3>2, <3>3, <3>4, <3>5 DEF IInv
  <2> QED
    BY <2>1, <2>2
<1>6. CASE Delete
  <2> DEFINE r == [rec EXCEPT !.state = "deleting"]
  <2>1. /\ r \in Record /\ r.state = "deleting" /\ r.gen = rec.gen /\ r.restart = rec.restart
        /\ r.status = rec.status
    BY <1>0 DEF Record
  <2>2. rec' = r /\ rec.state = "active" /\ UNCHANGED <<stops, vm, pc, snap, taken, failing, faults, bounced, lastStart>>
    BY <1>6 DEF Delete, Active, pass
  <2> QED
    BY <2>1, <2>2 DEF IInv, TypeOK, HoldsStoredStatus, StopIsRecorded, StopIsDue, AlreadyStopping, Current,
        RecordedByStop, Kept, NotReady, Observed, RestartsInOrder, DownStaysDown, BootsAreRecorded,
        DeletionIsAlone, StoppedMeansDown, VmIsAssigned, ReleasedLeavesNothing, IsStopped
<1> QED
    BY <1>1, <1>3, <1>4, <1>5, <1>6 DEF ControlPlane

-----------------------------------------------------------------------------
(* Steps of a pass.                                                        *)

(* The pass holds the assignment and the observed restart of the row, in a *)
(* stop too.                                                               *)
LEMMA HeldStatus ==
    ASSUME IInv, pc # "idle"
    PROVE  /\ snap.status.restart = rec.status.restart
           /\ snap.status.sandbox = rec.status.sandbox
           /\ pc \notin StopSteps => snap.status = rec.status
<1>1. pc \in PassSteps \ {"idle"} /\ snap \in Record /\ "Stopping" \in Reasons
    BY Typed, ReasonNames
<1>2. CASE pc \notin StopSteps
    BY <1>1, <1>2 DEF IInv, HoldsStoredStatus
<1>3. CASE pc \in StopSteps /\ rec.status = snap.status
    BY <1>3
<1>4. CASE pc \in StopSteps /\ rec.status # snap.status
  <2> DEFINE s == NotReady(snap, "Stopping")
  <2>1. rec.status = Kept(s)
    BY <1>4 DEF IInv, StopIsRecorded
  <2>2. s \in Status /\ s.restart = None /\ s.sandbox = snap.status.sandbox
    BY <1>1, NotReadyStatus
  <2> HIDE DEF s
  <2> QED
    BY <1>1, <1>4, <2>1, <2>2, KeptStatus
<1> QED
    BY <1>2, <1>3, <1>4

(* A pass that goes on leaves the row's lifecycle and desired state alone. *)
LEMMA StepKeeps ==
    ASSUME IInv, pc # "idle", pc' \in PassSteps, pc' # "idle",
           rec' \in Record, rec'.state = rec.state, rec'.gen = rec.gen, rec'.restart = rec.restart,
           snap' \in Record, snap'.restart = snap.restart, failing' \in Status,
           faults' = faults, lastStart' = lastStart,
           stops' \in Nat, stops' <= rec.gen, taken' \in Nat, taken' <= rec.gen,
           VmUnchanged \/ \E state \in {"absent", "stopped", "running"} : SetVm(state),
           rec'.status.restart <= bounced',
           HoldsStoredStatus', StopIsRecorded', StopIsDue', DownStaysDown', BootsAreRecorded',
           pc' \in DeleteSteps => rec.state = "deleting" /\ stops' = None,
           StoppedMeansDown', VmIsAssigned'
    PROVE  IInv'
<1>1. rec.state \notin {"none", "finalized"}
    BY DEF IInv, DeletionIsAlone
<1>2. /\ vm' \in {"absent", "stopped", "running"} /\ bounced' \in Nat
      /\ bounced' <= rec.restart /\ (vm' # "running" => bounced' = rec.restart)
      /\ bounced' >= bounced
    BY Typed DEF VmUnchanged, SetVm, IInv, RestartsInOrder
<1>3. TypeOK'
    BY <1>2, Typed DEF TypeOK
<1>4. RestartsInOrder'
    BY <1>2 DEF IInv, RestartsInOrder
<1>5. DeletionIsAlone' /\ ReleasedLeavesNothing'
    BY <1>1 DEF DeletionIsAlone, ReleasedLeavesNothing
<1> QED
    BY <1>3, <1>4, <1>5 DEF IInv

(* A pass that ends with a status written.                                 *)
LEMMA WriteAndEndKeeps ==
    ASSUME IInv, pc # "idle", NEW s \in Status, Writes(s), End,
           stops' = stops, VmUnchanged, PassOnly,
           s.restart = None \/ s.restart <= bounced,
           s.reason = "Stopped" => vm # "running",
           s.sandbox = "none" => vm = "absent"
    PROVE  IInv'
<1>1. /\ rec' \in Record /\ rec'.state = rec.state /\ rec'.gen = rec.gen
      /\ rec'.restart = rec.restart
      /\ rec'.status = Kept(s) \/ rec'.status = rec.status
    BY WritesRow DEF IInv
<1>2. /\ Kept(s).reason = s.reason /\ Kept(s).sandbox = s.sandbox
      /\ Kept(s).restart = IF s.restart = None THEN snap.status.restart ELSE s.restart
    BY Typed, KeptStatus
<1>3. /\ vm' = vm /\ bounced' = bounced /\ faults' = faults /\ lastStart' = lastStart
      /\ rec.state # "finalized"
    BY DEF VmUnchanged, PassOnly, IInv, DeletionIsAlone
<1>4. rec'.status.restart <= bounced /\ bounced <= rec.restart /\ (vm # "running" => bounced = rec.restart)
    BY <1>1, <1>2, HeldStatus DEF IInv, RestartsInOrder
<1>5. /\ rec'.status.reason = "Stopped" => vm # "running"
      /\ vm # "absent" => rec'.status.sandbox # "none"
    BY <1>1, <1>2 DEF IInv, StoppedMeansDown, IsStopped, VmIsAssigned
<1> QED
    BY <1>1, <1>3, <1>4, <1>5, EndKeeps, Typed

LEMMA ConflictKeeps ==
    ASSUME IInv, NEW s, EndsOnConflict(s)
    PROVE  IInv'
BY EndLeaves, Typed DEF EndsOnConflict, VmUnchanged, PassOnly

(* A pass that goes on with the status it wrote.                           *)
LEMMA WriteAndHoldKeeps ==
    ASSUME IInv, pc # "idle", NEW s \in Status, Writes(s), Kept(s) = snap.status => rec.status = snap.status,
           NEW step \in PassSteps \ (StopSteps \cup DeleteSteps \cup {"idle", "writeStopping"}),
           GoHolding(step, s), stops' \in Nat, stops' <= rec.gen, VmUnchanged, PassOnly,
           s.restart = None \/ s.restart <= bounced,
           s.reason = "Stopped" => vm # "running",
           s.sandbox = "none" => vm = "absent",
           step \in {"settle", "writeRestarting"} => vm # "running",
           step \in SetupSteps \cup {"writeStarting"} => s.sandbox # "none",
           step = "ensure" => s.reason # "Stopped",
           step # "setupFailed"
    PROVE  IInv'
<1>1. /\ rec' \in Record /\ rec'.state = rec.state /\ rec'.gen = rec.gen
      /\ rec'.restart = rec.restart
      /\ rec'.status = Kept(s)
    BY WritesRow DEF IInv
<1>2. /\ Kept(s) \in Status /\ Kept(s).reason = s.reason /\ Kept(s).sandbox = s.sandbox
      /\ Kept(s).restart = IF s.restart = None THEN snap.status.restart ELSE s.restart
    BY Typed, KeptStatus
<1>3. /\ vm' = vm /\ bounced' = bounced /\ faults' = faults /\ lastStart' = lastStart
      /\ pc' = step /\ taken' = taken /\ failing' = failing
    BY DEF VmUnchanged, PassOnly, GoHolding
<1>4. snap' \in Record /\ snap'.status = Kept(s) /\ snap'.restart = snap.restart
    BY <1>2, Typed, StatusIsWritten DEF GoHolding
<1>5. rec'.status.restart <= bounced
    BY <1>1, <1>2, HeldStatus DEF IInv, RestartsInOrder
<1>6. HoldsStoredStatus' /\ StopIsRecorded' /\ StopIsDue'
    BY <1>1, <1>3, <1>4 DEF HoldsStoredStatus, StopIsRecorded, StopIsDue
<1>7. DownStaysDown' /\ BootsAreRecorded'
    BY <1>2, <1>3, <1>4 DEF DownStaysDown, BootsAreRecorded, StopSteps, DeleteSteps
<1>8. StoppedMeansDown' /\ VmIsAssigned'
    BY <1>1, <1>2, <1>3 DEF StoppedMeansDown, IsStopped, VmIsAssigned
<1> QED
    BY <1>1, <1>3, <1>4, <1>5, <1>6, <1>7, <1>8, StepKeeps, Typed

LEMMA PassReadsKeeps == IInv /\ PassReads => IInv'
<1> SUFFICES ASSUME IInv, PassReads PROVE IInv'
    OBVIOUS
<1>1. /\ pc = "idle" /\ snap' = rec /\ rec' = rec /\ failing' = failing /\ vm' = vm
      /\ bounced' = bounced /\ faults' = faults /\ lastStart' = lastStart
      /\ rec.state \in {"active", "deleting"} /\ rec \in Record
    BY Typed DEF PassReads, VmUnchanged, PassOnly
<1>2. /\ stops' \in Nat /\ stops' <= rec.gen /\ taken' \in Nat /\ taken' <= rec.gen
    BY Typed DEF PassReads, Supersede, None
<1>3. \/ rec.state = "deleting" /\ stops' = None /\ pc' \in {"killForDelete", "release"}
      \/ rec.state = "active" /\ pc' = "stop" /\ Current(rec) /\ RecordedByStop(rec.status)
      \/ rec.state = "active" /\ pc' = "writeStopping" /\ ~(Current(rec) /\ RecordedByStop(rec.status))
      \/ rec.state = "active" /\ pc' = "resolve"
      \/ rec.state = "active" /\ pc' = "writeStarting" /\ rec.status.sandbox # "none"
      \/ /\ rec.state = "active" /\ pc' = "ensure" /\ rec.status.sandbox # "none"
         /\ ~RecordedByStop(rec.status)
    BY DEF PassReads, SetupEntry
<1>4. TypeOK' /\ RestartsInOrder'
    BY <1>1, <1>2, <1>3, Typed DEF IInv, TypeOK, RestartsInOrder, PassSteps
<1>5. HoldsStoredStatus' /\ StopIsRecorded' /\ StopIsDue'
    BY <1>1, <1>3 DEF HoldsStoredStatus, StopIsRecorded, StopIsDue, StopSteps, AlreadyStopping, Current,
        RecordedByStop
<1>6. DownStaysDown' /\ DeletionIsAlone'
    BY <1>1, <1>3 DEF DownStaysDown, DeletionIsAlone, DeleteSteps
<1>7. BootsAreRecorded'
    BY <1>1, <1>3 DEF BootsAreRecorded, SetupSteps, RecordedByStop
<1>8. StoppedMeansDown' /\ VmIsAssigned' /\ ReleasedLeavesNothing'
    BY <1>1 DEF IInv, StoppedMeansDown, IsStopped, VmIsAssigned, ReleasedLeavesNothing
<1> QED
    BY <1>4, <1>5, <1>6, <1>7, <1>8 DEF IInv

(* What StopsVm leaves: a VM that is down, and none where none was.        *)
LEMMA StopsVmTakesDown ==
    ASSUME IInv, pc # "idle", StopsVm
    PROVE  /\ vm' # "running" /\ (vm = "absent" => vm' = "absent")
           /\ VmUnchanged \/ \E state \in {"absent", "stopped", "running"} : SetVm(state)
           /\ bounced' >= bounced
<1>1. snap.status.sandbox = "none" => vm = "absent"
    BY HeldStatus DEF IInv, VmIsAssigned
<1>2. Down \in {"absent", "stopped"} /\ (vm = "absent" => Down = "absent")
    BY Typed DEF Down
<1>3. CASE snap.status.sandbox = "none"
    BY <1>1, <1>3, Typed DEF StopsVm, VmUnchanged
<1>4. CASE snap.status.sandbox # "none"
    BY <1>2, <1>4, Typed DEF StopsVm, SetVm, IInv, RestartsInOrder
<1> QED
    BY <1>3, <1>4

(* A step that only changes the VM for the worse, the pass and requests.   *)
LEMMA RowStaysKeeps ==
    ASSUME IInv, pc # "idle", pc' \in PassSteps, pc' # "idle", UNCHANGED <<rec, snap>>, PassOnly,
           failing' \in Status, stops' \in Nat, stops' <= rec.gen, taken' \in Nat, taken' <= rec.gen,
           VmUnchanged \/ \E state \in {"absent", "stopped", "running"} : SetVm(state),
           pc' \in StopSteps <=> pc \in StopSteps, pc' # "writeStopping",
           DownStaysDown', BootsAreRecorded',
           pc' \in DeleteSteps => rec.state = "deleting" /\ stops' = None,
           vm' = "running" => rec.status.reason # "Stopped",
           vm' # "absent" => rec.status.sandbox # "none"
    PROVE  IInv'
<1>1. HoldsStoredStatus' /\ StopIsRecorded' /\ StopIsDue'
    BY Typed DEF IInv, HoldsStoredStatus, StopIsRecorded, StopIsDue, AlreadyStopping, Current,
        RecordedByStop, Kept, NotReady, Observed
<1>2. StoppedMeansDown' /\ VmIsAssigned'
    BY DEF StoppedMeansDown, IsStopped, VmIsAssigned
<1>3. rec'.status.restart <= bounced'
    BY Typed DEF IInv, RestartsInOrder, VmUnchanged, SetVm
<1> QED
    BY <1>1, <1>2, <1>3, StepKeeps, Typed DEF PassOnly

LEMMA DeletionKeeps == IInv /\ (KillForDelete \/ Release \/ FinalizeDeletion) => IInv'
<1> SUFFICES ASSUME IInv, KillForDelete \/ Release \/ FinalizeDeletion PROVE IInv'
    OBVIOUS
<1>0. /\ pc \in DeleteSteps /\ pc # "idle" /\ rec.state = "deleting" /\ stops = None
      /\ vm # "absent" => rec.status.sandbox # "none"
    BY DEF KillForDelete, Release, FinalizeDeletion, DeleteSteps, IInv, DeletionIsAlone, VmIsAssigned
<1>1. ASSUME pc' \in {"release", "finalize"}, UNCHANGED <<rec, snap, taken, failing, stops>>, PassOnly,
             VmUnchanged \/ \E state \in {"absent", "stopped", "running"} : SetVm(state),
             vm' = "running" => vm = "running", vm = "absent" => vm' = "absent",
             pc' = "finalize" => vm' = "absent"
      PROVE  IInv'
  <2>1. pc' \in PassSteps /\ pc' # "idle" /\ pc' # "writeStopping" /\ pc' \notin StopSteps /\ pc \notin StopSteps
        /\ DownStaysDown' /\ BootsAreRecorded'
    BY <1>0, <1>1 DEF PassSteps, StopSteps, DeleteSteps, DownStaysDown, BootsAreRecorded, SetupSteps
  <2>2. /\ vm' = "running" => rec.status.reason # "Stopped"
        /\ vm' # "absent" => rec.status.sandbox # "none"
    BY <1>0, <1>1 DEF IInv, StoppedMeansDown, IsStopped
  <2> QED
    BY <1>0, <1>1, <2>1, <2>2, RowStaysKeeps, Typed
<1>2. CASE KillForDelete
  <2>1. CASE StopsVm /\ Go("release") /\ UNCHANGED <<stops, rec>> /\ PassOnly
    BY <1>0, <1>1, <2>1, StopsVmTakesDown DEF Go
  <2>2. CASE VmUnchanged /\ End /\ stops' = taken /\ UNCHANGED rec /\ PassOnly
    BY <1>0, <2>2, EndLeaves, Typed DEF VmUnchanged, PassOnly
  <2> QED
    BY <1>2, <2>1, <2>2 DEF KillForDelete
<1>3. CASE Release
  <2>1. CASE snap.status.sandbox = "none" /\ VmUnchanged /\ Go("finalize") /\ UNCHANGED <<stops, rec>> /\ PassOnly
    BY <1>0, <1>1, <2>1, HeldStatus DEF Go, VmUnchanged
  <2>2. CASE SetVm("absent") /\ Go("finalize") /\ UNCHANGED <<stops, rec>> /\ PassOnly
    BY <1>0, <1>1, <2>2 DEF Go, SetVm
  <2>3. CASE VmUnchanged /\ End /\ UNCHANGED <<stops, rec>> /\ PassOnly
    BY <1>0, <2>3, EndLeaves, Typed DEF VmUnchanged, PassOnly
  <2> QED
    BY <1>3, <2>1, <2>2, <2>3 DEF Release
<1>4. CASE FinalizeDeletion
  <2>1. /\ pc = "finalize" /\ vm = "absent" /\ End /\ stops' = stops /\ vm' = vm /\ bounced' = bounced
        /\ faults' = faults /\ lastStart' = lastStart
    BY <1>4 DEF FinalizeDeletion, VmUnchanged, PassOnly, IInv, DownStaysDown
  <2>2. /\ rec' \in Record /\ rec'.gen = rec.gen /\ rec'.restart = rec.restart /\ rec'.status = rec.status
        /\ rec'.state # "none"
    BY <1>0, <1>4, Typed DEF FinalizeDeletion, Record
  <2> QED
    BY <1>0, <2>1, <2>2, EndKeeps, Typed DEF IInv, RestartsInOrder, None
<1> QED
    BY <1>2, <1>3, <1>4

-----------------------------------------------------------------------------
(* Stop and restart.                                                       *)

LEMMA WriteStoppingKeeps == IInv /\ WriteStopping => IInv'
<1> SUFFICES ASSUME IInv, WriteStopping PROVE IInv'
    OBVIOUS
<1> DEFINE s == NotReady(snap, "Stopping")
<1>0. pc = "writeStopping" /\ pc \notin StopSteps /\ ~AlreadyStopping
    BY DEF WriteStopping, StopSteps, IInv, StopIsDue
<1>1. CASE EndsOnConflict(s)
    BY <1>1, ConflictKeeps
<1>2. CASE Writes(s) /\ Go("stop") /\ UNCHANGED stops /\ VmUnchanged /\ PassOnly
  <2>1. /\ s \in Status /\ s.restart = None /\ s.reason = "Stopping" /\ s.sandbox = snap.status.sandbox
    BY ReasonNames, Typed, NotReadyStatus
  <2>2. StopIsRecorded'
    <3>1. rec'.status = Kept(s)
        BY <1>0, <1>2, <2>1, HeldStatus, WritesRow DEF IInv
    <3>2. snap' = snap
        BY <1>2 DEF Go
    <3> QED
        BY <1>0, <3>1, <3>2 DEF StopIsRecorded, AlreadyStopping, Current, RecordedByStop, Kept, NotReady, Observed
  <2> HIDE DEF s
  <2>3. /\ Kept(s).sandbox = snap.status.sandbox /\ Kept(s).restart = snap.status.restart
        /\ Kept(s).reason = "Stopping"
    BY <2>1, Typed, KeptStatus
  <2>4. /\ rec' \in Record /\ rec'.state = rec.state /\ rec'.gen = rec.gen /\ rec'.restart = rec.restart
        /\ rec'.status = Kept(s)
    BY <1>0, <1>2, <2>1, HeldStatus, WritesRow DEF IInv
  <2>5. /\ pc' = "stop" /\ snap' = snap /\ taken' = taken /\ failing' = failing /\ stops' = stops /\ vm' = vm
        /\ bounced' = bounced /\ faults' = faults /\ lastStart' = lastStart
    BY <1>2 DEF Go, VmUnchanged, PassOnly
  <2>6. StoppedMeansDown' /\ VmIsAssigned'
    BY <1>0, <2>3, <2>4, <2>5, HeldStatus DEF IInv, StoppedMeansDown, IsStopped, VmIsAssigned
  <2>7. rec'.status.restart <= bounced'
    BY <1>0, <2>3, <2>4, <2>5, HeldStatus DEF IInv, RestartsInOrder
  <2>8. /\ HoldsStoredStatus' /\ StopIsDue' /\ DownStaysDown' /\ BootsAreRecorded'
        /\ pc' \in PassSteps \ (DeleteSteps \cup {"idle"})
    BY <2>5 DEF HoldsStoredStatus, StopIsDue, DownStaysDown, BootsAreRecorded, SetupSteps, DeleteSteps, PassSteps,
        StopSteps
  <2> QED
    BY <1>0, <1>2, <2>2, <2>4, <2>5, <2>6, <2>7, <2>8, StepKeeps, Typed
<1> QED
    BY <1>1, <1>2 DEF WriteStopping

(* The VM goes down, or stays, while the row says Stopping.                *)
LEMMA StopKeeps == IInv /\ (BeginStop \/ CutShort \/ GracefulStop \/ Kill) => IInv'
<1> SUFFICES ASSUME IInv, BeginStop \/ CutShort \/ GracefulStop \/ Kill PROVE IInv'
    OBVIOUS
<1>0. pc \in {"stop", "stopping", "killing"}
    BY DEF BeginStop, CutShort, GracefulStop, Kill
<1>1. ASSUME pc' \in {"stopping", "killing", "stopFailed", "writeStopped"},
             UNCHANGED <<rec, snap, failing>>, PassOnly,
             stops' \in {stops, taken, None}, taken' \in {stops, taken},
             VmUnchanged \/ \E state \in {"absent", "stopped", "running"} : SetVm(state),
             vm' = "running" => vm = "running", vm = "absent" => vm' = "absent",
             pc' = "writeStopped" => vm' # "running"
      PROVE  IInv'
  <2>1. /\ pc # "idle" /\ pc' \in PassSteps /\ pc' # "idle" /\ pc' # "writeStopping" /\ pc' \in StopSteps
        /\ pc \in StopSteps /\ pc' \notin DeleteSteps /\ DownStaysDown' /\ BootsAreRecorded'
    BY <1>0, <1>1 DEF PassSteps, StopSteps, DeleteSteps, DownStaysDown, BootsAreRecorded, SetupSteps
  <2>2. /\ vm' = "running" => rec.status.reason # "Stopped"
        /\ vm' # "absent" => rec.status.sandbox # "none"
    BY <1>1 DEF IInv, StoppedMeansDown, IsStopped, VmIsAssigned
  <2>3. stops' \in Nat /\ stops' <= rec.gen /\ taken' \in Nat /\ taken' <= rec.gen
    BY <1>1, Typed DEF None
  <2> QED
    BY <1>1, <2>1, <2>2, <2>3, RowStaysKeeps, Typed
<1>2. CASE BeginStop
    BY <1>1, <1>2 DEF BeginStop, VmUnchanged
<1>3. CASE CutShort
    BY <1>1, <1>3 DEF CutShort, VmUnchanged
<1>4. CASE GracefulStop
    BY <1>0, <1>1, <1>4, StopsVmTakesDown DEF GracefulStop, Go, VmUnchanged
<1>5. CASE Kill
    BY <1>0, <1>1, <1>5, StopsVmTakesDown DEF Kill, Go, VmUnchanged
<1> QED
    BY <1>2, <1>3, <1>4, <1>5

LEMMA RecordStopFailureKeeps == IInv /\ RecordStopFailure => IInv'
<1> SUFFICES ASSUME IInv, RecordStopFailure PROVE IInv'
    OBVIOUS
<1> DEFINE s == Failed(NotReady(snap, "Stopping"))
<1>1. pc = "stopFailed" /\ snap.status.sandbox = rec.status.sandbox
    BY HeldStatus DEF RecordStopFailure
<1>2. s \in Status /\ s.restart = None /\ s.reason = "Stopping" /\ s.sandbox = snap.status.sandbox
    BY ReasonNames, Typed, NotReadyStatus, FailedStatus
<1>3. s.sandbox = "none" => vm = "absent"
    BY <1>1, <1>2 DEF IInv, VmIsAssigned
<1>4. \/ EndsOnConflict(s)
      \/ Writes(s) /\ End /\ stops' = stops /\ VmUnchanged /\ PassOnly
    BY DEF RecordStopFailure
<1> HIDE DEF s
<1> QED
    BY <1>1, <1>2, <1>3, <1>4, ConflictKeeps, WriteAndEndKeeps

LEMMA WriteStoppedKeeps == IInv /\ WriteStopped => IInv'
<1> SUFFICES ASSUME IInv, WriteStopped PROVE IInv'
    OBVIOUS
<1> DEFINE n == NotReady(snap, "Stopped")
           s == [n EXCEPT !.restart = IF snap.run = "Running" THEN None ELSE snap.restart]
<1>1. pc = "writeStopped" /\ vm # "running" /\ snap.status.sandbox = rec.status.sandbox
    BY HeldStatus DEF WriteStopped, IInv, DownStaysDown
<1>2. n \in Status /\ n.observed = snap.gen /\ n.reason = "Stopped" /\ n.sandbox = snap.status.sandbox
    BY ReasonNames, Typed, NotReadyStatus
<1>3. \/ EndsOnConflict(s)
      \/ /\ Writes(s) /\ stops' = stops /\ VmUnchanged /\ PassOnly
         /\ End \/ GoHolding("settle", s)
    BY DEF WriteStopped
<1> HIDE DEF n
<1>4. /\ s \in Status /\ s.observed = snap.gen /\ s.reason = "Stopped" /\ s.sandbox = snap.status.sandbox
      /\ s.restart = None \/ s.restart = snap.restart
    BY <1>2, Typed DEF Status, None
<1> HIDE DEF s
<1>5. s.restart = None \/ s.restart <= bounced
    BY <1>1, <1>4 DEF IInv, RestartsInOrder
<1>6. s.sandbox = "none" => vm = "absent"
    BY <1>1, <1>4 DEF IInv, VmIsAssigned
<1>7. Kept(s) = snap.status => rec.status = snap.status
  <2> SUFFICES ASSUME Kept(s) = snap.status PROVE rec.status = snap.status
    OBVIOUS
  <2>1. snap.status.reason = "Stopped" /\ snap.status.observed = snap.gen
    BY <1>4, KeptStatus, Typed
  <2> QED
    BY <1>1, <2>1 DEF IInv, StopIsRecorded, StopSteps, AlreadyStopping, Current, RecordedByStop
<1>8. CASE EndsOnConflict(s)
    BY <1>8, ConflictKeeps
<1>9. CASE Writes(s) /\ stops' = stops /\ VmUnchanged /\ PassOnly /\ End
    BY <1>1, <1>4, <1>5, <1>6, <1>9, WriteAndEndKeeps
<1>10. CASE Writes(s) /\ stops' = stops /\ VmUnchanged /\ PassOnly /\ GoHolding("settle", s)
  <2>1. /\ "settle" \in PassSteps \ (StopSteps \cup DeleteSteps \cup {"idle", "writeStopping"})
        /\ "settle" \notin SetupSteps \cup {"writeStarting"}
    BY DEF PassSteps, StopSteps, DeleteSteps, SetupSteps
  <2> QED
    BY <1>1, <1>4, <1>5, <1>6, <1>7, <1>10, <2>1, WriteAndHoldKeeps, Typed
<1> QED
    BY <1>3, <1>8, <1>9, <1>10

LEMMA SettleKeeps == IInv /\ Settle => IInv'
<1> SUFFICES ASSUME IInv, Settle PROVE IInv'
    OBVIOUS
<1>1. /\ pc = "settle" /\ UNCHANGED <<rec, stops, vm, bounced, faults, lastStart>> /\ VmUnchanged /\ PassOnly
    BY DEF Settle, VmUnchanged, PassOnly
<1>2. CASE End
    BY <1>1, <1>2, EndLeaves, Typed
<1>3. CASE Go("writeRestarting")
  <2>1. /\ pc' = "writeRestarting" /\ UNCHANGED <<snap, taken, failing>>
        /\ pc' \in PassSteps /\ pc \notin StopSteps /\ pc' \notin StopSteps \cup DeleteSteps
    BY <1>1, <1>3 DEF Go, PassSteps, StopSteps, DeleteSteps
  <2>2. DownStaysDown' /\ BootsAreRecorded'
    BY <1>1, <2>1 DEF IInv, DownStaysDown, BootsAreRecorded, SetupSteps
  <2> QED
    BY <1>1, <2>1, <2>2, RowStaysKeeps, Typed DEF IInv, StoppedMeansDown, IsStopped, VmIsAssigned
<1> QED
    BY <1>2, <1>3 DEF Settle

LEMMA WriteRestartingKeeps == IInv /\ WriteRestarting => IInv'
<1> SUFFICES ASSUME IInv, WriteRestarting PROVE IInv'
    OBVIOUS
<1> DEFINE n == NotReady(snap, "Starting")
           s == [n EXCEPT !.restart = snap.restart]
           step == IF snap.status.sandbox = "none" THEN "resolve" ELSE "ensure"
<1>1. pc = "writeRestarting" /\ vm # "running" /\ snap.status = rec.status
    BY HeldStatus DEF WriteRestarting, IInv, DownStaysDown, StopSteps
<1>2. n \in Status /\ n.reason = "Starting" /\ n.sandbox = snap.status.sandbox
    BY ReasonNames, Typed, NotReadyStatus
<1>3. \/ EndsOnConflict(s)
      \/ Writes(s) /\ Supersede(snap.gen) /\ VmUnchanged /\ PassOnly /\ GoHolding(step, s)
    BY DEF WriteRestarting
<1> HIDE DEF n
<1>4. /\ s \in Status /\ s.reason = "Starting" /\ s.sandbox = snap.status.sandbox /\ s.restart = snap.restart
    BY <1>2, Typed DEF Status
<1>5. /\ step \in PassSteps \ (StopSteps \cup DeleteSteps \cup {"idle", "writeStopping"})
      /\ step \notin {"settle", "writeRestarting", "setupFailed"}
      /\ step \in SetupSteps \cup {"writeStarting"} => s.sandbox # "none"
    BY <1>4 DEF PassSteps, StopSteps, DeleteSteps, SetupSteps
<1> HIDE DEF s, step
<1>6. s.restart <= bounced /\ (s.sandbox = "none" => vm = "absent")
    BY <1>1, <1>4 DEF IInv, RestartsInOrder, VmIsAssigned
<1>7. CASE EndsOnConflict(s)
    BY <1>7, ConflictKeeps
<1>8. CASE Writes(s) /\ Supersede(snap.gen) /\ VmUnchanged /\ PassOnly /\ GoHolding(step, s)
  <2>1. stops' \in Nat /\ stops' <= rec.gen
    BY <1>8, Typed DEF Supersede, None
  <2> QED
    BY <1>1, <1>4, <1>5, <1>6, <1>8, <2>1, WriteAndHoldKeeps
<1> QED
    BY <1>3, <1>7, <1>8

-----------------------------------------------------------------------------
(* Set up.                                                                 *)

(* The steps between the writes of a set up.                               *)
LEMMA SetupStepKeeps == IInv /\ (Resolve \/ Ensure \/ GuestSetup \/ Access) => IInv'
<1> SUFFICES ASSUME IInv, Resolve \/ Ensure \/ GuestSetup \/ Access PROVE IInv'
    OBVIOUS
<1>0. /\ pc \in {"resolve", "ensure", "guestSetup", "access"} /\ pc # "idle" /\ pc \notin StopSteps
      /\ snap.status = rec.status /\ rec.status.sandbox \in {"none", "selected", "materialized"}
    BY Typed, HeldStatus, RecordFields DEF Resolve, Ensure, GuestSetup, Access, StopSteps
<1>1. /\ vm = "running" => rec.status.reason # "Stopped"
      /\ vm # "absent" => rec.status.sandbox # "none"
    BY DEF IInv, StoppedMeansDown, IsStopped, VmIsAssigned
<1>2. ASSUME pc' \in {"writeSelected", "resolveFailed", "guestSetup", "access", "writeReady", "setupFailed"},
             UNCHANGED <<rec, snap, stops, taken>>, PassOnly, failing' \in Status,
             VmUnchanged \/ \E state \in {"absent", "stopped", "running"} : SetVm(state),
             pc' \in SetupSteps => snap.status.sandbox # "none",
             pc' = "setupFailed" =>
                 failing'.restart = None /\ failing'.sandbox # "none" /\ failing'.reason # "Stopped",
             vm' = "running" => rec.status.reason # "Stopped",
             vm' # "absent" => rec.status.sandbox # "none"
      PROVE  IInv'
  <2>1. /\ pc' \in PassSteps /\ pc' # "idle" /\ pc' # "writeStopping" /\ pc' \notin StopSteps \cup DeleteSteps
        /\ DownStaysDown' /\ BootsAreRecorded'
    BY <1>2 DEF PassSteps, StopSteps, DeleteSteps, DownStaysDown, BootsAreRecorded
  <2> QED
    BY <1>0, <1>2, <2>1, RowStaysKeeps, Typed
<1>3. ASSUME NEW reason \in Reasons, reason # "Stopped", NEW sandbox \in {"selected", "materialized"},
             SetupFails(reason, sandbox)
      PROVE  /\ pc' = "setupFailed" /\ UNCHANGED <<snap, taken>> /\ failing' \in Status
             /\ failing'.restart = None /\ failing'.sandbox # "none" /\ failing'.reason # "Stopped"
  <2> DEFINE o == Observed(snap, reason, sandbox)
  <2>1. failing' = Failed(o) /\ pc' = "setupFailed" /\ UNCHANGED <<snap, taken>>
    BY <1>3 DEF SetupFails
  <2>2. o \in Status /\ o.restart = None /\ o.sandbox # "none" /\ o.reason # "Stopped"
    <3>1. snap \in Record /\ sandbox \in {"none", "selected", "materialized"}
        BY Typed
    <3>2. o \in Status /\ o.restart = None /\ o.sandbox = sandbox /\ o.reason = reason
        BY <3>1, ObservedStatus
    <3> QED
        BY <1>3, <3>2
  <2> HIDE DEF o
  <2> QED
    BY <2>1, <2>2, FailedStatus
<1>4. CASE Resolve
  <2>1. /\ pc' \in {"writeSelected", "resolveFailed"} /\ UNCHANGED <<rec, snap, stops, taken, failing>>
        /\ PassOnly /\ VmUnchanged
    BY <1>4 DEF Resolve, Go
  <2> QED
    BY <1>1, <1>2, <2>1, Typed DEF SetupSteps, VmUnchanged
<1>5. CASE Ensure
  <2>1. /\ pc = "ensure" /\ snap.status.sandbox \in {"selected", "materialized"}
        /\ rec.status.reason # "Stopped" /\ UNCHANGED <<rec, stops>> /\ PassOnly
    BY <1>0, <1>5 DEF Ensure, IInv, BootsAreRecorded, SetupSteps
  <2>2. CASE SetVm("running") /\ Go("guestSetup")
    BY <1>0, <1>2, <2>1, <2>2, Typed DEF Go
  <2>3. CASE /\ \E state \in {vm, "stopped", "running"} : SetVm(state)
             /\ SetupFails("SandboxReconcileFailed", snap.status.sandbox)
    <3>1. \E state \in {"absent", "stopped", "running"} : SetVm(state)
        BY <2>3, Typed
    <3>2. /\ pc' = "setupFailed" /\ UNCHANGED <<snap, taken>> /\ failing' \in Status
          /\ failing'.restart = None /\ failing'.sandbox # "none" /\ failing'.reason # "Stopped"
        BY <1>3, <2>1, <2>3, ReasonNames
    <3> QED
        BY <1>0, <1>2, <2>1, <3>1, <3>2
  <2> QED
    BY <1>5, <2>2, <2>3 DEF Ensure
<1>6. CASE GuestSetup
  <2>1. /\ pc = "guestSetup" /\ snap.status.sandbox \in {"selected", "materialized"}
        /\ UNCHANGED <<rec, stops>> /\ PassOnly /\ VmUnchanged /\ vm' = vm
    BY <1>0, <1>6 DEF GuestSetup, IInv, BootsAreRecorded, SetupSteps, VmUnchanged
  <2>2. CASE Go("access")
    BY <1>1, <1>2, <2>1, <2>2, Typed DEF Go
  <2>3. CASE \E reason \in {"SandboxReconcileFailed", "SandboxUnresponsive"} :
                 SetupFails(reason, snap.status.sandbox)
    <3>1. /\ pc' = "setupFailed" /\ UNCHANGED <<snap, taken>> /\ failing' \in Status
          /\ failing'.restart = None /\ failing'.sandbox # "none" /\ failing'.reason # "Stopped"
        BY <1>3, <2>1, <2>3, ReasonNames
    <3> QED
        BY <1>1, <1>2, <2>1, <3>1
  <2> QED
    BY <1>6, <2>2, <2>3 DEF GuestSetup
<1>7. CASE Access
  <2>1. /\ pc = "access" /\ snap.status.sandbox # "none"
        /\ UNCHANGED <<rec, stops>> /\ PassOnly /\ VmUnchanged /\ vm' = vm
    BY <1>0, <1>7 DEF Access, IInv, BootsAreRecorded, SetupSteps, VmUnchanged
  <2>2. CASE Go("writeReady")
    BY <1>1, <1>2, <2>1, <2>2, Typed DEF Go
  <2>3. CASE \E reason \in {"AccessFailed", "SandboxUnresponsive"} : SetupFails(reason, "materialized")
    <3>1. /\ pc' = "setupFailed" /\ UNCHANGED <<snap, taken>> /\ failing' \in Status
          /\ failing'.restart = None /\ failing'.sandbox # "none" /\ failing'.reason # "Stopped"
        BY <1>3, <2>3, ReasonNames
    <3> QED
        BY <1>1, <1>2, <2>1, <3>1
  <2> QED
    BY <1>7, <2>2, <2>3 DEF Access
<1> QED
    BY <1>4, <1>5, <1>6, <1>7

(* The writes of a set up that goes on.                                    *)
LEMMA SetupWriteKeeps == IInv /\ (WriteSelected \/ WriteStarting) => IInv'
<1> SUFFICES ASSUME IInv, WriteSelected \/ WriteStarting PROVE IInv'
    OBVIOUS
<1>1. /\ pc \in {"writeSelected", "writeStarting"} /\ snap.status = rec.status
      /\ pc = "writeStarting" => snap.status.sandbox # "none"
    BY HeldStatus DEF WriteSelected, WriteStarting, StopSteps, IInv, BootsAreRecorded
<1>2. ASSUME NEW s \in Status, s.restart = None, s.sandbox # "none", s.reason # "Stopped",
             \/ EndsOnConflict(s)
             \/ Writes(s) /\ GoHolding("ensure", s) /\ stops' = stops /\ VmUnchanged /\ PassOnly
      PROVE  IInv'
  <2>1. CASE EndsOnConflict(s)
    BY <2>1, ConflictKeeps
  <2>2. CASE Writes(s) /\ GoHolding("ensure", s) /\ stops' = stops /\ VmUnchanged /\ PassOnly
    <3>1. "ensure" \in PassSteps \ (StopSteps \cup DeleteSteps \cup {"idle", "writeStopping"})
        BY DEF PassSteps, StopSteps, DeleteSteps
    <3> QED
        BY <1>1, <1>2, <2>2, <3>1, WriteAndHoldKeeps, Typed
  <2> QED
    BY <1>2, <2>1, <2>2
<1>3. CASE WriteSelected
  <2> DEFINE s == Observed(snap, "ProviderSelected", "selected")
  <2>1. s \in Status /\ s.restart = None /\ s.sandbox = "selected" /\ s.reason = "ProviderSelected"
    <3>1. snap \in Record /\ "ProviderSelected" \in Reasons
        BY ReasonNames, Typed
    <3> QED
        BY <3>1, ObservedStatus
  <2>2. \/ EndsOnConflict(s)
        \/ Writes(s) /\ GoHolding("ensure", s) /\ stops' = stops /\ VmUnchanged /\ PassOnly
    BY <1>3 DEF WriteSelected
  <2> HIDE DEF s
  <2> QED
    BY <1>2, <2>1, <2>2
<1>4. CASE WriteStarting
  <2> DEFINE s == NotReady(snap, "Starting")
  <2>1. s \in Status /\ s.restart = None /\ s.sandbox # "none" /\ s.reason = "Starting"
    BY <1>1, <1>4, ReasonNames, Typed, NotReadyStatus DEF WriteStarting
  <2>2. \/ EndsOnConflict(s)
        \/ Writes(s) /\ GoHolding("ensure", s) /\ stops' = stops /\ VmUnchanged /\ PassOnly
    BY <1>4 DEF WriteStarting
  <2> HIDE DEF s
  <2> QED
    BY <1>2, <2>1, <2>2
<1> QED
    BY <1>3, <1>4

(* The writes that end a pass.                                             *)
LEMMA LastWriteKeeps == IInv /\ (RecordResolveFailure \/ RecordSetupFailure \/ WriteReady) => IInv'
<1> SUFFICES ASSUME IInv, RecordResolveFailure \/ RecordSetupFailure \/ WriteReady PROVE IInv'
    OBVIOUS
<1>1. /\ pc \in {"resolveFailed", "setupFailed", "writeReady"} /\ snap.status = rec.status
      /\ rec.status.sandbox = "none" => vm = "absent"
    BY HeldStatus DEF RecordResolveFailure, RecordSetupFailure, WriteReady, StopSteps, IInv, VmIsAssigned
<1>2. ASSUME NEW s \in Status, s.restart = None, s.sandbox = "none" => vm = "absent", s.reason # "Stopped",
             \/ EndsOnConflict(s)
             \/ Writes(s) /\ End /\ stops' = stops /\ VmUnchanged /\ PassOnly
      PROVE  IInv'
    BY <1>1, <1>2, ConflictKeeps, WriteAndEndKeeps
<1>3. CASE RecordResolveFailure
  <2> DEFINE n == NotReady(snap, "ProviderResolutionFailed")
  <2>1. n \in Status /\ n.restart = None /\ n.sandbox = rec.status.sandbox /\ n.reason # "Stopped"
    <3>1. snap \in Record /\ "ProviderResolutionFailed" \in Reasons
        BY ReasonNames, Typed
    <3>2. n \in Status /\ n.restart = None /\ n.sandbox = snap.status.sandbox /\ n.reason = "ProviderResolutionFailed"
        BY <3>1, NotReadyStatus
    <3> QED
        BY <1>1, <3>2
  <2>2. \/ EndsOnConflict(Failed(n))
        \/ Writes(Failed(n)) /\ End /\ stops' = stops /\ VmUnchanged /\ PassOnly
    BY <1>3 DEF RecordResolveFailure
  <2> HIDE DEF n
  <2>3. /\ Failed(n) \in Status /\ Failed(n).restart = None /\ Failed(n).sandbox = rec.status.sandbox
        /\ Failed(n).reason # "Stopped"
    BY <2>1, FailedStatus
  <2> QED
    BY <1>1, <1>2, <2>2, <2>3
<1>4. CASE RecordSetupFailure
  <2>1. failing \in Status /\ failing.restart = None /\ failing.sandbox # "none" /\ failing.reason # "Stopped"
    BY <1>4, Typed DEF RecordSetupFailure, IInv, BootsAreRecorded
  <2> QED
    BY <1>2, <1>4, <2>1 DEF RecordSetupFailure
<1>5. CASE WriteReady
  <2> DEFINE s == Observed(snap, "Ready", "materialized")
  <2>1. s \in Status /\ s.restart = None /\ s.sandbox = "materialized" /\ s.reason = "Ready"
    <3>1. snap \in Record /\ "Ready" \in Reasons
        BY ReasonNames, Typed
    <3> QED
        BY <3>1, ObservedStatus
  <2>2. \/ EndsOnConflict(s)
        \/ Writes(s) /\ End /\ stops' = stops /\ VmUnchanged /\ PassOnly
    BY <1>5 DEF WriteReady
  <2> HIDE DEF s
  <2> QED
    BY <1>2, <2>1, <2>2
<1> QED
    BY <1>3, <1>4, <1>5

(* Dropped in the middle of ensure, a pass leaves the VM wherever it was.  *)
LEMMA AbandonSetupKeeps == IInv /\ AbandonSetup => IInv'
<1> SUFFICES ASSUME IInv, AbandonSetup PROVE IInv'
    OBVIOUS
<1>1. /\ pc # "idle" /\ End /\ UNCHANGED <<rec, stops, faults, lastStart>>
    BY DEF AbandonSetup, SetupSteps, PassOnly
<1>2. CASE VmUnchanged
    BY <1>1, <1>2, EndLeaves, Typed DEF VmUnchanged
<1>3. CASE pc = "ensure" /\ \E state \in {vm, "stopped", "running"} : SetVm(state)
  <2>1. rec.status.reason # "Stopped" /\ rec.status.sandbox # "none"
    BY <1>3, HeldStatus DEF StopSteps, SetupSteps, IInv, BootsAreRecorded
  <2>2. PICK state \in {"absent", "stopped", "running"} : SetVm(state)
    BY <1>3, Typed
  <2>3. /\ vm' = state /\ bounced' \in Nat /\ rec.status.restart <= bounced' /\ bounced' <= rec.restart
        /\ vm' # "running" => bounced' = rec.restart
    BY <2>2, Typed DEF SetVm, IInv, RestartsInOrder
  <2>4. rec.state # "finalized"
    BY <1>1 DEF IInv, DeletionIsAlone
  <2> QED
    BY <1>1, <2>1, <2>3, <2>4, EndKeeps, Typed
<1> QED
    BY <1>2, <1>3 DEF AbandonSetup

-----------------------------------------------------------------------------
(* Faults, and the theorems.                                               *)

LEMMA FaultKeeps == IInv /\ (StoreFails \/ DaemonCrashes \/ VmDies) => IInv'
<1> SUFFICES ASSUME IInv, StoreFails \/ DaemonCrashes \/ VmDies PROVE IInv'
    OBVIOUS
<1>1. CASE StoreFails \/ DaemonCrashes
  <2>1. /\ End /\ UNCHANGED <<rec, vm, bounced, lastStart>> /\ faults' \in Nat
        /\ stops' = stops \/ stops' = None
    BY <1>1, Typed DEF StoreFails, DaemonCrashes, Fault, VmUnchanged
  <2> QED
    BY <2>1, EndLeaves
<1>2. CASE VmDies
  <2>1. /\ vm = "running" /\ vm' = "stopped" /\ bounced' = rec.restart /\ faults' \in Nat
        /\ UNCHANGED <<rec, stops, pc, snap, taken, failing, lastStart>>
    BY <1>2, Typed DEF VmDies, Fault, SetVm, pass
  <2>2. TypeOK' /\ RestartsInOrder'
    BY <2>1, Typed DEF IInv, TypeOK, RestartsInOrder
  <2>3. HoldsStoredStatus' /\ StopIsRecorded' /\ StopIsDue'
    BY <2>1 DEF IInv, HoldsStoredStatus, StopIsRecorded, StopIsDue, AlreadyStopping, Current, RecordedByStop,
        Kept, NotReady, Observed
  <2>4. DownStaysDown' /\ BootsAreRecorded' /\ DeletionIsAlone'
    BY <2>1 DEF IInv, DownStaysDown, BootsAreRecorded, DeletionIsAlone
  <2>5. StoppedMeansDown' /\ VmIsAssigned' /\ ReleasedLeavesNothing'
    BY <2>1 DEF IInv, StoppedMeansDown, IsStopped, VmIsAssigned, ReleasedLeavesNothing
  <2> QED
    BY <2>2, <2>3, <2>4, <2>5 DEF IInv
<1> QED
    BY <1>1, <1>2

LEMMA StutterKeeps == IInv /\ UNCHANGED vars => IInv'
BY DEF IInv, vars, TypeOK, HoldsStoredStatus, StopIsRecorded, StopIsDue, AlreadyStopping, Current, RecordedByStop,
    Kept, NotReady, Observed, RestartsInOrder, DownStaysDown, BootsAreRecorded, DeletionIsAlone,
    StoppedMeansDown, IsStopped, VmIsAssigned, ReleasedLeavesNothing

LEMMA StepKeepsIInv == IInv /\ [Next]_vars => IInv'
<1> SUFFICES ASSUME IInv, [Next]_vars PROVE IInv'
    OBVIOUS
<1>1. CASE PassStep
    BY <1>1, PassReadsKeeps, DeletionKeeps, WriteStoppingKeeps, StopKeeps, RecordStopFailureKeeps,
        WriteStoppedKeeps, SettleKeeps, WriteRestartingKeeps, SetupStepKeeps, SetupWriteKeeps, LastWriteKeeps
    DEF PassStep
<1>2. CASE PassFindsNothing
    BY <1>2, StutterKeeps DEF PassFindsNothing
<1> QED
    BY <1>1, <1>2, ControlPlaneKeeps, StopKeeps, AbandonSetupKeeps, FaultKeeps, StutterKeeps DEF Next

LEMMA Invariance == Spec => []IInv
<1>1. Init => IInv
    BY InitIInv
<1>2. IInv /\ [Next]_vars => IInv'
    BY StepKeepsIInv
<1> QED
    BY <1>1, <1>2, PTL DEF Spec

(* While a stop takes the VM down, the row says so.                        *)
LEMMA StopsAreRecorded == IInv => NotReadyBeforeVmGoesAway
<1> SUFFICES ASSUME IInv, pc \in {"stop", "stopping", "killing", "writeStopped"}
             PROVE  rec.status.reason \in {"Stopped", "Stopping"}
    BY DEF NotReadyBeforeVmGoesAway, RecordedByStop
<1>1. snap \in Record /\ "Stopping" \in Reasons
    BY Typed, ReasonNames
<1> DEFINE s == NotReady(snap, "Stopping")
<1>2. s \in Status /\ s.reason = "Stopping"
    BY <1>1, NotReadyStatus
<1>3. \/ snap.status.reason \in {"Stopped", "Stopping"} /\ rec.status = snap.status
      \/ rec.status = Kept(s)
    BY DEF IInv, StopIsRecorded, StopSteps, AlreadyStopping, RecordedByStop
<1> HIDE DEF s
<1> QED
    BY <1>1, <1>2, <1>3, KeptStatus

(* What the row says of the VM is true, after any sequence of requests,    *)
(* passes, failures and crashes (reconciler.rs).                           *)
THEOREM AgentStaysSafe == Spec => []AgentIsSafe
<1>1. IInv => AgentIsSafe
  <2> SUFFICES ASSUME IInv PROVE AgentIsSafe
    OBVIOUS
  <2>1. NotReadyBeforeVmGoesAway
    BY StopsAreRecorded
  <2>2. RestartTookVmDown
    BY DEF IInv, RestartsInOrder, RestartTookVmDown
  <2> QED
    BY <2>1, <2>2 DEF IInv, AgentIsSafe
<1> QED
    BY <1>1, Invariance, PTL

(* A write of a row that still is what the pass read stores its status,    *)
(* also where it is skipped: then the row has it already.                  *)
LEMMA WriteIsStored ==
    ASSUME IInv, pc # "idle", NEW s \in Status, Writes(s), Storable, s.observed = snap.gen,
           pc \in StopSteps => s.reason \in {"Stopped", "Stopping"}
    PROVE  /\ rec'.status.observed = rec'.gen /\ rec'.status.reason = s.reason
           /\ rec'.status.failed = s.failed
<1>1. /\ Kept(s).observed = snap.gen /\ Kept(s).reason = s.reason /\ Kept(s).failed = s.failed
    BY Typed, KeptStatus
<1>2. Kept(s) = snap.status => rec.status = snap.status
  <2>1. CASE pc \in StopSteps
    <3> SUFFICES ASSUME Kept(s) = snap.status PROVE rec.status = snap.status
        OBVIOUS
    <3>1. AlreadyStopping
        BY <1>1, <2>1 DEF AlreadyStopping, Current, RecordedByStop
    <3> QED
        BY <2>1, <3>1 DEF IInv, StopIsRecorded
  <2>2. CASE pc \notin StopSteps
    BY <2>2, HeldStatus
  <2> QED
    BY <2>1, <2>2
<1>3. rec'.status = Kept(s) /\ rec'.gen = rec.gen
    BY <1>2, WritesRow DEF IInv
<1> QED
    BY <1>1, <1>3 DEF Storable

(* A pass that ends well leaves the row saying what the pass found, though *)
(* update_status skips the write of a status that the pass holds already.  *)
THEOREM PassEndsStored == Spec => PassEndIsStored
<1>1. ASSUME IInv, [Next]_vars, Storable, faults' = faults, stops' = stops
      PROVE  /\ pc = "writeReady" /\ pc' = "idle" /\ stops = None =>
                    IsReady(rec'.status) /\ Current(rec')
             /\ pc = "writeStopped" /\ pc' # pc => IsStopped(rec'.status) /\ Current(rec')
             /\ pc = "stopFailed" /\ pc' # pc =>
                    rec'.status.reason = "Stopping" /\ rec'.status.failed /\ Current(rec')
  <2>1. ~Fault
    BY <1>1, Typed DEF Fault
  <2>2. ASSUME pc = "writeReady", pc' = "idle", stops = None PROVE IsReady(rec'.status) /\ Current(rec')
    <3> DEFINE s == Observed(snap, "Ready", "materialized")
    <3>1. WriteReady
        BY <1>1, <2>1, <2>2 DEF Next, vars, ControlPlane, Create, Apply, SetRunState, StopNow, Restart, Delete, Put,
            pass, PassStep, PassReads, KillForDelete, Release, FinalizeDeletion, WriteStopping, BeginStop,
            GracefulStop, Kill, RecordStopFailure, WriteStopped, Settle, WriteRestarting, Resolve,
            RecordResolveFailure, WriteSelected, WriteStarting, Ensure, GuestSetup, Access, RecordSetupFailure,
            CutShort, AbandonSetup, PassFindsNothing, StoreFails, DaemonCrashes, VmDies
    <3>2. Writes(s)
        BY <1>1, <3>1 DEF WriteReady, EndsOnConflict, Conflicts
    <3>3. s \in Status /\ s.observed = snap.gen /\ s.reason = "Ready"
        <4>1. snap \in Record /\ "Ready" \in Reasons
            BY <1>1, ReasonNames, Typed
        <4> QED
            BY <4>1, ObservedStatus
    <3> HIDE DEF s
    <3> QED
        BY <1>1, <2>2, <3>2, <3>3, WriteIsStored DEF StopSteps, IsReady, Current
  <2>3. ASSUME pc = "writeStopped", pc' # pc PROVE IsStopped(rec'.status) /\ Current(rec')
    <3> DEFINE n == NotReady(snap, "Stopped")
               s == [n EXCEPT !.restart = IF snap.run = "Running" THEN None ELSE snap.restart]
    <3>1. WriteStopped
        BY <1>1, <2>1, <2>3 DEF Next, vars, ControlPlane, Create, Apply, SetRunState, StopNow, Restart, Delete, Put,
            pass, PassStep, PassReads, KillForDelete, Release, FinalizeDeletion, WriteStopping, BeginStop,
            GracefulStop, Kill, RecordStopFailure, WriteReady, Settle, WriteRestarting, Resolve,
            RecordResolveFailure, WriteSelected, WriteStarting, Ensure, GuestSetup, Access, RecordSetupFailure,
            CutShort, AbandonSetup, SetupSteps, PassFindsNothing, StoreFails, DaemonCrashes, VmDies
    <3>2. Writes(s)
        BY <1>1, <3>1 DEF WriteStopped, EndsOnConflict, Conflicts
    <3>3. n \in Status /\ n.observed = snap.gen /\ n.reason = "Stopped" /\ snap.restart \in Nat
        <4>1. snap \in Record /\ "Stopped" \in Reasons /\ snap.restart \in Nat
            BY <1>1, ReasonNames, Typed
        <4> QED
            BY <4>1, NotReadyStatus
    <3> HIDE DEF n
    <3>4. s \in Status /\ s.observed = snap.gen /\ s.reason = "Stopped"
        BY <3>3 DEF Status, None
    <3> HIDE DEF s
    <3> QED
        BY <1>1, <2>3, <3>2, <3>4, WriteIsStored DEF IsStopped, Current
  <2>4. ASSUME pc = "stopFailed", pc' # pc
        PROVE  rec'.status.reason = "Stopping" /\ rec'.status.failed /\ Current(rec')
    <3> DEFINE s == Failed(NotReady(snap, "Stopping"))
    <3>1. RecordStopFailure
        BY <1>1, <2>1, <2>4 DEF Next, vars, ControlPlane, Create, Apply, SetRunState, StopNow, Restart, Delete, Put,
            pass, PassStep, PassReads, KillForDelete, Release, FinalizeDeletion, WriteStopping, BeginStop,
            GracefulStop, Kill, WriteStopped, WriteReady, Settle, WriteRestarting, Resolve,
            RecordResolveFailure, WriteSelected, WriteStarting, Ensure, GuestSetup, Access, RecordSetupFailure,
            CutShort, AbandonSetup, SetupSteps, PassFindsNothing, StoreFails, DaemonCrashes, VmDies
    <3>2. Writes(s)
        BY <1>1, <3>1 DEF RecordStopFailure, EndsOnConflict, Conflicts
    <3>3. s \in Status /\ s.observed = snap.gen /\ s.reason = "Stopping" /\ s.failed
        <4>1. snap \in Record /\ "Stopping" \in Reasons
            BY <1>1, ReasonNames, Typed
        <4> QED
            BY <4>1, NotReadyStatus, FailedStatus
    <3> HIDE DEF s
    <3> QED
        BY <1>1, <2>4, <3>2, <3>3, WriteIsStored DEF Current
  <2> QED
    BY <2>2, <2>3, <2>4
<1> QED
    BY <1>1, Invariance, PTL DEF Spec, PassEndIsStored

====
