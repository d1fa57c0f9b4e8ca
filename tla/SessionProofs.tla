--------------------------- MODULE SessionProofs ---------------------------
(***************************************************************************)
(* Proofs about SessionLifecycle, for any number of attaches, sandboxes    *)
(* and faults.                                                             *)
(*                                                                         *)
(* The inductive invariant says what a pass may rely on between two        *)
(* awaits: a launch is prepared only while no harness lives, for the       *)
(* sandbox that the row names or after its conversation was forgotten;     *)
(* the prompt is in the row, in the launch or with a harness, in this      *)
(* order; and a pass that is about to write Running saw the harness since  *)
(* the attach it read.                                                     *)
(***************************************************************************)
EXTENDS SessionLifecycle, TLAPS

(* A pass runs only for a row that exists.                                 *)
PassHasRow == s.state \in {"none", "removed"} => pc = "idle"

(* The prompt is in the row, then in a launch, then with a harness.        *)
PromptMoves ==
    /\ PromptAtMostOnce
    /\ s.state = "none" => handed = 0
    /\ launch.prompt => pc = "start" /\ handed = 0 /\ ~s.prompt /\ ~launch.resume

(* No harness without a VM, none once the pass found or made it so.        *)
HarnessIsTracked ==
    /\ ~up => harness = "none"
    /\ up => agent.sandbox # None
    /\ pc \in {"clearReport", "recordLaunch"} => harness = "none"
    /\ pc = "finalize" /\ agent.state = "active" => harness = "none"
    /\ NoHarnessLeftBehind
    /\ HarnessHoldsCurrentToken

(* The conversation a row names is in the sandbox the row names, and so is *)
(* whoever may report; a launch elsewhere has forgotten both.              *)
ConversationIsThere ==
    /\ s.native # None => s.native = s.sandbox
    /\ reporting /\ s.state # "removed" => s.sandbox # None /\ s.sandbox = agent.sandbox
    /\ pc \in {"agent", "observe"} /\ snap.native # None => s.native # None
    /\ pc = "clearReport" => ~launch.resume /\ ~reporting
    /\ pc = "recordLaunch" => s.sandbox = launch.sandbox \/ (s.native = None /\ ~reporting)
    /\ pc \in {"writeResuming", "start"} => s.sandbox = launch.sandbox
    /\ pc \in {"recordLaunch", "writeResuming", "start"} /\ launch.resume =>
          s.native = launch.sandbox /\ s.sandbox = launch.sandbox

(* A pass reports Running only of a harness seen since the attach it read. *)
RunningIsSeen ==
    /\ RunningWasSeen
    /\ s.state = "none" => s.act = 0
    /\ snap.act <= s.act
    /\ pc = "waitInput" /\ s.act = snap.act => served
    /\ pc = "write" /\ result.state = "Running" /\ s.act = snap.act => served

IInv == TypeOK /\ PassHasRow /\ PromptMoves /\ HarnessIsTracked /\ ConversationIsThere /\ RunningIsSeen

-----------------------------------------------------------------------------
(* Types.                                                                  *)

Snapshots == [act : Nat, life : Lifecycle, native : Nat, waiting : BOOLEAN]
Launches == [sandbox : Nat, resume : BOOLEAN, prompt : BOOLEAN]
PassTyped == pc \in PassSteps /\ snap \in Snapshots /\ launch \in Launches /\ result \in Lifecycle
RestTyped ==
    /\ agent \in Agent /\ up \in BOOLEAN /\ harness \in {"none", "current", "stale"} /\ reporting \in BOOLEAN
    /\ faults \in Nat /\ handed \in Nat /\ parked \in BOOLEAN /\ served \in BOOLEAN

LEMMA TypesSplit == TypeOK <=> s \in Session /\ s.obs <= s.act /\ PassTyped /\ RestTyped
BY DEF TypeOK, PassTyped, RestTyped, Snapshots, Launches

LEMMA RowFields ==
    ASSUME NEW r \in Session
    PROVE  /\ r.state \in {"none", "active", "deleting", "removed"} /\ r.archived \in BOOLEAN
           /\ r.act \in Nat /\ r.obs \in Nat /\ r.life \in Lifecycle /\ r.sandbox \in Nat
           /\ r.native \in Nat /\ r.prompt \in BOOLEAN /\ r.waiting \in BOOLEAN /\ r.tries \in BOOLEAN
BY DEF Session

(* The ways a step of a pass leaves what the pass holds.                   *)
LEMMA LifeTypes ==
    ASSUME NEW state \in {"Starting", "Running", "Resuming", "Idle", "Archived", "Failed"}
    PROVE  /\ Life(state) \in Lifecycle /\ Life(state).state = state
           /\ LifeWith(state) \in Lifecycle /\ LifeWith(state).state = state
BY DEF Life, LifeWith, Lifecycle

LEMMA NoPass == NoSnapshot \in Snapshots /\ NoLaunch \in Launches
                  /\ NoSnapshot.act = 0 /\ NoSnapshot.native = None
                  /\ NoLaunch.prompt = FALSE /\ NoLaunch.resume = FALSE
BY LifeTypes DEF NoSnapshot, NoLaunch, Snapshots, Launches, None

LEMMA FinishTypes ==
    ASSUME PassTyped, NEW step \in PassSteps, Finish(step)
    PROVE  /\ pc' = step /\ snap' \in Snapshots /\ launch' \in Launches /\ launch' = NoLaunch
           /\ snap'.act = snap.act /\ snap'.native = None
<1>1. snap.act \in Nat
    BY DEF PassTyped, Snapshots
<1> QED
    BY <1>1, NoPass DEF Finish, Snapshots, NoSnapshot

LEMMA PassStepTypes ==
    ASSUME PassTyped,
           \/ \E step \in PassSteps : Go(step)
           \/ \E life \in Lifecycle : GoWrite(life)
           \/ Fail \/ End
    PROVE  PassTyped'
<1>1. ASSUME NEW step \in PassSteps, Go(step) PROVE PassTyped'
    BY <1>1 DEF PassTyped, Go
<1>2. "write" \in PassSteps /\ "error" \in PassSteps /\ "idle" \in PassSteps
    BY DEF PassSteps
<1>3. ASSUME NEW life \in Lifecycle, GoWrite(life) PROVE PassTyped'
    BY <1>2, <1>3, FinishTypes DEF PassTyped, GoWrite
<1>4. CASE Fail
    BY <1>2, <1>4, FinishTypes DEF PassTyped, Fail
<1>5. CASE End
    BY <1>2, <1>5, NoPass, LifeTypes DEF PassTyped, End
<1> QED
    BY <1>1, <1>3, <1>4, <1>5

LEMMA RequestTypes == TypeOK /\ Requests => TypeOK'
<1> SUFFICES ASSUME TypeOK, Requests PROVE TypeOK'
    OBVIOUS
<1>1. s \in Session /\ s.obs <= s.act /\ s.act \in Nat /\ s.obs \in Nat
    BY RowFields DEF TypeOK
<1>2. s' \in Session /\ s'.obs <= s'.act
  <2>1. ASSUME NEW b \in BOOLEAN, Create(b) PROVE s' \in Session /\ s'.obs <= s'.act
    BY <1>1, <2>1 DEF Create, Session
  <2>2. ASSUME NEW b \in BOOLEAN, SetArchived(b) PROVE s' \in Session /\ s'.obs <= s'.act
    BY <1>1, <2>2 DEF SetArchived, Session
  <2>3. CASE Activate
    <3>1. s' \in Session /\ s'.obs = s.obs /\ s'.act = s.act + 1
        BY <1>1, <2>3 DEF Activate, Session
    <3> QED
        BY <1>1, <3>1
  <2>4. CASE MarkDeleting
    BY <1>1, <2>4 DEF MarkDeleting, Session
  <2> QED
    BY <2>1, <2>2, <2>3, <2>4 DEF Requests
<1>3. parked' \in BOOLEAN /\ served' \in BOOLEAN
    BY DEF Requests, Create, SetArchived, Activate, MarkDeleting, TypeOK
<1>4. UNCHANGED <<agent, up, harness, reporting, pc, snap, launch, result, faults, handed>>
    BY DEF Requests, Create, SetArchived, Activate, MarkDeleting, Service, pass
<1> QED
    BY <1>2, <1>3, <1>4 DEF TypeOK

LEMMA EnvironmentTypes == TypeOK /\ Environment => TypeOK'
<1> SUFFICES ASSUME TypeOK, Environment PROVE TypeOK'
    OBVIOUS
<1>1. s \in Session /\ s.obs <= s.act
    BY DEF TypeOK
<1>2. s' \in Session /\ s'.obs <= s'.act
  <2>1. CASE ReportStart
    BY <1>1, <2>1 DEF ReportStart, Session
  <2>2. ASSUME NEW waiting \in BOOLEAN, ReportActivity(waiting) PROVE s' \in Session /\ s'.obs <= s'.act
    BY <1>1, <2>2 DEF ReportActivity, Session
  <2> QED
    BY <1>1, <2>1, <2>2 DEF Environment, HarnessExits, AgentChanges, VmBoots, VmGoesDown, AgentIsDeleted
<1>3. agent' \in Agent
  <2>1. agent \in Agent
    BY DEF TypeOK
  <2>2. ASSUME NEW mode \in {"ready", "blocked", "stopped"}, AgentChanges(mode) PROVE agent' \in Agent
    BY <2>1, <2>2 DEF AgentChanges, Agent
  <2>3. ASSUME NEW sandbox \in 1..MaxSandboxes, VmBoots(sandbox) PROVE agent' \in Agent
    <3>1. sandbox \in Nat
        BY <2>3, BoundsAreNatural
    <3> QED
        BY <2>1, <2>3, <3>1 DEF VmBoots, Agent
  <2>4. CASE AgentIsDeleted
    BY <2>1, <2>4 DEF AgentIsDeleted, Agent
  <2> QED
    BY <2>1, <2>2, <2>3, <2>4 DEF Environment, ReportStart, ReportActivity, HarnessExits, VmGoesDown
<1>4. up' \in BOOLEAN /\ harness' \in {"none", "current", "stale"} /\ reporting' \in BOOLEAN
    BY DEF Environment, ReportStart, ReportActivity, HarnessExits, AgentChanges, VmBoots, VmGoesDown,
        AgentIsDeleted, TypeOK
<1>5. UNCHANGED <<pc, snap, launch, result, faults, handed, parked, served>>
    BY DEF Environment, ReportStart, ReportActivity, HarnessExits, AgentChanges, VmBoots, VmGoesDown,
        AgentIsDeleted, pass
<1> QED
    BY <1>2, <1>3, <1>4, <1>5 DEF TypeOK

(* A pass types the row, the process and what it holds, each by itself.    *)
LEMMA PassRowTypes == TypeOK /\ snap.act <= s.act /\ (PassStep \/ PassIsCut) => s' \in Session /\ s'.obs <= s'.act
<1> SUFFICES ASSUME TypeOK, snap.act <= s.act, PassStep \/ PassIsCut PROVE s' \in Session /\ s'.obs <= s'.act
    OBVIOUS
<1>1. /\ s \in Session /\ s.obs <= s.act /\ snap.act \in Nat /\ snap.act <= s.act /\ launch.sandbox \in Nat
      /\ result \in Lifecycle
    BY DEF TypeOK
<1>2. CASE s' = s
    BY <1>1, <1>2
<1>3. ASSUME NEW life \in Lifecycle, WriteLife(life) PROVE s' \in Session /\ s'.obs <= s'.act
  <2>1. s' = [s EXCEPT !.life = life, !.obs = snap.act]
    BY <1>3 DEF WriteLife
  <2>2. s' \in Session /\ s'.obs = snap.act /\ s'.act = s.act
    BY <1>1, <2>1 DEF Session
  <2> QED
    BY <1>1, <2>2
<1>4. CASE WriteResuming \/ TimeoutWrites \/ Write
    BY <1>1, <1>3, <1>4, LifeTypes DEF WriteResuming, TimeoutWrites, Write
<1>5. CASE s' = [s EXCEPT !.tries = FALSE] \/ s' = [s EXCEPT !.waiting = TRUE]
           \/ s' = [s EXCEPT !.native = None, !.waiting = FALSE]
  <2>1. CASE s' = [s EXCEPT !.tries = FALSE]
    BY <1>1, <2>1 DEF Session
  <2>2. CASE s' = [s EXCEPT !.waiting = TRUE]
    BY <1>1, <2>2 DEF Session
  <2>3. CASE s' = [s EXCEPT !.native = None, !.waiting = FALSE]
    BY <1>1, <2>3 DEF Session, None
  <2> QED
    BY <1>5, <2>1, <2>2, <2>3
<1>6. CASE RecordLaunch
    BY <1>1, <1>6 DEF RecordLaunch, Session
<1>7. CASE FinalizeDeletion
  <2>1. Life("Starting") \in Lifecycle
    BY LifeTypes
  <2>2. NoSession \in Session /\ NoSession.obs = 0 /\ NoSession.act = 0
    BY <2>1 DEF NoSession, Session, None
  <2>3. s' = [NoSession EXCEPT !.state = "removed"]
    BY <1>7 DEF FinalizeDeletion
  <2> QED
    BY <2>2, <2>3 DEF Session
<1>8. CASE ArchiveResets \/ IdleResets \/ ClearReport \/ Observes \/ WaitsForInput
    BY <1>2, <1>5, <1>8 DEF ArchiveResets, IdleResets, ResetAttempts, ClearReport, Observes, ObservedAlive,
        ObservedMissing, WaitsForInput
<1>9. CASE PassReads \/ ReleaseLooks \/ ReleaseStops \/ ArchiveLooks \/ ArchiveStops \/ SettleLooks \/ AgentIsRead
           \/ IdleStops \/ Start \/ TimeoutStops \/ HandlesError \/ PassIsCut
    BY <1>2, <1>9 DEF PassReads, ReleaseLooks, ReleaseStops, ArchiveLooks, ArchiveStops, SettleLooks, AgentIsRead,
        IdleStops, Start, TimeoutStops, HandlesError, PassIsCut, Row
<1> QED
    BY <1>4, <1>6, <1>7, <1>8, <1>9 DEF PassStep

LEMMA PassRestTypes == TypeOK /\ (PassStep \/ PassIsCut) => RestTyped'
<1> SUFFICES ASSUME TypeOK, PassStep \/ PassIsCut PROVE RestTyped'
    OBVIOUS
<1>1. agent' = agent /\ up' = up
    BY DEF PassStep, PassReads, ReleaseLooks, ReleaseStops, FinalizeDeletion, ArchiveLooks, ArchiveStops,
        ArchiveResets, SettleLooks, AgentIsRead, Observes, IdleStops, IdleResets, ResetAttempts, ClearReport,
        RecordLaunch, WriteResuming, Start, WaitsForInput, TimeoutStops, TimeoutWrites, HandlesError, Write,
        PassIsCut, World
<1>2. faults' \in Nat
    BY DEF PassStep, PassReads, ReleaseLooks, ReleaseStops, FinalizeDeletion, ArchiveLooks, ArchiveStops,
        ArchiveResets, SettleLooks, AgentIsRead, Observes, IdleStops, IdleResets, ResetAttempts, ClearReport,
        RecordLaunch, WriteResuming, Start, WaitsForInput, TimeoutStops, TimeoutWrites, HandlesError, Write,
        PassIsCut, World, TypeOK
<1>3. harness' \in {"none", "current", "stale"} /\ reporting' \in BOOLEAN /\ handed' \in Nat /\ served' \in BOOLEAN
  <2>1. /\ harness \in {"none", "current", "stale"} /\ reporting \in BOOLEAN /\ handed \in Nat
        /\ served \in BOOLEAN
    BY DEF TypeOK
  <2>2. CASE Process \/ Looks
    BY <2>1, <2>2 DEF Process, Looks
  <2>3. CASE ReleaseStops \/ ArchiveStops \/ IdleStops \/ TimeoutStops
    BY <2>1, <2>3 DEF ReleaseStops, ArchiveStops, IdleStops, TimeoutStops, StopHarness, Row
  <2>4. CASE RecordLaunch
    BY <2>1, <2>4 DEF RecordLaunch
  <2>5. CASE StartsHarness
    <3>1. harness' \in {"none", "current", "stale"} /\ handed' \in Nat /\ served' \in BOOLEAN
        BY <2>1, <2>5 DEF StartsHarness
    <3>2. reporting' \in BOOLEAN
        BY <2>5, Zenon DEF StartsHarness
    <3> QED
        BY <3>1, <3>2
  <2> QED
    BY <2>2, <2>3, <2>4, <2>5 DEF PassStep, PassReads, ReleaseLooks, FinalizeDeletion, ArchiveLooks,
        ArchiveResets, SettleLooks, AgentIsRead, Observes, IdleResets, ResetAttempts, ClearReport,
        WriteResuming, Start, WaitsForInput, TimeoutWrites, HandlesError, Write, PassIsCut
<1>4. parked' \in BOOLEAN
    BY DEF PassStep, PassReads, ReleaseLooks, ReleaseStops, FinalizeDeletion, ArchiveLooks, ArchiveStops,
        ArchiveResets, SettleLooks, AgentIsRead, Observes, IdleStops, IdleResets, ResetAttempts, ClearReport,
        RecordLaunch, WriteResuming, Start, WaitsForInput, TimeoutStops, TimeoutWrites, HandlesError, Write,
        PassIsCut, Row, WriteLife, TypeOK
<1> QED
    BY <1>1, <1>2, <1>3, <1>4 DEF TypeOK, RestTyped

LEMMA PassHeldTypes == TypeOK /\ (PassStep \/ PassIsCut) => PassTyped'
<1> SUFFICES ASSUME TypeOK, PassStep \/ PassIsCut PROVE PassTyped'
    OBVIOUS
<1>1. PassTyped /\ s \in Session /\ s.life \in Lifecycle /\ snap.life \in Lifecycle /\ agent.sandbox \in Nat
    BY TypesSplit, RowFields DEF TypeOK, Agent
<1>2. /\ \A life : GoWrite(life) /\ life \in Lifecycle => PassTyped'
      /\ \A step \in PassSteps : Go(step) => PassTyped'
      /\ Fail \/ End => PassTyped'
    BY <1>1, PassStepTypes
<1>3. CASE PassReads
  <2>1. Branch(s) \in PassSteps /\ Branch(s) \in {"releaseLook", "write", "archiveLook", "settleLook", "agent"}
    BY <1>3, <1>1 DEF PassReads, Branch, PassSteps, Exists, Session
  <2>2. Snapshot(s) \in Snapshots
    <3> DEFINE read == [act |-> s.act, life |-> s.life, native |-> s.native, waiting |-> s.waiting]
    <3>1. read \in Snapshots /\ NoSnapshot \in Snapshots /\ s.act \in Nat
        BY <1>1, RowFields, NoPass DEF Snapshots
    <3>2. /\ [NoSnapshot EXCEPT !.act = s.act] \in Snapshots /\ [read EXCEPT !.native = None] \in Snapshots
          /\ [read EXCEPT !.waiting = FALSE] \in Snapshots
        BY <3>1 DEF Snapshots, None
    <3>3. Snapshot(s) \in {NoSnapshot, [NoSnapshot EXCEPT !.act = s.act], [read EXCEPT !.native = None],
                          [read EXCEPT !.waiting = FALSE]}
        BY <2>1 DEF Snapshot
    <3> HIDE DEF read
    <3> QED
        BY <3>1, <3>2, <3>3
  <2>3. result' \in Lifecycle /\ launch' = launch
    BY <1>1, <1>3, LifeTypes DEF PassReads, PassTyped
  <2> QED
    BY <1>1, <1>3, <2>1, <2>2, <2>3 DEF PassReads, PassTyped
<1>4. CASE ReleaseLooks \/ ReleaseStops \/ FinalizeDeletion
    BY <1>2, <1>4 DEF ReleaseLooks, ReleaseStops, FinalizeDeletion, StopHarness, PassSteps
<1>5. CASE ArchiveLooks \/ ArchiveStops \/ ArchiveResets \/ SettleLooks
    BY <1>1, <1>2, <1>5, LifeTypes DEF ArchiveLooks, ArchiveStops, ArchiveResets, ResetAttempts, SettleLooks,
        StopHarness, PassSteps
<1>6. CASE AgentIsRead
  <2>1. CASE launch' = [launch EXCEPT !.sandbox = agent.sandbox] /\ pc' = "observe" /\ UNCHANGED <<snap, result>>
    BY <1>1, <2>1 DEF PassTyped, Launches, PassSteps
  <2> QED
    BY <1>2, <1>6, <2>1, LifeTypes DEF AgentIsRead, PassSteps
<1>7. CASE Observes
  <2>1. CASE ObservedAlive
    BY <1>2, <2>1, LifeTypes DEF ObservedAlive, PassSteps
  <2>2. CASE ObservedMissing
    <3>1. CASE GoWrite(LifeWith("Failed"))
        BY <1>2, <3>1, LifeTypes
    <3>2. CASE /\ pc' \in {"clearReport", "recordLaunch"} /\ UNCHANGED <<snap, result>>
               /\ \E b \in BOOLEAN : launch' = [launch EXCEPT !.resume = b]
        BY <1>1, <3>2 DEF PassTyped, Launches, PassSteps
    <3> QED
        BY <2>2, <3>1, <3>2 DEF ObservedMissing
  <2> QED
    BY <1>2, <1>7, <2>1, <2>2 DEF Observes
<1>8. CASE IdleStops \/ IdleResets \/ ClearReport \/ WriteResuming
    BY <1>2, <1>8, LifeTypes DEF IdleStops, IdleResets, ResetAttempts, ClearReport, WriteResuming, StopHarness,
        PassSteps
<1>9. CASE RecordLaunch
  <2>1. (s.prompt /\ ~launch.resume) \in BOOLEAN
    OBVIOUS
  <2>2. [launch EXCEPT !.prompt = s.prompt /\ ~launch.resume] \in Launches
    BY <1>1, <2>1 DEF PassTyped, Launches
  <2> QED
    BY <1>1, <1>9, <2>2 DEF RecordLaunch, PassTyped, PassSteps
<1>10. CASE Start \/ WaitsForInput
    BY <1>2, <1>10, LifeTypes DEF Start, WaitsForInput, PassSteps
<1>11. CASE TimeoutStops \/ TimeoutWrites \/ Write \/ PassIsCut
    BY <1>2, <1>11 DEF TimeoutStops, TimeoutWrites, Write, PassIsCut, StopHarness, PassSteps
<1>12. CASE HandlesError
    BY <1>2, <1>12, LifeTypes DEF HandlesError
<1> QED
    BY <1>3, <1>4, <1>5, <1>6, <1>7, <1>8, <1>9, <1>10, <1>11, <1>12 DEF PassStep

LEMMA TypesAreKept == IInv /\ [Next]_vars => TypeOK'
<1> SUFFICES ASSUME IInv, [Next]_vars PROVE TypeOK'
    OBVIOUS
<1>1. TypeOK /\ snap.act <= s.act
    BY DEF IInv, RunningIsSeen
<1>2. CASE PassStep \/ PassIsCut
    BY <1>1, <1>2, PassRowTypes, PassRestTypes, PassHeldTypes DEF TypeOK, PassTyped, RestTyped, Snapshots, Launches
<1>3. CASE UNCHANGED vars
    BY <1>1, <1>3 DEF vars, pass, TypeOK
<1> QED
    BY <1>1, <1>2, <1>3, RequestTypes, EnvironmentTypes DEF Next, PassFindsNothing

-----------------------------------------------------------------------------
(* Rows and passes.                                                        *)

(* What a pass makes of the row's lifecycle, prompt, sandbox, conversation *)
(* and activation: little, step by step.                                   *)
LEMMA WriteLifeRow ==
    ASSUME s \in Session, snap.act \in Nat, NEW life \in Lifecycle, WriteLife(life)
    PROVE  /\ s'.state = s.state /\ s'.prompt = s.prompt /\ s'.sandbox = s.sandbox /\ s'.native = s.native
           /\ s'.act = s.act /\ s'.obs = snap.act /\ s'.life = life
BY DEF WriteLife, Session

LEMMA ForgetTriesRow ==
    ASSUME s \in Session, s' = [s EXCEPT !.tries = FALSE]
    PROVE  /\ s'.state = s.state /\ s'.prompt = s.prompt /\ s'.sandbox = s.sandbox /\ s'.native = s.native
           /\ s'.act = s.act /\ s'.obs = s.obs /\ s'.life = s.life
BY DEF Session

(* The steps that leave the row alone, or change only its attempts and     *)
(* whether the harness waits for input.                                    *)
SameRow == s'.state = s.state /\ s'.prompt = s.prompt /\ s'.sandbox = s.sandbox /\ s'.native = s.native
             /\ s'.act = s.act /\ s'.obs = s.obs /\ s'.life = s.life

LEMMA RowStays ==
    ASSUME TypeOK,
           \/ PassReads \/ ReleaseLooks \/ ReleaseStops \/ ArchiveLooks \/ ArchiveStops \/ ArchiveResets
           \/ SettleLooks \/ AgentIsRead \/ Observes \/ IdleStops \/ IdleResets \/ Start \/ WaitsForInput
           \/ TimeoutStops \/ HandlesError \/ PassIsCut
    PROVE  SameRow
<1>1. s \in Session
    BY DEF TypeOK
<1>2. CASE s' = s
    BY <1>2 DEF SameRow
<1>3. CASE s' = [s EXCEPT !.tries = FALSE]
    BY <1>1, <1>3, ForgetTriesRow DEF SameRow
<1>4. CASE s' = [s EXCEPT !.waiting = TRUE]
    BY <1>1, <1>4 DEF SameRow, Session
<1> QED
    BY <1>2, <1>3, <1>4 DEF PassReads, ReleaseLooks, ReleaseStops, ArchiveLooks, ArchiveStops, ArchiveResets,
        ResetAttempts, SettleLooks, AgentIsRead, Observes, ObservedAlive, ObservedMissing, IdleStops, IdleResets,
        Start, WaitsForInput, TimeoutStops, HandlesError, PassIsCut, Row

LEMMA PassHasRowKept == IInv /\ [Next]_vars => PassHasRow'
<1> SUFFICES ASSUME IInv, [Next]_vars PROVE PassHasRow'
    OBVIOUS
<1>1. TypeOK /\ s \in Session /\ snap.act \in Nat /\ result \in Lifecycle /\ PassHasRow
    BY DEF IInv, TypeOK
<1>2. CASE Requests
    BY <1>1, <1>2 DEF Requests, Create, SetArchived, Activate, MarkDeleting, Service, pass, Exists, Session,
        PassHasRow
<1>3. CASE Environment
    BY <1>1, <1>3 DEF Environment, ReportStart, ReportActivity, HarnessExits, AgentChanges, VmBoots, VmGoesDown,
        AgentIsDeleted, pass, Exists, Session, PassHasRow
<1>4. CASE PassReads
    BY <1>1, <1>4, RowStays DEF PassReads, Exists, SameRow, PassHasRow, Session
<1>5. CASE FinalizeDeletion \/ PassIsCut
    BY <1>5 DEF FinalizeDeletion, PassIsCut, End, PassHasRow
<1>6. CASE ClearReport \/ RecordLaunch
    BY <1>1, <1>6 DEF ClearReport, RecordLaunch, PassHasRow, Session
<1>7. CASE WriteResuming \/ TimeoutWrites \/ Write
    BY <1>1, <1>7, WriteLifeRow, LifeTypes DEF WriteResuming, TimeoutWrites, Write, PassHasRow
<1>8. CASE \/ ReleaseLooks \/ ReleaseStops \/ ArchiveLooks \/ ArchiveStops \/ ArchiveResets
           \/ SettleLooks \/ AgentIsRead \/ Observes \/ IdleStops \/ IdleResets \/ Start \/ WaitsForInput
           \/ TimeoutStops \/ HandlesError
  <2>1. SameRow
    BY <1>1, <1>8, RowStays
  <2>2. pc # "idle"
    BY <1>8 DEF ReleaseLooks, ReleaseStops, ArchiveLooks, ArchiveStops, ArchiveResets, SettleLooks, AgentIsRead,
        Observes, IdleStops, IdleResets, Start, WaitsForInput, TimeoutStops, HandlesError
  <2> QED
    BY <1>1, <2>1, <2>2 DEF PassHasRow, SameRow
<1>9. CASE UNCHANGED vars \/ PassFindsNothing
    BY <1>1, <1>9 DEF vars, pass, PassFindsNothing, PassHasRow
<1> QED
    BY <1>2, <1>3, <1>4, <1>5, <1>6, <1>7, <1>8, <1>9 DEF Next, PassStep

LEMMA PromptMovesKept == IInv /\ [Next]_vars => PromptMoves'
<1> SUFFICES ASSUME IInv, [Next]_vars PROVE PromptMoves'
    OBVIOUS
<1>1. TypeOK /\ s \in Session /\ handed \in Nat /\ snap.act \in Nat /\ result \in Lifecycle /\ PromptMoves
    BY DEF IInv, TypeOK
<1>2. CASE Requests
  <2>1. UNCHANGED <<handed, launch, pc>>
    BY <1>2 DEF Requests, Create, SetArchived, Activate, MarkDeleting, Service, pass
  <2>2. ASSUME NEW b \in BOOLEAN, Create(b) PROVE PromptMoves'
    <3>1. handed = 0 /\ ~launch.prompt
        BY <2>2 DEF Create, IInv, PromptMoves, PassHasRow
    <3>2. s'.state = "active"
        BY <1>1, <2>2 DEF Create, Session
    <3> QED
        BY <2>1, <3>1, <3>2 DEF PromptMoves, PromptAtMostOnce
  <2>3. CASE Activate \/ MarkDeleting \/ \E b \in BOOLEAN : SetArchived(b)
    <3>1. s'.prompt = s.prompt /\ (s'.state = "none" => s.state = "none")
        BY <1>1, <2>3 DEF Activate, MarkDeleting, SetArchived, Session
    <3> QED
        BY <1>1, <2>1, <3>1 DEF PromptMoves, PromptAtMostOnce
  <2> QED
    BY <1>2, <2>2, <2>3 DEF Requests
<1>3. CASE Environment
    BY <1>1, <1>3 DEF Environment, ReportStart, ReportActivity, HarnessExits, AgentChanges, VmBoots, VmGoesDown,
        AgentIsDeleted, pass, Exists, Session, PromptMoves, PromptAtMostOnce
<1>4. CASE RecordLaunch
  <2>1. s'.prompt = FALSE /\ s'.state = s.state /\ handed' = handed
    BY <1>1, <1>4 DEF RecordLaunch, Session
  <2>2. launch \in Launches /\ launch' = [launch EXCEPT !.prompt = s.prompt /\ ~launch.resume]
    BY <1>4 DEF RecordLaunch, IInv, TypeOK, Launches
  <2>3. launch'.resume = launch.resume /\ (launch'.prompt => s.prompt /\ ~launch.resume)
    BY <2>2 DEF Launches
  <2>4. pc' = "start" \/ launch.resume
    BY <1>4 DEF RecordLaunch
  <2> QED
    BY <1>1, <2>1, <2>3, <2>4 DEF PromptMoves, PromptAtMostOnce
<1>5. CASE Start
  <2>1. SameRow /\ pc = "start"
    BY <1>1, <1>5, RowStays DEF Start
  <2>2. /\ launch.prompt => ~launch.resume /\ handed = 0 /\ ~s.prompt
        /\ handed' = handed \/ (launch.prompt /\ handed' = handed + 1)
    BY <1>1, <1>5 DEF Start, StartsHarness, Process, PromptMoves
  <2>3. launch' = NoLaunch \/ (launch.resume /\ launch' = launch)
    BY <1>5 DEF Start, Go, GoWrite, Fail, Finish
  <2>4. s'.state # "none"
    BY <2>1 DEF SameRow, IInv, PassHasRow
  <2> QED
    BY <1>1, <2>1, <2>2, <2>3, <2>4, NoPass DEF PromptMoves, PromptAtMostOnce, SameRow
<1>6. ASSUME s'.prompt = s.prompt, s'.state = "none" => s.state = "none", handed' = handed,
             \/ launch' = launch /\ pc # "start"
             \/ launch' = NoLaunch
             \/ launch'.prompt = launch.prompt /\ pc # "start"
      PROVE  PromptMoves'
    BY <1>1, <1>6, NoPass DEF PromptMoves, PromptAtMostOnce
<1>7. CASE \/ PassReads \/ ReleaseLooks \/ ReleaseStops \/ ArchiveLooks \/ ArchiveStops \/ ArchiveResets
           \/ SettleLooks \/ IdleStops \/ IdleResets \/ WaitsForInput \/ TimeoutStops \/ HandlesError \/ PassIsCut
  <2>1. SameRow
    BY <1>1, <1>7, RowStays
  <2>2. handed' = handed /\ ((launch' = launch /\ pc # "start") \/ launch' = NoLaunch)
    BY <1>7 DEF PassReads, ReleaseLooks, ReleaseStops, ArchiveLooks, ArchiveStops, ArchiveResets,
        ResetAttempts, SettleLooks, IdleStops, IdleResets, WaitsForInput, TimeoutStops, HandlesError, PassIsCut,
        Process, Looks, StopHarness, Go, GoWrite, Fail, Finish, End
  <2> QED
    BY <1>6, <2>1, <2>2 DEF SameRow
<1>8. CASE AgentIsRead \/ Observes
  <2>1. SameRow
    BY <1>1, <1>8, RowStays
  <2>2. launch \in Launches
    BY DEF IInv, TypeOK, Launches
  <2>3. handed' = handed /\ pc # "start"
    BY <1>8 DEF AgentIsRead, Observes, Process, Looks
  <2>4. launch' = launch \/ launch' = NoLaunch \/ launch'.prompt = launch.prompt
    BY <1>8, <2>2 DEF AgentIsRead, Observes, ObservedAlive, ObservedMissing, Go, GoWrite, Fail, Finish, Launches
  <2> QED
    BY <1>6, <2>1, <2>3, <2>4 DEF SameRow
<1>9. CASE WriteResuming \/ TimeoutWrites \/ Write
  <2>1. s'.prompt = s.prompt /\ s'.state = s.state
    BY <1>1, <1>9, WriteLifeRow, LifeTypes DEF WriteResuming, TimeoutWrites, Write
  <2>2. handed' = handed /\ ((launch' = launch /\ pc # "start") \/ launch' = NoLaunch)
    BY <1>9 DEF WriteResuming, TimeoutWrites, Write, Process, Go, Fail, Finish, End
  <2> QED
    BY <1>6, <2>1, <2>2
<1>10. CASE ClearReport
  <2>1. s'.prompt = s.prompt /\ s'.state = s.state
    BY <1>1, <1>10 DEF ClearReport, Session
  <2> QED
    BY <1>6, <1>10, <2>1 DEF ClearReport, Process, Go
<1>11. CASE FinalizeDeletion
  <2>1. s'.prompt = FALSE /\ s'.state = "removed"
    BY <1>11 DEF FinalizeDeletion, NoSession
  <2>2. handed' = handed /\ launch' = NoLaunch
    BY <1>11 DEF FinalizeDeletion, End, Process
  <2> QED
    BY <1>1, <2>1, <2>2, NoPass DEF PromptMoves, PromptAtMostOnce
<1>12. CASE UNCHANGED vars \/ PassFindsNothing
    BY <1>1, <1>12 DEF vars, pass, PassFindsNothing, PromptMoves, PromptAtMostOnce
<1> QED
    BY <1>2, <1>3, <1>4, <1>5, <1>7, <1>8, <1>9, <1>10, <1>11, <1>12 DEF Next, PassStep

(* The harness and what a pass knows of it.                                *)
LEMMA HarnessIsTrackedKept == IInv /\ [Next]_vars => HarnessIsTracked'
<1> SUFFICES ASSUME IInv, [Next]_vars PROVE HarnessIsTracked'
    OBVIOUS
<1>1. TypeOK /\ s \in Session /\ agent \in Agent /\ snap.act \in Nat /\ result \in Lifecycle /\ HarnessIsTracked
    BY DEF IInv, TypeOK
<1>2. CASE Requests
  <2>1. UNCHANGED <<agent, up, harness, pc>> /\ (s'.state = "removed" => s.state = "removed")
    BY <1>1, <1>2 DEF Requests, Create, SetArchived, Activate, MarkDeleting, Service, pass, Exists, Session
  <2> QED
    BY <1>1, <2>1 DEF HarnessIsTracked, NoHarnessLeftBehind, HarnessHoldsCurrentToken
<1>3. CASE Environment
  <2>1. CASE AgentIsDeleted
    BY <1>1, <2>1 DEF AgentIsDeleted, pass, Agent, HarnessIsTracked, NoHarnessLeftBehind, HarnessHoldsCurrentToken
  <2>2. ASSUME NEW mode \in {"ready", "blocked", "stopped"}, AgentChanges(mode) PROVE HarnessIsTracked'
    BY <1>1, <2>2 DEF AgentChanges, pass, Agent, HarnessIsTracked, NoHarnessLeftBehind, HarnessHoldsCurrentToken
  <2>3. ASSUME NEW sandbox \in 1..MaxSandboxes, VmBoots(sandbox) PROVE HarnessIsTracked'
    BY <1>1, <2>3 DEF VmBoots, pass, Agent, HarnessIsTracked, NoHarnessLeftBehind, HarnessHoldsCurrentToken
  <2>4. CASE ReportStart \/ (\E waiting \in BOOLEAN : ReportActivity(waiting)) \/ HarnessExits \/ VmGoesDown
    BY <1>1, <2>4 DEF ReportStart, ReportActivity, HarnessExits, VmGoesDown, pass, Session, HarnessIsTracked,
        NoHarnessLeftBehind, HarnessHoldsCurrentToken
  <2> QED
    BY <1>3, <2>1, <2>2, <2>3, <2>4 DEF Environment
(* A step of a pass that goes nowhere near a launch or the row's removal.  *)
<1>4. ASSUME agent' = agent, up' = up, s'.state = s.state, harness' \in {harness, "none"},
             pc' \notin {"clearReport", "recordLaunch", "finalize"}
      PROVE  HarnessIsTracked'
    BY <1>1, <1>4 DEF HarnessIsTracked, NoHarnessLeftBehind, HarnessHoldsCurrentToken
<1>5. CASE \/ PassReads \/ ArchiveLooks \/ ArchiveResets \/ SettleLooks \/ AgentIsRead \/ IdleResets \/ WaitsForInput
           \/ HandlesError \/ PassIsCut
  <2>1. SameRow
    BY <1>1, <1>5, RowStays
  <2>2. pc' \notin {"clearReport", "recordLaunch", "finalize"}
    BY <1>1, <1>5 DEF PassReads, Branch, Exists, Session, ArchiveLooks, ArchiveResets, ResetAttempts, SettleLooks,
        AgentIsRead, IdleResets, WaitsForInput, HandlesError, PassIsCut, Go, GoWrite, Fail, Finish, End
  <2>3. agent' = agent /\ up' = up /\ harness' = harness
    BY <1>5 DEF PassReads, ArchiveLooks, ArchiveResets, ResetAttempts, SettleLooks, AgentIsRead, IdleResets,
        WaitsForInput, HandlesError, PassIsCut, World, Process, Looks
  <2> QED
    BY <1>4, <2>1, <2>2, <2>3 DEF SameRow
<1>6. CASE ArchiveStops \/ IdleStops \/ TimeoutStops
  <2>1. SameRow
    BY <1>1, <1>6, RowStays
  <2> QED
    BY <1>4, <1>6, <2>1 DEF ArchiveStops, IdleStops, TimeoutStops, StopHarness, World, SameRow, Go, Fail, Finish
<1>7. CASE WriteResuming \/ TimeoutWrites \/ Write
  <2>1. s'.state = s.state
    BY <1>1, <1>7, WriteLifeRow, LifeTypes DEF WriteResuming, TimeoutWrites, Write
  <2> QED
    BY <1>4, <1>7, <2>1 DEF WriteResuming, TimeoutWrites, Write, World, Process, Go, Fail, Finish, End
<1>8. CASE ReleaseLooks
  <2>1. SameRow
    BY <1>1, <1>8, RowStays
  <2>2. pc' = "finalize" => agent.state # "active" \/ harness = "none"
    BY <1>1, <1>8 DEF ReleaseLooks, HasSandbox, Go, End, HarnessIsTracked
  <2>3. pc' \notin {"clearReport", "recordLaunch"}
    BY <1>8 DEF ReleaseLooks, Go, End
  <2> QED
    BY <1>1, <1>8, <2>1, <2>2, <2>3 DEF ReleaseLooks, World, Process, SameRow, HarnessIsTracked,
        NoHarnessLeftBehind, HarnessHoldsCurrentToken
<1>9. CASE ReleaseStops
  <2>1. SameRow
    BY <1>1, <1>9, RowStays
  <2> QED
    BY <1>1, <1>9, <2>1 DEF ReleaseStops, StopHarness, Go, End, World, SameRow, HarnessIsTracked,
        NoHarnessLeftBehind, HarnessHoldsCurrentToken
<1>10. CASE FinalizeDeletion
    BY <1>1, <1>10 DEF FinalizeDeletion, End, World, Process, HarnessIsTracked, NoHarnessLeftBehind,
        HarnessHoldsCurrentToken
<1>11. CASE Observes
  <2>1. SameRow
    BY <1>1, <1>11, RowStays
  <2>2. agent' = agent /\ up' = up /\ harness' = harness
    BY <1>11 DEF Observes, World, Looks
  <2>3. pc' # "finalize" /\ (harness = "none" \/ pc' \notin {"clearReport", "recordLaunch"})
    BY <1>11 DEF Observes, ObservedAlive, ObservedMissing, Go, GoWrite, Fail, Finish
  <2> QED
    BY <1>1, <2>1, <2>2, <2>3 DEF SameRow, HarnessIsTracked, NoHarnessLeftBehind, HarnessHoldsCurrentToken
<1>12. CASE ClearReport
  <2>1. s'.state = s.state
    BY <1>1, <1>12 DEF ClearReport, Session
  <2> QED
    BY <1>1, <1>12, <2>1 DEF ClearReport, Go, World, Process, HarnessIsTracked, NoHarnessLeftBehind,
        HarnessHoldsCurrentToken
<1>13. CASE RecordLaunch
  <2>1. s'.state = s.state /\ harness = "none" /\ harness' = "none" /\ agent' = agent /\ up' = up
    BY <1>1, <1>13 DEF RecordLaunch, Session, World, HarnessIsTracked
  <2>2. pc' \notin {"clearReport", "recordLaunch", "finalize"}
    BY <1>13 DEF RecordLaunch
  <2> QED
    BY <1>4, <2>1, <2>2
<1>14. CASE Start
  <2>1. SameRow /\ s.state \notin {"none", "removed"}
    BY <1>1, <1>14, RowStays, RowFields DEF Start, IInv, PassHasRow
  <2>2. harness' = harness \/ (up /\ harness' = "current")
    BY <1>14 DEF Start, StartsHarness, Process
  <2>3. agent' = agent /\ up' = up
    BY <1>14 DEF Start, World
  <2>4. pc' \notin {"clearReport", "recordLaunch", "finalize"}
    BY <1>14 DEF Start, Go, GoWrite, Fail, Finish
  <2> QED
    BY <1>1, <2>1, <2>2, <2>3, <2>4 DEF SameRow, HarnessIsTracked, NoHarnessLeftBehind, HarnessHoldsCurrentToken
<1>15. CASE UNCHANGED vars \/ PassFindsNothing
    BY <1>1, <1>15 DEF vars, pass, PassFindsNothing, HarnessIsTracked, NoHarnessLeftBehind,
        HarnessHoldsCurrentToken
<1> QED
    BY <1>2, <1>3, <1>5, <1>6, <1>7, <1>8, <1>9, <1>10, <1>11, <1>12, <1>13, <1>14, <1>15 DEF Next, PassStep

LEMMA ConversationKept == IInv /\ [Next]_vars => ConversationIsThere'
<1> SUFFICES ASSUME IInv, [Next]_vars PROVE ConversationIsThere'
    OBVIOUS
<1>1. /\ TypeOK /\ s \in Session /\ agent \in Agent /\ snap.act \in Nat /\ result \in Lifecycle
      /\ launch \in Launches /\ ConversationIsThere
    BY DEF IInv, TypeOK, Launches
<1>2. CASE Requests
  <2>1. /\ UNCHANGED <<agent, reporting, pc, snap, launch>>
        /\ s'.native = s.native /\ s'.sandbox = s.sandbox /\ (s'.state = "removed" <=> s.state = "removed")
    BY <1>1, <1>2 DEF Requests, Create, SetArchived, Activate, MarkDeleting, Service, pass, Exists, Session
  <2> QED
    BY <1>1, <2>1 DEF ConversationIsThere
<1>3. CASE Environment
  <2>1. UNCHANGED <<pc, snap, launch>>
    BY <1>3 DEF Environment, ReportStart, ReportActivity, HarnessExits, AgentChanges, VmBoots, VmGoesDown,
        AgentIsDeleted, pass
  <2>2. CASE ReportStart
    <3>1. s.sandbox # None /\ reporting /\ UNCHANGED <<agent, reporting>>
        BY <1>1, <2>2 DEF ReportStart, Exists, ConversationIsThere
    <3>2. s'.native = s.sandbox /\ s'.sandbox = s.sandbox /\ s'.state = s.state
        BY <1>1, <2>2 DEF ReportStart, Session
    <3> QED
        BY <1>1, <2>1, <3>1, <3>2 DEF ConversationIsThere
  <2>3. ASSUME s'.native = s.native, s'.sandbox = s.sandbox, s'.state = s.state,
               reporting' => reporting /\ agent'.sandbox = agent.sandbox
        PROVE  ConversationIsThere'
    BY <1>1, <2>1, <2>3 DEF ConversationIsThere
  <2>4. ASSUME NEW waiting \in BOOLEAN, ReportActivity(waiting) PROVE ConversationIsThere'
    BY <1>1, <2>3, <2>4 DEF ReportActivity, Session
  <2>5. CASE HarnessExits \/ VmGoesDown
    BY <2>3, <2>5 DEF HarnessExits, VmGoesDown
  <2>6. ASSUME NEW mode \in {"ready", "blocked", "stopped"}, AgentChanges(mode) PROVE ConversationIsThere'
    BY <1>1, <2>3, <2>6 DEF AgentChanges, Agent
  <2>7. ASSUME NEW sandbox \in 1..MaxSandboxes, VmBoots(sandbox) PROVE ConversationIsThere'
    BY <1>1, <2>3, <2>7 DEF VmBoots, Agent
  <2>8. CASE AgentIsDeleted
    BY <1>1, <2>3, <2>8 DEF AgentIsDeleted, Agent
  <2> QED
    BY <1>3, <2>2, <2>4, <2>5, <2>6, <2>7, <2>8 DEF Environment
(* A step of a pass that prepares no launch.                               *)
<1>4. ASSUME s'.native = s.native, s'.sandbox = s.sandbox, s'.state = s.state,
             reporting' = reporting, agent' = agent,
             pc' \notin {"agent", "observe", "clearReport", "recordLaunch", "writeResuming", "start"}
      PROVE  ConversationIsThere'
    BY <1>1, <1>4 DEF ConversationIsThere
<1>5. CASE \/ ReleaseLooks \/ ReleaseStops \/ ArchiveLooks \/ ArchiveStops \/ ArchiveResets \/ SettleLooks
           \/ IdleStops \/ IdleResets \/ WaitsForInput \/ TimeoutStops \/ HandlesError \/ PassIsCut
  <2>1. SameRow
    BY <1>1, <1>5, RowStays
  <2>2. agent' = agent /\ reporting' = reporting
    BY <1>5 DEF ReleaseLooks, ReleaseStops, ArchiveLooks, ArchiveStops, ArchiveResets, ResetAttempts, SettleLooks,
        IdleStops, IdleResets, WaitsForInput, TimeoutStops, HandlesError, PassIsCut, World, Process, Looks,
        StopHarness
  <2>3. pc' \notin {"agent", "observe", "clearReport", "recordLaunch", "writeResuming", "start"}
    BY <1>5 DEF ReleaseLooks, ReleaseStops, ArchiveLooks, ArchiveStops, ArchiveResets, ResetAttempts, SettleLooks,
        IdleStops, IdleResets, WaitsForInput, TimeoutStops, HandlesError, PassIsCut, StopHarness, Go, GoWrite,
        Fail, Finish, End
  <2> QED
    BY <1>4, <2>1, <2>2, <2>3 DEF SameRow
<1>6. CASE PassReads
  <2>1. SameRow /\ agent' = agent /\ reporting' = reporting
    BY <1>1, <1>6, RowStays DEF PassReads, World, Process
  <2>2. pc' = Branch(s) /\ pc' \in {"releaseLook", "write", "archiveLook", "settleLook", "agent"}
    BY <1>1, <1>6 DEF PassReads, Branch, Exists, Session
  <2>3. pc' = "agent" => snap'.native = s.native
    BY <1>6, <2>2 DEF PassReads, Snapshot
  <2> QED
    BY <1>1, <2>1, <2>2, <2>3 DEF SameRow, ConversationIsThere
<1>7. CASE AgentIsRead
  <2>1. SameRow /\ agent' = agent /\ reporting' = reporting /\ pc = "agent"
    BY <1>1, <1>7, RowStays DEF AgentIsRead, World, Process
  <2>2. \/ pc' \notin {"agent", "observe", "clearReport", "recordLaunch", "writeResuming", "start"}
        \/ pc' = "observe" /\ snap' = snap
    BY <1>7 DEF AgentIsRead, Go, GoWrite, Fail, Finish
  <2> QED
    BY <1>1, <2>1, <2>2 DEF SameRow, ConversationIsThere
<1>8. CASE Observes
  <2>1. SameRow /\ agent' = agent /\ reporting' = reporting /\ pc = "observe"
    BY <1>1, <1>8, RowStays DEF Observes, World, Looks
  <2>2. CASE pc' \notin {"agent", "observe", "clearReport", "recordLaunch", "writeResuming", "start"}
    BY <1>4, <2>1, <2>2 DEF SameRow
  <2>3. CASE ObservedMissing /\ agent.sandbox = launch.sandbox /\ pc' \in {"clearReport", "recordLaunch"}
    <3> DEFINE replaced == s.sandbox # None /\ s.sandbox # launch.sandbox
    <3>1. /\ pc' = IF replaced THEN "clearReport" ELSE "recordLaunch"
          /\ launch' = [launch EXCEPT !.resume = ~replaced /\ snap.native # None]
        BY <2>3 DEF ObservedMissing, GoWrite, Finish
    <3>2. launch'.sandbox = launch.sandbox /\ (launch'.resume => ~replaced /\ snap.native # None)
        BY <1>1, <3>1 DEF Launches
    <3>3. snap.native # None => s.native # None
        BY <1>1, <2>1 DEF ConversationIsThere
    <3>4. s.state # "removed"
        BY <2>1 DEF IInv, PassHasRow
    <3>5. reporting => s.sandbox = launch.sandbox /\ s.sandbox # None
        BY <1>1, <2>3, <3>4 DEF ConversationIsThere
    <3>6. s.native # None => s.native = s.sandbox
        BY <1>1 DEF ConversationIsThere
    <3>7. CASE replaced
        BY <1>1, <2>1, <3>1, <3>2, <3>5, <3>6, <3>7 DEF SameRow, ConversationIsThere
    <3>8. CASE ~replaced
        BY <1>1, <2>1, <3>1, <3>2, <3>3, <3>4, <3>5, <3>6, <3>8 DEF SameRow, ConversationIsThere
    <3> QED
        BY <3>7, <3>8
  <2>4. \/ pc' \notin {"agent", "observe", "clearReport", "recordLaunch", "writeResuming", "start"}
        \/ ObservedMissing /\ agent.sandbox = launch.sandbox /\ pc' \in {"clearReport", "recordLaunch"}
    BY <1>8 DEF Observes, ObservedAlive, ObservedMissing, Go, GoWrite, Fail, Finish
  <2> QED
    BY <2>2, <2>3, <2>4
<1>9. CASE ClearReport
  <2>1. s'.native = None /\ s'.sandbox = s.sandbox /\ s'.state = s.state
    BY <1>1, <1>9 DEF ClearReport, Session
  <2>2. /\ pc = "clearReport" /\ pc' = "recordLaunch" /\ launch' = launch /\ reporting' = reporting
        /\ agent' = agent /\ ~reporting /\ ~launch.resume
    BY <1>1, <1>9 DEF ClearReport, Go, Process, World, ConversationIsThere
  <2> QED
    BY <1>1, <2>1, <2>2 DEF ConversationIsThere
<1>10. CASE RecordLaunch
  <2>1. s'.native = s.native /\ s'.sandbox = launch.sandbox /\ s'.state = s.state
    BY <1>1, <1>10 DEF RecordLaunch, Session
  <2>2. launch'.sandbox = launch.sandbox /\ launch'.resume = launch.resume
    BY <1>1, <1>10 DEF RecordLaunch, Launches
  <2>3. /\ pc = "recordLaunch" /\ pc' \in {"writeResuming", "start"} /\ reporting' = FALSE /\ agent' = agent
    BY <1>10 DEF RecordLaunch, World
  <2>4. s.native # None => s.native = launch.sandbox
    BY <1>1, <2>3 DEF ConversationIsThere
  <2> QED
    BY <1>1, <2>1, <2>2, <2>3, <2>4 DEF ConversationIsThere
<1>11. CASE WriteResuming
  <2>1. s'.native = s.native /\ s'.sandbox = s.sandbox /\ s'.state = s.state
    BY <1>1, <1>11, WriteLifeRow, LifeTypes DEF WriteResuming
  <2>2. pc = "writeResuming" /\ pc' = "start" /\ launch' = launch /\ reporting' = reporting /\ agent' = agent
    BY <1>11 DEF WriteResuming, Go, Process, World
  <2> QED
    BY <1>1, <2>1, <2>2 DEF ConversationIsThere
<1>12. CASE TimeoutWrites \/ Write
  <2>1. s'.native = s.native /\ s'.sandbox = s.sandbox /\ s'.state = s.state
    BY <1>1, <1>12, WriteLifeRow, LifeTypes DEF TimeoutWrites, Write
  <2> QED
    BY <1>4, <1>12, <2>1 DEF TimeoutWrites, Write, Process, World, Fail, Finish, End
<1>13. CASE Start
  <2>1. SameRow /\ pc = "start" /\ agent' = agent
    BY <1>1, <1>13, RowStays DEF Start, World
  <2>2. pc' \notin {"agent", "observe", "clearReport", "recordLaunch", "writeResuming", "start"}
    BY <1>13 DEF Start, Go, GoWrite, Fail, Finish
  <2>3. CASE reporting' = reporting
    BY <1>4, <2>1, <2>2, <2>3 DEF SameRow
  <2>4. CASE StartsHarness
    <3>1. s.sandbox = agent.sandbox /\ s.sandbox # None
        BY <1>1, <2>1, <2>4 DEF StartsHarness, ConversationIsThere, IInv, HarnessIsTracked
    <3> QED
        BY <1>1, <2>1, <2>2, <3>1 DEF SameRow, ConversationIsThere
  <2> QED
    BY <1>13, <2>3, <2>4 DEF Start, Process
<1>14. CASE FinalizeDeletion
  <2>1. s'.native = None /\ s'.state = "removed" /\ pc' = "idle"
    BY <1>14 DEF FinalizeDeletion, NoSession, End
  <2> QED
    BY <2>1 DEF ConversationIsThere
<1>15. CASE UNCHANGED vars \/ PassFindsNothing
    BY <1>1, <1>15 DEF vars, pass, PassFindsNothing, ConversationIsThere
<1> QED
    BY <1>2, <1>3, <1>5, <1>6, <1>7, <1>8, <1>9, <1>10, <1>11, <1>12, <1>13, <1>14, <1>15 DEF Next, PassStep


(* What a pass that reports Running relies on.                             *)
LEMMA RunningIsSeenKept == IInv /\ [Next]_vars => RunningIsSeen'
<1> SUFFICES ASSUME IInv, [Next]_vars PROVE RunningIsSeen'
    OBVIOUS
<1>1. /\ TypeOK /\ s \in Session /\ snap.act \in Nat /\ result \in Lifecycle /\ served \in BOOLEAN
      /\ s.act \in Nat /\ RunningIsSeen
    BY RowFields DEF IInv, TypeOK, Session
<1>2. CASE Requests
  <2>1. CASE Activate
    <3>1. /\ s'.act = s.act + 1 /\ s'.obs = s.obs /\ s.obs <= s.act /\ s.obs \in Nat
          /\ UNCHANGED <<pc, snap, result>> /\ s'.state # "none"
        BY <1>1, <2>1 DEF Activate, Exists, Service, pass, Session, TypeOK
    <3>2. s'.act # s'.obs /\ s'.act # snap'.act /\ snap'.act <= s'.act
        BY <1>1, <3>1 DEF RunningIsSeen
    <3> QED
        BY <3>1, <3>2 DEF RunningIsSeen, RunningWasSeen
  <2>2. ASSUME NEW b \in BOOLEAN, Create(b) PROVE RunningIsSeen'
    <3>1. pc = "idle"
        BY <2>2 DEF Create, IInv, PassHasRow
    <3>2. /\ UNCHANGED <<pc, snap, served>> /\ s'.act = s.act /\ s'.obs = s.obs /\ s'.life = s.life
          /\ s'.state = "active"
        BY <1>1, <2>2 DEF Create, Service, pass, Session
    <3>3. s.act = 0
        BY <1>1, <2>2 DEF Create, RunningIsSeen
    <3> QED
        BY <1>1, <3>1, <3>2, <3>3 DEF RunningIsSeen, RunningWasSeen
  <2>3. CASE MarkDeleting \/ \E b \in BOOLEAN : SetArchived(b)
    <3>1. /\ UNCHANGED <<pc, snap, result, served>> /\ s'.act = s.act /\ s'.obs = s.obs /\ s'.life = s.life
          /\ (s'.state = "active" => s.state = "active") /\ s'.state # "none"
        BY <1>1, <2>3 DEF MarkDeleting, SetArchived, Service, pass, Session
    <3> QED
        BY <1>1, <3>1 DEF RunningIsSeen, RunningWasSeen
  <2> QED
    BY <1>2, <2>1, <2>2, <2>3 DEF Requests
<1>3. CASE Environment
  <2>1. UNCHANGED <<pc, snap, result, served>>
    BY <1>3 DEF Environment, ReportStart, ReportActivity, HarnessExits, AgentChanges, VmBoots, VmGoesDown,
        AgentIsDeleted, pass
  <2>2. s'.act = s.act /\ s'.obs = s.obs /\ s'.life = s.life /\ s'.state = s.state
    BY <1>1, <1>3 DEF Environment, ReportStart, ReportActivity, HarnessExits, AgentChanges, VmBoots, VmGoesDown,
        AgentIsDeleted, Session
  <2> QED
    BY <1>1, <2>1, <2>2 DEF RunningIsSeen, RunningWasSeen
(* A step of a pass that leaves the row's lifecycle alone and goes on to   *)
(* report Running only if it, or a step before it, saw the harness.        *)
<1>4. ASSUME SameRow, served => served', snap'.act = snap.act \/ snap'.act = 0,
             pc' = "waitInput" /\ snap'.act = s.act => served',
             pc' = "write" /\ result'.state = "Running" /\ snap'.act = s.act => served'
      PROVE  RunningIsSeen'
    BY <1>1, <1>4 DEF SameRow, RunningIsSeen, RunningWasSeen
<1>5. CASE \/ ReleaseLooks \/ ReleaseStops \/ ArchiveStops \/ ArchiveResets \/ AgentIsRead \/ IdleStops
           \/ IdleResets \/ TimeoutStops \/ HandlesError \/ PassIsCut
  <2>1. SameRow
    BY <1>1, <1>5, RowStays
  <2>2. pc' # "waitInput" /\ (pc' = "write" => result'.state # "Running")
    BY <1>5 DEF ReleaseLooks, ReleaseStops, ArchiveStops, ArchiveResets, AgentIsRead, IdleStops, IdleResets,
        TimeoutStops, HandlesError, PassIsCut, ResetAttempts, StopHarness, Go, GoWrite, Fail, Finish, End,
        Life, LifeWith
  <2>3. served' = served /\ (snap'.act = snap.act \/ snap'.act = 0)
    BY <1>5 DEF ReleaseLooks, ReleaseStops, ArchiveStops, ArchiveResets, AgentIsRead, IdleStops, IdleResets,
        TimeoutStops, HandlesError, PassIsCut, ResetAttempts, StopHarness, Go, GoWrite, Fail, Finish, End,
        Process, NoSnapshot
  <2> QED
    BY <1>4, <2>1, <2>2, <2>3
<1>6. CASE PassReads
  <2>1. SameRow /\ served' = served
    BY <1>1, <1>6, RowStays DEF PassReads, Process
  <2>2. pc' = Branch(s) /\ pc' \in {"releaseLook", "write", "archiveLook", "settleLook", "agent"}
    BY <1>1, <1>6 DEF PassReads, Branch, Exists, Session
  <2>3. pc' = "write" => result'.state # "Running"
    BY <1>6, <2>2 DEF PassReads, Life
  <2>4. snap'.act \in Nat /\ snap'.act <= s.act
    BY <1>1, <1>6, <2>2 DEF PassReads, Snapshot, NoSnapshot
  <2> QED
    BY <1>1, <2>1, <2>2, <2>3, <2>4 DEF SameRow, RunningIsSeen, RunningWasSeen
<1>7. CASE ArchiveLooks \/ SettleLooks
  <2>1. SameRow
    BY <1>1, <1>7, RowStays
  <2>2. pc' # "waitInput" /\ (pc' = "write" => result'.state # "Running" \/ harness # "none")
    BY <1>7 DEF ArchiveLooks, SettleLooks, Go, GoWrite, Fail, Finish, Life
  <2>3. served' = (served \/ harness # "none") /\ snap'.act = snap.act
    BY <1>7 DEF ArchiveLooks, SettleLooks, Looks, Go, GoWrite, Fail, Finish, NoSnapshot
  <2> QED
    BY <1>4, <2>1, <2>2, <2>3
<1>8. CASE Observes
  <2>1. SameRow
    BY <1>1, <1>8, RowStays
  <2>2. /\ pc' = "waitInput" => harness # "none"
        /\ pc' = "write" => result'.state # "Running" \/ harness # "none"
    BY <1>8 DEF Observes, ObservedAlive, ObservedMissing, Go, GoWrite, Fail, Finish, Life, LifeWith
  <2>3. served' = (served \/ harness # "none") /\ snap'.act = snap.act
    BY <1>8 DEF Observes, ObservedAlive, ObservedMissing, Looks, Go, GoWrite, Fail, Finish, NoSnapshot
  <2> QED
    BY <1>4, <2>1, <2>2, <2>3
<1>9. CASE Start
  <2>1. SameRow
    BY <1>1, <1>9, RowStays
  <2>2. snap'.act = snap.act /\ (served' = TRUE \/ (served' = served /\ pc' = "error"))
    BY <1>9 DEF Start, StartsHarness, Process, Go, GoWrite, Fail, Finish, NoSnapshot
  <2> QED
    BY <1>4, <2>1, <2>2
<1>10. CASE WaitsForInput
  <2>1. SameRow
    BY <1>1, <1>10, RowStays
  <2>2. pc = "waitInput" /\ pc' # "waitInput" /\ served' = served /\ snap'.act = snap.act
    BY <1>10 DEF WaitsForInput, Process, Go, GoWrite, Fail, Finish, NoSnapshot
  <2>3. s.act = snap.act => served
    BY <1>1, <2>2 DEF RunningIsSeen
  <2> QED
    BY <1>4, <2>1, <2>2, <2>3
<1>11. CASE ClearReport \/ RecordLaunch
  <2>1. /\ s'.act = s.act /\ s'.obs = s.obs /\ s'.life = s.life /\ s'.state = s.state
        /\ UNCHANGED <<snap, result, served>> /\ pc' \notin {"waitInput", "write"}
    BY <1>1, <1>11 DEF ClearReport, RecordLaunch, Process, Go, Session
  <2> QED
    BY <1>1, <2>1 DEF RunningIsSeen, RunningWasSeen
<1>12. CASE WriteResuming \/ TimeoutWrites
  <2>1. /\ s'.act = s.act /\ s'.state = s.state /\ s'.life.state # "Running"
        /\ served' = served /\ pc' \notin {"waitInput", "write"} /\ snap'.act = snap.act
    BY <1>1, <1>12, WriteLifeRow, LifeTypes DEF WriteResuming, TimeoutWrites, Process, Go, Fail, Finish, NoSnapshot,
        Life, LifeWith
  <2> QED
    BY <1>1, <2>1 DEF RunningIsSeen, RunningWasSeen
<1>13. CASE Write
  <2>1. s'.act = s.act /\ s'.obs = snap.act /\ s'.life = result /\ s'.state = s.state
    BY <1>1, <1>13, WriteLifeRow DEF Write
  <2>2. pc = "write" /\ served' = served /\ pc' = "idle" /\ snap'.act = 0
    BY <1>13 DEF Write, End, Process, NoSnapshot
  <2> QED
    BY <1>1, <2>1, <2>2 DEF RunningIsSeen, RunningWasSeen
<1>14. CASE FinalizeDeletion
  <2>1. s'.state = "removed" /\ s'.act = 0 /\ pc' = "idle" /\ snap'.act = 0
    BY <1>14 DEF FinalizeDeletion, NoSession, End, NoSnapshot
  <2> QED
    BY <2>1 DEF RunningIsSeen, RunningWasSeen
<1>15. CASE UNCHANGED vars \/ PassFindsNothing
    BY <1>1, <1>15 DEF vars, pass, PassFindsNothing, RunningIsSeen, RunningWasSeen
<1> QED
    BY <1>2, <1>3, <1>5, <1>6, <1>7, <1>8, <1>9, <1>10, <1>11, <1>12, <1>13, <1>14, <1>15 DEF Next, PassStep

-----------------------------------------------------------------------------
(* The theorem.                                                            *)

LEMMA InitIInv == Init => IInv
<1> SUFFICES ASSUME Init PROVE IInv
    OBVIOUS
<1>1. TypeOK
  <2>1. Life("Starting") \in Lifecycle
    BY DEF Life, Lifecycle
  <2>2. NoSession \in Session /\ NoSession.obs <= NoSession.act
    BY <2>1 DEF NoSession, Session, None
  <2>3. NoSnapshot \in [act : Nat, life : Lifecycle, native : Nat, waiting : BOOLEAN]
    BY <2>1 DEF NoSnapshot, None
  <2>4. NoLaunch \in [sandbox : Nat, resume : BOOLEAN, prompt : BOOLEAN]
    BY DEF NoLaunch, None
  <2>5. agent \in Agent
    BY DEF Init, Agent, None
  <2> QED
    BY <2>1, <2>2, <2>3, <2>4, <2>5 DEF Init, TypeOK, PassSteps
<1>2. PassHasRow /\ PromptMoves /\ HarnessIsTracked
    BY DEF Init, PassHasRow, PromptMoves, PromptAtMostOnce, HarnessIsTracked, NoHarnessLeftBehind,
        HarnessHoldsCurrentToken, NoSession, NoLaunch
<1>3. ConversationIsThere /\ RunningIsSeen
    BY DEF Init, ConversationIsThere, RunningIsSeen, RunningWasSeen, NoSession, NoSnapshot, NoLaunch, Life
<1> QED
    BY <1>1, <1>2, <1>3 DEF IInv

LEMMA Invariance == Spec => []IInv
<1>1. IInv /\ [Next]_vars => IInv'
    BY TypesAreKept, PassHasRowKept, PromptMovesKept, HarnessIsTrackedKept, ConversationKept, RunningIsSeenKept
        DEF IInv
<1> QED
    BY <1>1, InitIInv, PTL DEF Spec

(* However attaches, archives and releases interleave with passes that are *)
(* cut or fail at any call and with an agent that loses or replaces its VM *)
(* (sessions/reconciler.rs): the initial prompt is handed out at most once,*)
(* a removed session leaves no harness, a live harness holds the row's     *)
(* token, a conversation is resumed only where it is, and Running is       *)
(* reported only of a harness seen since the last attach.                  *)
THEOREM SessionStaysSafe == Spec => []SessionIsSafe
<1>1. IInv => SessionIsSafe
    BY DEF IInv, PromptMoves, HarnessIsTracked, ConversationIsThere, RunningIsSeen, ResumesInItsSandbox,
        SessionIsSafe
<1> QED
    BY <1>1, Invariance, PTL

-----------------------------------------------------------------------------
(* An archived session has no harness.                                     *)

(* A row that reads Archived has a harness only for the rest of the pass   *)
(* that launched it, which writes something else; and a pass that is about *)
(* to write Archived has found or made it stopped.                         *)
ArchiveHolds ==
    /\ s.life = Life("Archived") /\ harness # "none" /\ agent.state = "active" =>
          pc \in {"waitInput", "timeoutStop", "timeoutWrite", "error", "write"}
    /\ pc = "archiveReset" /\ agent.state = "active" => harness = "none"
    /\ pc = "write" /\ result = Life("Archived") /\ agent.state = "active" => harness = "none"
    /\ pc = "archiveLook" => snap.life # Life("Archived")

LEMMA LivesDiffer ==
    /\ \A state : LifeWith(state) # Life("Archived")
    /\ Life("Running") # Life("Archived") /\ Life("Idle") # Life("Archived")
    /\ Life("Resuming") # Life("Archived") /\ Life("Starting") # Life("Archived")
BY DEF Life, LifeWith

(* Requests and the environment start no harness and leave the pass alone. *)
LEMMA OthersKeepArchive ==
    ASSUME TypeOK, ArchiveHolds, Requests \/ Environment
    PROVE  ArchiveHolds'
<1>1. UNCHANGED <<pc, snap, result>> /\ harness' \in {harness, "none"}
    BY DEF Requests, Create, SetArchived, Activate, MarkDeleting, Service, Environment, ReportStart, ReportActivity,
        HarnessExits, AgentChanges, VmBoots, VmGoesDown, AgentIsDeleted, pass
<1>2. s'.life = s.life
    BY DEF TypeOK, Session, Requests, Create, SetArchived, Activate, MarkDeleting, Environment, ReportStart,
        ReportActivity, HarnessExits, AgentChanges, VmBoots, VmGoesDown, AgentIsDeleted
<1>3. agent'.state = "active" => agent.state = "active"
    BY DEF TypeOK, Agent, Requests, Create, SetArchived, Activate, MarkDeleting, Service, Environment, ReportStart,
        ReportActivity, HarnessExits, AgentChanges, VmBoots, VmGoesDown, AgentIsDeleted
<1> QED
    BY <1>1, <1>2, <1>3 DEF ArchiveHolds

(* Where a step of the pass leaves the row's lifecycle as it is.           *)
LEMMA RowKeepsLife ==
    ASSUME TypeOK,
           \/ s' \in {s, [s EXCEPT !.tries = FALSE], [s EXCEPT !.waiting = TRUE],
                      [s EXCEPT !.native = None, !.waiting = FALSE]}
           \/ s' = [s EXCEPT !.sandbox = launch.sandbox, !.tries = TRUE, !.waiting = FALSE, !.prompt = FALSE]
    PROVE  s'.life = s.life
BY DEF TypeOK, Session

LEMMA PassKeepsArchive ==
    ASSUME TypeOK, HarnessIsTracked, ArchiveHolds, PassStep
    PROVE  ArchiveHolds'
<1>1. agent' = agent /\ up' = up
    BY DEF PassStep, PassReads, ReleaseLooks, ReleaseStops, FinalizeDeletion, ArchiveLooks, ArchiveStops,
        ArchiveResets, SettleLooks, AgentIsRead, Observes, IdleStops, IdleResets, ResetAttempts, ClearReport,
        RecordLaunch, WriteResuming, Start, WaitsForInput, TimeoutStops, TimeoutWrites, HandlesError, Write, World
<1>2. CASE PassReads
  <2>1. Branch(s) = "write" /\ s.archived => s.life = Life("Archived")
    BY <1>2 DEF PassReads, Exists, Branch
  <2>2. Branch(s) \in {"releaseLook", "write", "archiveLook", "settleLook", "agent"}
    BY <1>2 DEF PassReads, Exists, Branch, TypeOK, Session
  <2>3. Branch(s) = "archiveLook" => s.life # Life("Archived") /\ Snapshot(s).life = s.life
    <3>1. SUFFICES ASSUME Branch(s) = "archiveLook" PROVE s.life # Life("Archived") /\ Snapshot(s).life = s.life
        OBVIOUS
    <3>2. s.life # Life("Archived")
        BY <1>2, <3>1 DEF PassReads, Exists, Branch
    <3>3. Snapshot(s) = [[act |-> s.act, life |-> s.life, native |-> s.native, waiting |-> s.waiting]
                            EXCEPT !.native = None]
        BY <3>1 DEF Snapshot
    <3> QED
        BY <3>2, <3>3
  <2> QED
    BY <1>1, <1>2, <2>1, <2>2, <2>3, LivesDiffer DEF PassReads, ArchiveHolds, Row, Process
<1>3. CASE ReleaseLooks \/ ReleaseStops \/ IdleStops
  <2>1. /\ s' = s /\ harness' \in {harness, "none"}
        /\ pc \in {"releaseLook", "releaseStop", "idleStop"}
        /\ pc' \in {"releaseStop", "finalize", "idle", "idleReset", "error"}
    BY <1>3 DEF ReleaseLooks, ReleaseStops, IdleStops, StopHarness, Row, Process, Go, End, Fail, Finish
  <2> QED
    BY <1>1, <2>1 DEF ArchiveHolds
<1>4. CASE FinalizeDeletion
  <2>1. s'.life = Life("Starting") /\ pc' = "idle"
    BY <1>4 DEF FinalizeDeletion, End, NoSession
  <2> QED
    BY <2>1, LivesDiffer DEF ArchiveHolds
<1>5. CASE ArchiveLooks
  <2>1. s' = s /\ harness' = harness /\ pc = "archiveLook"
    BY <1>5 DEF ArchiveLooks, Row, Looks
  <2>2. \/ pc' = "archiveReset" /\ ~HasSandbox
        \/ pc' \in {"archiveStop", "error"}
        \/ pc' = "write" /\ result' = snap.life
    BY <1>5 DEF ArchiveLooks, Go, Fail, Finish, GoWrite
  <2>3. ~HasSandbox /\ agent.state = "active" => harness = "none"
    BY DEF HasSandbox, HarnessIsTracked
  <2> QED
    BY <1>1, <2>1, <2>2, <2>3 DEF ArchiveHolds
<1>6. CASE ArchiveStops
  <2>1. /\ s' = s /\ harness' \in {harness, "none"} /\ pc = "archiveStop"
        /\ \/ pc' = "archiveReset" /\ harness' = "none"
           \/ pc' = "error"
    BY <1>6 DEF ArchiveStops, StopHarness, Row, Go, Fail, Finish
  <2> QED
    BY <1>1, <2>1 DEF ArchiveHolds
<1>7. CASE ArchiveResets \/ IdleResets
  <2>1. harness' = harness /\ pc' = "write" /\ pc \in {"archiveReset", "idleReset"}
    BY <1>7 DEF ArchiveResets, IdleResets, ResetAttempts, Process, GoWrite, Finish
  <2>2. s'.life = s.life
    BY <1>7, RowKeepsLife DEF ArchiveResets, IdleResets, ResetAttempts
  <2>3. pc = "archiveReset" \/ result' # Life("Archived")
    BY <1>7, LivesDiffer DEF ArchiveResets, IdleResets, ResetAttempts, GoWrite
  <2> QED
    BY <1>1, <2>1, <2>2, <2>3 DEF ArchiveHolds
<1>8. CASE SettleLooks \/ AgentIsRead
  <2>1. s' = s /\ harness' = harness /\ pc \in {"settleLook", "agent"}
    BY <1>8 DEF SettleLooks, AgentIsRead, Row, Looks, Process
  <2>2. \/ pc' \in {"error", "idleReset", "observe"}
        \/ pc' = "write" /\ result' # Life("Archived")
    BY <1>8, LivesDiffer DEF SettleLooks, AgentIsRead, Go, Fail, GoWrite, Finish
  <2> QED
    BY <1>1, <2>1, <2>2 DEF ArchiveHolds
<1>9. CASE Observes
  <2>1. s'.life = s.life
    BY <1>9, RowKeepsLife DEF Observes, ObservedAlive, ObservedMissing
  <2>2. harness' = harness /\ pc = "observe"
    BY <1>9 DEF Observes, Looks
  <2>3. \/ pc' \in {"error", "idleStop", "waitInput", "clearReport", "recordLaunch"}
        \/ pc' = "write" /\ result' # Life("Archived")
    BY <1>9, LivesDiffer DEF Observes, ObservedAlive, ObservedMissing, Go, Fail, GoWrite, Finish
  <2> QED
    BY <1>1, <2>1, <2>2, <2>3 DEF ArchiveHolds
<1>10. CASE ClearReport \/ RecordLaunch
  <2>1. s'.life = s.life
    BY <1>10, RowKeepsLife DEF ClearReport, RecordLaunch
  <2>2. /\ harness # "none" <=> harness' # "none"
        /\ pc \in {"clearReport", "recordLaunch"}
        /\ pc' \in {"recordLaunch", "writeResuming", "start"}
    BY <1>10 DEF ClearReport, RecordLaunch, Process, Go
  <2> QED
    BY <1>1, <2>1, <2>2 DEF ArchiveHolds
<1>11. CASE WriteResuming \/ TimeoutWrites
  <2>1. pc' \in {"start", "error"}
    BY <1>11 DEF WriteResuming, TimeoutWrites, Go, Fail, Finish
  <2>2. PICK life \in {Life("Resuming"), LifeWith("Failed")} : s' = [s EXCEPT !.life = life, !.obs = snap.act]
    BY <1>11 DEF WriteResuming, TimeoutWrites, WriteLife
  <2>3. life # Life("Archived")
    BY LivesDiffer
  <2>4. s'.life = life
    BY <2>2 DEF TypeOK, Session
  <2> QED
    BY <2>1, <2>3, <2>4 DEF ArchiveHolds
<1>12. CASE Start
  <2>1. s' = s
    BY <1>12 DEF Start, Row
  <2>2. \/ pc' \in {"waitInput", "error"}
        \/ pc' = "write" /\ result' # Life("Archived")
    BY <1>12, LivesDiffer DEF Start, Go, Fail, GoWrite, Finish
  <2> QED
    BY <2>1, <2>2 DEF ArchiveHolds
<1>13. CASE WaitsForInput \/ TimeoutStops
  <2>1. harness' \in {harness, "none"}
    BY <1>13 DEF WaitsForInput, TimeoutStops, StopHarness, Process
  <2>2. \/ pc' \in {"timeoutStop", "timeoutWrite", "error"}
        \/ pc' = "write" /\ result' # Life("Archived")
    BY <1>13, LivesDiffer DEF WaitsForInput, TimeoutStops, StopHarness, Go, Fail, GoWrite, Finish
  <2> QED
    BY <2>2 DEF ArchiveHolds
<1>14. CASE HandlesError
  <2>1. s' = s /\ harness' = harness /\ pc = "error"
    BY <1>14 DEF HandlesError, Row, Process
  <2>2. \/ pc' = "idle" /\ agent.state = "gone"
        \/ pc' = "write" /\ result' # Life("Archived")
    BY <1>14, LivesDiffer DEF HandlesError, End, GoWrite, Finish
  <2> QED
    BY <1>1, <2>1, <2>2 DEF ArchiveHolds
<1>15. CASE Write
  <2>1. harness' = harness /\ pc' = "idle" /\ s'.life = result /\ pc = "write"
    BY <1>15 DEF Write, WriteLife, TypeOK, Session, End, Process
  <2> QED
    BY <1>1, <2>1 DEF ArchiveHolds
<1> QED
    BY <1>2, <1>3, <1>4, <1>5, <1>6, <1>7, <1>8, <1>9, <1>10, <1>11, <1>12, <1>13, <1>14, <1>15 DEF PassStep

ArchiveHoldsUncut == faults = 0 => ArchiveHolds

LEMMA ArchiveHoldsUncutKept ==
    IInv /\ ArchiveHoldsUncut /\ [Next]_vars => ArchiveHoldsUncut'
<1> SUFFICES ASSUME IInv, faults = 0 => ArchiveHolds, [Next]_vars PROVE faults' = 0 => ArchiveHolds'
    BY DEF ArchiveHoldsUncut
<1>1. TypeOK /\ HarnessIsTracked
    BY DEF IInv
<1>2. CASE PassIsCut
  <2>1. faults' # 0
    BY <1>1, <1>2 DEF PassIsCut, TypeOK
  <2> QED
    BY <2>1
<1>3. CASE Requests \/ Environment
  <2>1. faults' = faults
    BY <1>3 DEF Requests, Create, SetArchived, Activate, MarkDeleting, Service, Environment, ReportStart,
        ReportActivity, HarnessExits, AgentChanges, VmBoots, VmGoesDown, AgentIsDeleted
  <2> QED
    BY <1>1, <1>3, <2>1, OthersKeepArchive
<1>4. CASE PassStep
  <2>1. faults' = faults
    BY <1>4 DEF PassStep, PassReads, ReleaseLooks, ReleaseStops, FinalizeDeletion, ArchiveLooks, ArchiveStops,
        ArchiveResets, SettleLooks, AgentIsRead, Observes, IdleStops, IdleResets, ResetAttempts, ClearReport,
        RecordLaunch, WriteResuming, Start, WaitsForInput, TimeoutStops, TimeoutWrites, HandlesError, Write, World
  <2> QED
    BY <1>1, <1>4, <2>1, PassKeepsArchive
<1>5. CASE PassFindsNothing \/ UNCHANGED vars
    BY <1>5 DEF PassFindsNothing, vars, pass, ArchiveHolds
<1> QED
    BY <1>2, <1>3, <1>4, <1>5 DEF Next

(* Until a pass is cut by a crash or a failed store command, an archived   *)
(* session that reads Archived without a failure has no harness between    *)
(* its passes (converge_archive), however its agent and its calls fail.    *)
THEOREM ArchivedStaysStopped == Spec => [](faults = 0 => ArchivedHarnessIsStopped)
<1>1. Init => ArchiveHoldsUncut
    BY DEF Init, ArchiveHolds, ArchiveHoldsUncut
<1>2. ArchiveHoldsUncut => (faults = 0 => ArchivedHarnessIsStopped)
    BY DEF ArchiveHolds, ArchivedHarnessIsStopped, ArchiveHoldsUncut
<1> QED
    BY <1>1, <1>2, ArchiveHoldsUncutKept, Invariance, PTL DEF Spec
=============================================================================
