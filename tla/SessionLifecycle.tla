-------------------------- MODULE SessionLifecycle --------------------------
(***************************************************************************)
(* One session from creation to removal: the row of persistence/           *)
(* sessions.rs, the requests of sessions/service.rs, the reconciliation    *)
(* pass of sessions/reconciler.rs and the harness process in the tmux      *)
(* server of the agent's sandbox (sessions/runtime/tmux.rs).               *)
(*                                                                         *)
(* The session controller runs at most one pass per session (module        *)
(* Controller), so a pass is one program counter that gives way at every   *)
(* await.  The agent is the environment: it becomes ready, stops, loses or *)
(* replaces its VM and is deleted at any time (module AgentLifecycle).     *)
(* Times are choices: an unattached harness may have been quiet for long   *)
(* or not, a backoff may be over or not, a wait may time out or not.       *)
(***************************************************************************)
EXTENDS Integers

CONSTANTS
    MaxActivations,   \* bound: attaches
    MaxSandboxes,     \* bound: sandboxes the agent has, one after another
    MaxFaults         \* bound: daemon crashes and failed store commands

ASSUME BoundsAreNatural ==
    MaxActivations \in Nat /\ MaxSandboxes \in Nat /\ MaxFaults \in Nat

VARIABLES
    s,          \* the session's row
    agent,      \* the agent's row, as far as sessions look at it
    up,         \* whether the sandbox VM runs
    harness,    \* the harness process: "none", or one that holds the row's
                \* "current" launch token or a "stale" one
    reporting,  \* whether a process got the row's current token
    pc,         \* where the session's pass is; "idle" when none runs
    snap,       \* what the pass uses of the Session it read
    launch,     \* the launch the pass prepares: sandbox, resume and prompt
    result,     \* the Lifecycle the pass is about to write
    faults,     \* bound counter
    handed,     \* history: how often a harness was given the initial prompt
    parked,     \* history: archived, and not attached or adopted since
    served      \* history: a pass found the harness alive since the last attach

pass == <<pc, snap, launch, result>>
vars == <<s, agent, up, harness, reporting, pass, faults, handed, parked, served>>

None == 0

Lifecycle == [state : {"Starting", "Running", "Resuming", "Idle", "Archived", "Failed"},
              failure : BOOLEAN]

(* tries says whether launch_attempts is not 0, prompt whether             *)
(* initial_prompt is still there.  native stands for the conversation that *)
(* the harness reported: the sandbox that holds it, or None.  waiting says *)
(* whether the reported phase is WaitingForInput; the reconciler treats    *)
(* Unknown and Working alike.  sandbox is the one of the last launch, None *)
(* before the first.                                                       *)
Session == [state : {"none", "active", "deleting", "removed"}, archived : BOOLEAN,
            act : Nat, obs : Nat, life : Lifecycle,
            sandbox : Nat, tries : BOOLEAN, native : Nat, waiting : BOOLEAN,
            prompt : BOOLEAN]

(* mode is "stopped" when spec or status say so, and "blocked" when the    *)
(* agent is not Ready or does not carry the session's harness.             *)
Agent == [state : {"active", "deleting", "gone"},
          mode : {"ready", "blocked", "stopped"}, sandbox : Nat]

PassSteps == {"idle", "releaseLook", "releaseStop", "finalize",
              "archiveLook", "archiveStop", "archiveReset", "settleLook",
              "agent", "observe", "idleStop", "idleReset", "clearReport",
              "recordLaunch", "writeResuming", "start", "waitInput",
              "timeoutStop", "timeoutWrite", "error", "write"}

Life(state) == [state |-> state, failure |-> FALSE]
LifeWith(state) == [state |-> state, failure |-> TRUE]

NoSession == [state |-> "none", archived |-> FALSE, act |-> 0, obs |-> 0,
              life |-> Life("Starting"), sandbox |-> None, tries |-> FALSE,
              native |-> None, waiting |-> FALSE, prompt |-> FALSE]
NoSnapshot == [act |-> 0, life |-> Life("Starting"), native |-> None, waiting |-> FALSE]
NoLaunch == [sandbox |-> None, resume |-> FALSE, prompt |-> FALSE]

TypeOK ==
    /\ s \in Session /\ s.obs <= s.act
    /\ agent \in Agent
    /\ up \in BOOLEAN
    /\ harness \in {"none", "current", "stale"}
    /\ reporting \in BOOLEAN
    /\ pc \in PassSteps
    /\ snap \in [act : Nat, life : Lifecycle, native : Nat, waiting : BOOLEAN]
    /\ launch \in [sandbox : Nat, resume : BOOLEAN, prompt : BOOLEAN]
    /\ result \in Lifecycle
    /\ faults \in Nat
    /\ handed \in Nat
    /\ parked \in BOOLEAN
    /\ served \in BOOLEAN

Init ==
    /\ s = NoSession
    /\ agent = [state |-> "active", mode |-> "blocked", sandbox |-> None]
    /\ up = FALSE
    /\ harness = "none"
    /\ reporting = FALSE
    /\ pc = "idle"
    /\ snap = NoSnapshot
    /\ launch = NoLaunch
    /\ result = Life("Starting")
    /\ faults = 0
    /\ handed = 0
    /\ parked = FALSE
    /\ served = FALSE

-----------------------------------------------------------------------------
(* The service.  A request takes effect at its store command; the checks   *)
(* made before it may be out of date by then.                              *)

Exists == s.state \in {"active", "deleting"}
Service == UNCHANGED <<agent, up, harness, reporting, pass, faults, handed>>

(* ensure_session with or without an initial prompt.                       *)
Create(prompt) ==
    /\ s.state = "none"
    /\ agent.state = "active"
    /\ s' = [s EXCEPT !.state = "active", !.prompt = prompt]
    /\ Service /\ UNCHANGED <<parked, served>>

(* activate_session: an attach.  It names the row by its ID, so it also    *)
(* lands on a row archived or marked after the caller looked at it.        *)
Activate ==
    /\ Exists
    /\ s.act < MaxActivations
    /\ s' = [s EXCEPT !.act = @ + 1]
    /\ parked' = FALSE
    /\ served' = FALSE
    /\ Service

SetArchived(archived) ==
    /\ s.state = "active"
    /\ agent.state # "gone"
    /\ s.archived # archived
    /\ s' = [s EXCEPT !.archived = archived]
    /\ Service /\ UNCHANGED <<parked, served>>

MarkDeleting ==
    /\ s.state = "active"
    /\ agent.state # "gone"
    /\ s' = [s EXCEPT !.state = "deleting"]
    /\ Service /\ UNCHANGED <<parked, served>>

-----------------------------------------------------------------------------
(* The harness and the agent.                                              *)

(* A report lands if its token is the row's; one in flight may land after  *)
(* the process has ended, as long as its sandbox exists.  A start report   *)
(* names the conversation and does not end a wait for input.               *)
ReportStart ==
    /\ Exists /\ agent.state # "gone"
    /\ reporting
    /\ s' = [s EXCEPT !.native = s.sandbox]
    /\ UNCHANGED <<agent, up, harness, reporting, pass, faults, handed, parked, served>>

(* A turn started, or it completed or waits for a decision.                *)
ReportActivity(waiting) ==
    /\ Exists /\ agent.state # "gone"
    /\ reporting
    /\ s' = [s EXCEPT !.waiting = waiting]
    /\ UNCHANGED <<agent, up, harness, reporting, pass, faults, handed, parked, served>>

HarnessExits ==
    /\ harness # "none"
    /\ harness' = "none"
    /\ UNCHANGED <<s, agent, up, reporting, pass, faults, handed, parked, served>>

(* The agent's row changes while it is active: Control Plane requests and  *)
(* the agent's own passes.                                                 *)
AgentChanges(mode) ==
    /\ agent.state = "active"
    /\ mode = "ready" => agent.sandbox # None
    /\ agent' = [agent EXCEPT !.mode = mode]
    /\ UNCHANGED <<s, up, harness, reporting, pass, faults, handed, parked, served>>

(* The VM boots, perhaps in a sandbox that replaces a lost one, or goes    *)
(* down and takes the harness with it.                                     *)
VmBoots(sandbox) ==
    /\ agent.state = "active"
    /\ ~up
    /\ sandbox # None /\ sandbox \in {agent.sandbox, agent.sandbox + 1}
    /\ up' = TRUE
    /\ agent' = [agent EXCEPT !.sandbox = sandbox]
    /\ reporting' = (reporting /\ sandbox = agent.sandbox)
    /\ UNCHANGED <<s, harness, pass, faults, handed, parked, served>>

VmGoesDown ==
    /\ up
    /\ up' = FALSE
    /\ harness' = "none"
    /\ UNCHANGED <<s, agent, reporting, pass, faults, handed, parked, served>>

(* The agent is marked for deletion, which holds its sessions unless it is *)
(* stopped, and later gone with its VM.  The row of the session stays, and *)
(* nothing reads it again.                                                 *)
AgentIsDeleted ==
    /\ \/ /\ agent.state = "active"
          /\ agent' = [agent EXCEPT !.state = "deleting",
                                    !.mode = IF @ = "stopped" THEN @ ELSE "blocked"]
       \/ /\ agent.state = "deleting" /\ ~up
          /\ agent' = [agent EXCEPT !.state = "gone", !.mode = "blocked"]
    /\ UNCHANGED <<s, up, harness, reporting, pass, faults, handed, parked, served>>

-----------------------------------------------------------------------------
(* The pass.                                                               *)

Go(step) == pc' = step /\ UNCHANGED <<snap, launch, result>>

(* From here on the pass uses only the activation generation it read.      *)
Finish(step) ==
    /\ pc' = step
    /\ snap' = [NoSnapshot EXCEPT !.act = snap.act] /\ launch' = NoLaunch
GoWrite(life) == Finish("write") /\ result' = life
Fail == Finish("error") /\ UNCHANGED result
End ==
    /\ pc' = "idle" /\ snap' = NoSnapshot /\ launch' = NoLaunch
    /\ result' = Life("Starting")

Row == UNCHANGED <<s, parked>>
World == UNCHANGED <<agent, up, faults>>
Process == UNCHANGED <<harness, reporting, handed, served>>

(* runtime.observe as one of the step's calls.                             *)
Looks == served' = (served \/ harness # "none") /\ UNCHANGED <<harness, reporting, handed>>

(* The sandbox that still holds the harness, if any (release_sandbox).     *)
HasSandbox == agent.state = "active" /\ agent.sandbox # None /\ up

(* runtime.stop, which may fail before or after it took effect; with the   *)
(* handle of a sandbox replaced since, it has nothing to stop.             *)
StopHarness(next, failed) ==
    /\ \/ up /\ harness' = "none" /\ next
       \/ harness' \in {harness, "none"} /\ failed
    /\ UNCHANGED <<reporting, handed, served>>

(* Definitions named X_Mistake are mutants of X: what X would be with a    *)
(* plausible mistake in the code.  No specification uses them.             *)

(* Mutant: the write names the newest activation instead of the one read.  *)
WriteLife_ObservesNewest(life) ==
    /\ s' = [s EXCEPT !.life = life, !.obs = s.act]
    /\ parked' = IF life.state = "Archived" THEN snap.act = s.act
                 ELSE parked /\ life.state # "Running"

(* Mutant: the write counts an activation of its own.                      *)
WriteLife_CountsOneMore(life) ==
    /\ s' = [s EXCEPT !.life = life, !.obs = snap.act + 1]
    /\ UNCHANGED parked

(* update_session_lifecycle: unconditional, by the row's ID.               *)
WriteLife(life) ==
    /\ s' = [s EXCEPT !.life = life, !.obs = snap.act]
    /\ parked' = IF life.state = "Archived" THEN snap.act = s.act
                 ELSE parked /\ life.state # "Running"

PassFindsNothing ==
    /\ pc = "idle"
    /\ ~Exists \/ agent.state = "gone"
    /\ UNCHANGED vars

(* Mutant: an archived session is not released.                            *)
Branch_ArchivedFirst(r) ==
    LET observed == r.act = r.obs
    IN  CASE r.archived -> IF r.life = Life("Archived") THEN "write" ELSE "archiveLook"
          [] r.state = "deleting" /\ ~r.archived -> "releaseLook"
          [] r.state = "active" /\ ~r.archived ->
                IF observed /\ (r.life.state = "Idle" \/ r.life = Life("Archived")) THEN "write"
                ELSE IF observed /\ r.life = LifeWith("Archived") THEN "settleLook"
                ELSE "agent"

(* What the row asks for decides what the pass does.                       *)
Branch(r) ==
    LET observed == r.act = r.obs
    IN  CASE r.state = "deleting" -> "releaseLook"
          [] r.state = "active" /\ r.archived ->
                IF r.life = Life("Archived") THEN "write" ELSE "archiveLook"
          [] r.state = "active" /\ ~r.archived ->
                IF observed /\ (r.life.state = "Idle" \/ r.life = Life("Archived")) THEN "write"
                ELSE IF observed /\ r.life = LifeWith("Archived") THEN "settleLook"
                ELSE "agent"

(* What the rest of the pass uses of the row it read.                      *)
Snapshot(r) ==
    LET read == [act |-> r.act, life |-> r.life, native |-> r.native, waiting |-> r.waiting]
    IN  CASE Branch(r) \in {"releaseLook", "finalize"} -> NoSnapshot
          [] Branch(r) \in {"write", "settleLook"} -> [NoSnapshot EXCEPT !.act = r.act]
          [] Branch(r) = "archiveLook" -> [read EXCEPT !.native = None]
          [] Branch(r) = "agent" -> [read EXCEPT !.waiting = FALSE]

PassReads ==
    /\ pc = "idle"
    /\ Exists /\ agent.state # "gone"
    /\ snap' = Snapshot(s)
    /\ pc' = Branch(s)
    /\ result' = IF Branch(s) # "write" THEN result
                 ELSE IF s.archived THEN Life("Archived") ELSE Life("Idle")
    /\ UNCHANGED launch
    /\ Row /\ World /\ Process

-----------------------------------------------------------------------------
(* Release: stop the harness, then remove the row.                         *)

ReleaseLooks ==
    /\ pc = "releaseLook"
    /\ \/ HasSandbox /\ Go("releaseStop")
       \/ ~HasSandbox /\ Go("finalize")
       \/ End
    /\ Row /\ World /\ Process

(* Mutant: a failed stop does not keep the session marked.                 *)
ReleaseStops_IgnoresFailure ==
    /\ pc = "releaseStop"
    /\ StopHarness(Go("finalize"), Go("finalize"))
    /\ Row /\ World

ReleaseStops ==
    /\ pc = "releaseStop"
    /\ StopHarness(Go("finalize"), End)
    /\ Row /\ World

FinalizeDeletion ==
    /\ pc = "finalize"
    /\ s' = [NoSession EXCEPT !.state = "removed"]
    /\ End
    /\ World /\ Process /\ UNCHANGED parked

-----------------------------------------------------------------------------
(* Archive: wait for a turn in progress, stop the harness, keep it stopped. *)

(* Mutant: a live harness always counts as one with a turn in progress.    *)
ArchiveLooks_AliveIsMidTurn ==
    /\ pc = "archiveLook"
    /\ \/ ~HasSandbox /\ Go("archiveReset")
       \/ HasSandbox /\ harness = "none" /\ Go("archiveStop")
       \/ HasSandbox /\ harness # "none" /\ GoWrite(snap.life)
       \/ Fail
    /\ Row /\ World /\ Looks

(* mid_turn: the report decides whether the harness is looked at.          *)
ArchiveLooks ==
    /\ pc = "archiveLook"
    /\ \/ ~HasSandbox /\ Go("archiveReset")
       \/ HasSandbox /\ Go("archiveStop")
       \/ /\ HasSandbox /\ harness # "none"
          /\ ~snap.waiting
          /\ GoWrite(snap.life)
       \/ Fail
    /\ Row /\ World /\ Looks

ArchiveStops ==
    /\ pc = "archiveStop"
    /\ StopHarness(Go("archiveReset"), Fail)
    /\ Row /\ World

ResetAttempts(life) ==
    /\ s' = [s EXCEPT !.tries = FALSE]
    /\ GoWrite(life)
    /\ World /\ Process /\ UNCHANGED parked

ArchiveResets == pc = "archiveReset" /\ ResetAttempts(Life("Archived"))

(* Unarchived before the archive could stop the harness.                   *)
SettleLooks ==
    /\ pc = "settleLook"
    /\ \/ HasSandbox /\ harness # "none" /\ GoWrite(Life("Running"))
       \/ ~(HasSandbox /\ harness # "none") /\ GoWrite(Life("Idle"))
       \/ Fail
    /\ Row /\ World /\ Looks

-----------------------------------------------------------------------------
(* Convergence of a session that is neither archived nor marked.           *)

(* A stopped agent makes its sessions Idle; one that cannot run them holds *)
(* them where they are (launch_blocked).                                   *)
AgentIsRead ==
    /\ pc = "agent"
    /\ \/ agent.state = "gone" /\ Fail
       \/ agent.state # "gone" /\ agent.mode = "stopped" /\ Go("idleReset")
       \/ /\ agent.mode # "stopped"
          /\ agent.state = "deleting" \/ (agent.state = "active" /\ agent.mode = "blocked")
          /\ GoWrite(LifeWith(IF snap.life.state = "Resuming" THEN "Resuming" ELSE "Starting"))
       \/ /\ agent.state = "active" /\ agent.mode = "ready"
          /\ pc' = "observe"
          /\ launch' = [launch EXCEPT !.sandbox = agent.sandbox]
          /\ UNCHANGED <<snap, result>>
    /\ Row /\ World /\ Process

(* The harness lives: it may have been idle for long; one that has run for *)
(* a minute clears its attempts; a resumed one must reach its prompt.      *)
ObservedAlive ==
    \/ Go("idleStop") /\ UNCHANGED s
    \/ /\ s' \in {s, [s EXCEPT !.tries = FALSE]}
       /\ IF snap.life.state # "Resuming" THEN GoWrite(Life("Running"))
          ELSE IF s.sandbox # launch.sandbox THEN Fail
          ELSE Go("waitInput")

(* Mutant: the conversation of a replaced sandbox is resumed all the same. *)
ObservedMissing_ResumesAnyway ==
    /\ UNCHANGED <<s, snap, result>>
    /\ pc' = "recordLaunch"
    /\ launch' = [launch EXCEPT !.resume = snap.native # None]

(* Mutant: attempts are never forgiven by time.                            *)
ObservedMissing_BacksOffForever ==
    LET replaced == s.sandbox # None /\ s.sandbox # launch.sandbox
    IN  /\ UNCHANGED s
        /\ IF s.sandbox # None /\ ~replaced /\ s.tries THEN GoWrite(LifeWith("Failed"))
           ELSE /\ pc' = IF replaced THEN "clearReport" ELSE "recordLaunch"
                /\ launch' = [launch EXCEPT !.resume = ~replaced /\ snap.native # None]
                /\ UNCHANGED <<snap, result>>

(* The harness is missing: relaunch it, after a backoff if the last launch *)
(* in this sandbox did not last, and without its conversation if that      *)
(* lived in another sandbox.                                               *)
ObservedMissing ==
    LET replaced == s.sandbox # None /\ s.sandbox # launch.sandbox
        prepared == [launch EXCEPT !.resume = ~replaced /\ snap.native # None]
    IN  /\ UNCHANGED s
        /\ \/ /\ s.sandbox # None /\ ~replaced /\ s.tries
              /\ GoWrite(LifeWith("Failed"))
           \/ /\ pc' = IF replaced THEN "clearReport" ELSE "recordLaunch"
              /\ launch' = prepared
              /\ UNCHANGED <<snap, result>>

(* Mutant: a failed observation counts as a missing harness.               *)
Observes_FailureIsMissing ==
    /\ pc = "observe"
    /\ \/ up /\ harness # "none" /\ ObservedAlive
       \/ ObservedMissing
    /\ World /\ Looks /\ UNCHANGED parked

(* The sandbox opened for the agent that was read is looked into.          *)
Observes ==
    /\ pc = "observe"
    /\ \/ up /\ agent.sandbox = launch.sandbox
          /\ IF harness # "none" THEN ObservedAlive ELSE ObservedMissing
       \/ Fail /\ UNCHANGED s
    /\ World /\ Looks /\ UNCHANGED parked

IdleStops ==
    /\ pc = "idleStop"
    /\ StopHarness(Go("idleReset"), Fail)
    /\ Row /\ World

IdleResets == pc = "idleReset" /\ ResetAttempts(Life("Idle"))

ClearReport ==
    /\ pc = "clearReport"
    /\ s' = [s EXCEPT !.native = None, !.waiting = FALSE]
    /\ Go("recordLaunch")
    /\ World /\ Process /\ UNCHANGED parked

(* Mutant: the initial prompt stays in the row.                            *)
RecordLaunch_KeepsPrompt ==
    /\ pc = "recordLaunch"
    /\ s' = [s EXCEPT !.sandbox = launch.sandbox, !.tries = TRUE, !.waiting = FALSE]
    /\ harness' = IF harness = "none" THEN "none" ELSE "stale"
    /\ launch' = [launch EXCEPT !.prompt = s.prompt /\ ~launch.resume]
    /\ reporting' = FALSE
    /\ pc' = IF launch.resume THEN "writeResuming" ELSE "start"
    /\ UNCHANGED <<snap, result, handed, parked, served>> /\ World

(* record_session_launch: a new token, and the initial prompt is consumed. *)
RecordLaunch ==
    /\ pc = "recordLaunch"
    /\ s' = [s EXCEPT !.sandbox = launch.sandbox, !.tries = TRUE, !.waiting = FALSE,
                      !.prompt = FALSE]
    /\ harness' = IF harness = "none" THEN "none" ELSE "stale"
    /\ launch' = [launch EXCEPT !.prompt = s.prompt /\ ~launch.resume]
    /\ reporting' = FALSE
    /\ pc' = IF launch.resume THEN "writeResuming" ELSE "start"
    /\ UNCHANGED <<snap, result, handed, parked, served>> /\ World

WriteResuming ==
    /\ pc = "writeResuming"
    /\ WriteLife(Life("Resuming"))
    /\ Go("start")
    /\ World /\ Process

(* runtime.start: tmux creates the session, finds one of that name, or     *)
(* fails, perhaps after it was created.                                    *)
StartsHarness ==
    /\ up /\ agent.sandbox = launch.sandbox
    /\ harness' = IF harness = "none" THEN "current" ELSE harness
    /\ reporting' = (reporting \/ harness = "none")
    /\ handed' = IF harness = "none" /\ launch.prompt THEN handed + 1 ELSE handed
    /\ served' = TRUE

Start ==
    /\ pc = "start"
    /\ \/ /\ StartsHarness
          /\ IF launch.resume THEN Go("waitInput") ELSE GoWrite(Life("Running"))
       \/ /\ StartsHarness \/ Process
          /\ Fail
    /\ Row /\ World

(* wait_for_resumed_input: the report or the screen says it is ready, or   *)
(* the wait times out, or something fails.                                 *)
WaitsForInput ==
    /\ pc = "waitInput"
    /\ \/ /\ agent.state # "gone" /\ s.waiting
          /\ GoWrite(Life("Running")) /\ UNCHANGED s
       \/ /\ agent.state # "gone" /\ harness # "none"
          /\ s' = [s EXCEPT !.waiting = TRUE]
          /\ GoWrite(Life("Running"))
       \/ (Go("timeoutStop") \/ Fail) /\ UNCHANGED s
    /\ World /\ Process /\ UNCHANGED parked

TimeoutStops ==
    /\ pc = "timeoutStop"
    /\ StopHarness(Go("timeoutWrite"), Fail)
    /\ Row /\ World

TimeoutWrites ==
    /\ pc = "timeoutWrite"
    /\ WriteLife(LifeWith("Failed"))
    /\ Fail
    /\ World /\ Process

-----------------------------------------------------------------------------
(* The end of a pass.                                                      *)

(* Mutant: a failed pass of an archived session records no failure.        *)
HandlesError_ArchivedAnyway ==
    /\ pc = "error"
    /\ IF agent.state = "gone" THEN End
       ELSE GoWrite(IF s.archived THEN Life("Archived")
                    ELSE LifeWith(IF s.life.state = "Resuming" THEN "Resuming" ELSE "Failed"))
    /\ Row /\ World /\ Process

(* Mutant: a failed pass records nothing.                                  *)
HandlesError_WritesNothing ==
    /\ pc = "error"
    /\ End
    /\ Row /\ World /\ Process

(* A failed pass looks at the row again to choose what to record.          *)
HandlesError ==
    /\ pc = "error"
    /\ IF agent.state = "gone" THEN End
       ELSE GoWrite(LifeWith(IF s.archived THEN "Archived"
                             ELSE IF s.life.state = "Resuming" THEN "Resuming"
                             ELSE "Failed"))
    /\ Row /\ World /\ Process

Write ==
    /\ pc = "write"
    /\ WriteLife(result)
    /\ End
    /\ World /\ Process

(* The daemon crashes or the store fails: the pass ends where it is.       *)
PassIsCut ==
    /\ pc # "idle"
    /\ faults < MaxFaults
    /\ faults' = faults + 1
    /\ End
    /\ Row /\ Process /\ UNCHANGED <<agent, up>>

-----------------------------------------------------------------------------
Requests ==
    \/ \E b \in BOOLEAN : Create(b) \/ SetArchived(b)
    \/ Activate
    \/ MarkDeleting

Environment ==
    \/ ReportStart
    \/ \E waiting \in BOOLEAN : ReportActivity(waiting)
    \/ HarnessExits
    \/ \E mode \in {"ready", "blocked", "stopped"} : AgentChanges(mode)
    \/ \E sandbox \in 1..MaxSandboxes : VmBoots(sandbox)
    \/ VmGoesDown
    \/ AgentIsDeleted

PassStep ==
    \/ PassReads
    \/ ReleaseLooks \/ ReleaseStops \/ FinalizeDeletion
    \/ ArchiveLooks \/ ArchiveStops \/ ArchiveResets \/ SettleLooks
    \/ AgentIsRead \/ Observes \/ IdleStops \/ IdleResets
    \/ ClearReport \/ RecordLaunch \/ WriteResuming \/ Start
    \/ WaitsForInput \/ TimeoutStops \/ TimeoutWrites
    \/ HandlesError \/ Write

Next == Requests \/ Environment \/ PassStep \/ PassFindsNothing \/ PassIsCut

Spec == Init /\ [][Next]_vars

(* The controller runs the session again and again and a pass ends, as     *)
(* every call it makes has a deadline; a backoff is over some time after   *)
(* the launch it follows.                                                  *)
Relaunches == Observes /\ pc' \in {"clearReport", "recordLaunch"}
Fairness == WF_vars(PassStep) /\ SF_vars(Relaunches)
FairSpec == Spec /\ Fairness

-----------------------------------------------------------------------------
(* Properties.                                                             *)

(* The initial prompt reaches a harness at most once, however often a      *)
(* launch fails, is cut short or is repeated ("recovery never replays it", *)
(* Reconciler::launch), and never after a relaunch could have taken it.    *)
PromptAtMostOnce == handed <= 1 /\ (s.prompt => handed = 0)

(* A session whose row is removed left no harness in a sandbox that goes   *)
(* on (Service::delete: "instead of leaving a harness running with nothing *)
(* tracking it").                                                          *)
NoHarnessLeftBehind ==
    s.state = "removed" /\ agent.state = "active" => harness = "none"

(* A live harness holds the launch token of the row, so that its reports   *)
(* are not rejected for as long as it runs (record_launch replaces the     *)
(* token, launch accepts a tmux session that is already there).            *)
HarnessHoldsCurrentToken == harness # "stale"

(* A launch that resumes a conversation does so in the sandbox that holds  *)
(* its files (converge: "Start a fresh conversation instead of resuming an *)
(* ID whose files no longer exist").                                       *)
ResumesInItsSandbox == pc = "start" /\ launch.resume => s.native = launch.sandbox

(* A session that reads Running for its latest attach had its harness seen *)
(* alive after that attach: an attach that comes while a pass is under way *)
(* is not answered by what the pass saw before it.                         *)
RunningWasSeen ==
    s.state = "active" /\ s.life.state = "Running" /\ s.act = s.obs /\ s.act > 0 => served

(* Between passes an archived session that reads Archived without a        *)
(* failure has no harness ("Stops the harness of an archived session and   *)
(* keeps it stopped", converge_archive).                                   *)
ArchivedHarnessIsStopped ==
    /\ pc = "idle" /\ agent.state = "active"
    /\ s.state = "active" /\ s.archived /\ s.life = Life("Archived")
    => harness = "none"

(* A session unarchived and not attached since launches nothing            *)
(* (settle_unarchived: "Nothing is launched until the next attach.").      *)
NothingLaunchesUntilAttach == pc = "start" => ~parked

(* Between passes a session that reads Idle has a stopped harness          *)
(* (Lifecycle::idle: "A deliberately stopped harness.").                   *)
IdleHarnessIsStopped ==
    /\ pc = "idle" /\ agent.state = "active" /\ agent.mode = "ready"
    /\ s.state = "active" /\ s.life.state = "Idle" /\ s.act = s.obs
    => harness = "none"

-----------------------------------------------------------------------------
(* A call fails, or the agent or its VM changes.                           *)
CallFails ==
    \/ pc' = "error"
    \/ pc \in {"releaseLook", "releaseStop"} /\ pc' = "idle"
Calm == <>[][~CallFails /\ UNCHANGED <<agent, up>>]_vars

(* Every attach is answered by a pass that read it, even when every call   *)
(* that the passes make fails.                                             *)
AttachIsAnswered ==
    (s.state = "active" /\ s.act > s.obs)
        ~> (s.act = s.obs \/ s.state # "active" \/ agent.state = "gone")

(* Once calls stop failing and the agent stays ready, an attach ends with  *)
(* a harness, whatever backoff the launches before it left behind, unless  *)
(* a stop of the agent answered it with Idle.                              *)
AttachReachesAHarness ==
    Calm /\ <>[](up /\ agent.mode = "ready" /\ agent.state = "active") =>
        ((s.state = "active" /\ s.act > s.obs)
            ~> (served \/ s.life.state = "Idle" \/ s.archived \/ s.state # "active"))

(* Once calls stop failing a session marked for release is removed.        *)
DeletionCompletes ==
    Calm => ((s.state = "deleting") ~> (s.state = "removed" \/ agent.state = "gone"))

(* Once calls stop failing and turns end, an archived session settles as   *)
(* Archived, unless it is unarchived or deleted.                           *)
ArchiveCompletes ==
    Calm /\ <>[](harness # "none" => s.waiting) =>
        ((s.state = "active" /\ s.archived)
            ~> (s.life = Life("Archived") \/ ~s.archived
                \/ s.state # "active" \/ agent.state = "gone"))

(* Across attaches, archives, releases, failed and cut passes and replaced *)
(* sandboxes the row tells the truth of the harness it tracks and a launch *)
(* gives it the prompt, token and conversation that are its own.           *)
SessionIsSafe ==
    /\ TypeOK /\ PromptAtMostOnce /\ NoHarnessLeftBehind
    /\ HarnessHoldsCurrentToken /\ ResumesInItsSandbox /\ RunningWasSeen

(* An attach is answered, and reaches a harness once calls succeed.        *)
AttachSettles == AttachIsAnswered /\ AttachReachesAHarness

(* What else is asked of a session is settled in the end: a release        *)
(* removes the row and an archive reads Archived.                          *)
SessionSettles == DeletionCompletes /\ ArchiveCompletes
=============================================================================
