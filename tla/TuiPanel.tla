------------------------------ MODULE TuiPanel ------------------------------
(***************************************************************************)
(* The background reads of the terminal UI (bin/agentctl/tui): the turns   *)
(* of the selected session, the check of the user's SSH configuration,     *)
(* the discovery behind the create form, and prompts.  The event loop      *)
(* looks at what is due at the top of every round ("top"), then waits for  *)
(* one input ("wait"); a read takes as long as it takes while keys and     *)
(* snapshots go on.                                                        *)
(***************************************************************************)
EXTENDS Integers, Sequences, FiniteSets

CONSTANTS
    PanelSessions,   \* sessions whose turns the panel may show
    MaxTurns,        \* bound: turns a session finishes
    MaxEdits         \* bound: changes to the SSH configuration from outside

ASSUME PanelConstants == MaxTurns \in Nat /\ MaxEdits \in Nat

VARIABLES
    round,           \* "top" or "wait"
    turns,           \* turns each session has finished, as the latest snapshot says
    stopped,         \* the agent is stopped
    chosen,          \* the selected session, or NoSession
    panel,           \* side_panel: the terminal is wide enough
    transcript,      \* App.transcript, or NoTranscript
    turnsLoading,    \* App.turns_loading: session and turn count of the load under way
    line,            \* the user's SSH configuration has agentctl's line
    ours,            \* agentctl has added it, and nobody edited the file since
    edits,           \* edits from outside so far
    setup,           \* App.ssh_setup
    checking,        \* a check runs: what it has read, "unread" before it has
    due,             \* App.ssh_check_due
    form,            \* App.modal
    discovering,     \* App.discovering
    queued,          \* App.queued_candidates is set
    prompting        \* prompts under way

transcriptVars == <<turns, stopped, chosen, panel, transcript, turnsLoading>>
sshVars == <<line, ours, edits, setup, checking, due>>
createVars == <<discovering, queued>>
panelVars == <<round, transcriptVars, sshVars, createVars, form, prompting>>

NoSession == "none"
NoTranscript == [session |-> NoSession]
NoLoad == [session |-> NoSession]
Never == -1
NotChecking == "no"
Idle == form = "none"

Waiting == round = "wait"
Handles == Waiting /\ round' = "top"

-----------------------------------------------------------------------------
(* The selected session's turns.                                           *)

Fresh(s) == [session |-> s, requestedAt |-> Never, read |-> Never, of |-> NoSession, failed |-> FALSE]

\* transcript_request: one load at a time; again when the session has finished a turn.
transcript_request ==
    LET current == IF transcript.session = chosen THEN transcript ELSE Fresh(chosen) IN
    IF chosen = NoSession \/ ~panel
    THEN transcript' = NoTranscript /\ UNCHANGED turnsLoading
    ELSE IF stopped \/ turnsLoading # NoLoad \/ current.requestedAt = turns[chosen]
    THEN transcript' = current /\ UNCHANGED turnsLoading
    ELSE /\ transcript' = [current EXCEPT !.requestedAt = turns[chosen]]
         /\ turnsLoading' = [session |-> chosen, at |-> turns[chosen], read |-> Never]

\* spawn_transcript: the daemon reads the turns in the sandbox, at least those it reported.
ReadsTurns ==
    /\ Waiting /\ turnsLoading # NoLoad /\ turnsLoading.read = Never
    /\ turnsLoading' = [turnsLoading EXCEPT !.read = turns[turnsLoading.session]]
    /\ UNCHANGED <<round, turns, stopped, chosen, panel, transcript, sshVars, createVars, form, prompting>>

Loaded(ok) ==
    [transcript EXCEPT !.requestedAt = turnsLoading.at, !.failed = ~ok,
                       !.read = IF ok THEN turnsLoading.read ELSE @,
                       !.of = IF ok THEN turnsLoading.session ELSE @]

transcript_loaded_AnySession(ok) ==
    /\ Handles /\ turnsLoading # NoLoad
    /\ ok => turnsLoading.read # Never
    /\ turnsLoading' = NoLoad
    /\ transcript' = IF transcript = NoTranscript THEN transcript ELSE Loaded(ok)
    /\ UNCHANGED <<turns, stopped, chosen, panel, sshVars, createVars, form, prompting>>

\* transcript_loaded: the selection may have left the session and come back while it loaded.
transcript_loaded(ok) ==
    /\ Handles /\ turnsLoading # NoLoad
    /\ ok => turnsLoading.read # Never
    /\ turnsLoading' = NoLoad
    /\ transcript' = IF transcript.session = turnsLoading.session THEN Loaded(ok) ELSE transcript
    /\ UNCHANGED <<turns, stopped, chosen, panel, sshVars, createVars, form, prompting>>

\* A snapshot: a turn finished, or the agent stopped or started.
SnapshotArrives ==
    /\ Handles
    /\ \/ \E s \in PanelSessions : turns[s] < MaxTurns /\ turns' = [turns EXCEPT ![s] = @ + 1] /\ UNCHANGED stopped
       \/ stopped' = ~stopped /\ UNCHANGED turns
    /\ UNCHANGED <<chosen, panel, transcript, turnsLoading, sshVars, createVars, form, prompting>>

\* A key moves the selection; resizing shows or hides the panel.
Selects(s) ==
    /\ Handles /\ Idle
    /\ chosen' = s
    /\ UNCHANGED <<turns, stopped, panel, transcript, turnsLoading, sshVars, createVars, form, prompting>>

Resizes ==
    /\ Handles
    /\ panel' = ~panel
    /\ UNCHANGED <<turns, stopped, chosen, transcript, turnsLoading, sshVars, createVars, form, prompting>>

-----------------------------------------------------------------------------
(* The SSH setup.                                                          *)

\* ssh_check_request: one check at a time.
ssh_check_request ==
    IF due /\ checking = NotChecking
    THEN due' = FALSE /\ checking' = "unread"
    ELSE UNCHANGED <<due, checking>>

\* SshSetup::check: ssh reads the configuration once, or fails.
CheckReads ==
    /\ Waiting /\ checking = "unread"
    /\ checking' \in {IF line THEN "installed" ELSE "missing", "unknown"}
    /\ UNCHANGED <<round, transcriptVars, line, ours, edits, setup, due, createVars, form, prompting>>

\* ssh_checked.
ssh_checked ==
    /\ Handles /\ checking \notin {NotChecking, "unread"}
    /\ setup' = checking
    /\ checking' = NotChecking
    /\ UNCHANGED <<transcriptVars, line, ours, edits, due, createVars, form, prompting>>

\* open_menu checks again, since the user may have changed their configuration.
OpensMenu ==
    /\ Handles /\ Idle
    /\ form' = "menu"
    /\ due' = TRUE
    /\ UNCHANGED <<transcriptVars, line, ours, edits, setup, checking, createVars, prompting>>

\* choose: an entry that needs the line asks for it while it is missing, and opens otherwise.
Chooses ==
    /\ Handles /\ form = "menu"
    /\ form' \in {"none"} \cup (IF setup = "missing" THEN {"ask setup"} ELSE {})
    /\ UNCHANGED <<transcriptVars, sshVars, createVars, prompting>>

\* Action::SetUpSsh, ssh_set_up: a check still running began before the line was added.
ssh_set_up ==
    /\ Handles /\ form = "ask setup"
    /\ form' = "none"
    /\ line' = TRUE /\ ours' = TRUE /\ setup' = "installed"
    /\ due' = TRUE
    /\ UNCHANGED <<transcriptVars, edits, checking, createVars, prompting>>

\* confirm_ssh_setup_key: declining returns to the menu, which checks again.
DeclinesSetup ==
    /\ Handles /\ form = "ask setup"
    /\ form' = "menu"
    /\ due' = TRUE
    /\ UNCHANGED <<transcriptVars, line, ours, edits, setup, checking, createVars, prompting>>

EditsConfig ==
    /\ Waiting /\ edits < MaxEdits
    /\ line' = ~line
    /\ ours' = FALSE
    /\ edits' = edits + 1
    /\ UNCHANGED <<round, transcriptVars, setup, checking, due, createVars, form, prompting>>

-----------------------------------------------------------------------------
(* The create form and prompts.                                            *)

\* Action::OpenCreate: one discovery at a time.
OpensCreate ==
    /\ Handles /\ Idle
    /\ discovering' = TRUE
    /\ UNCHANGED <<transcriptVars, sshVars, queued, form, prompting>>

\* manifests_discovered: opens the form, or waits behind another view.
manifests_discovered ==
    /\ Handles /\ discovering
    /\ discovering' = FALSE
    /\ form' = IF Idle THEN "create" ELSE form
    /\ queued' = (queued \/ ~Idle)
    /\ UNCHANGED <<transcriptVars, sshVars, prompting>>

\* open_queued_create, at the top of every round.
open_queued_create ==
    IF Idle /\ queued THEN form' = "create" /\ queued' = FALSE
                      ELSE UNCHANGED <<form, queued>>

OpensPrompt ==
    /\ Handles /\ Idle /\ chosen # NoSession /\ ~stopped
    /\ form' = "prompt"
    /\ UNCHANGED <<transcriptVars, sshVars, createVars, prompting>>

SendsPrompt ==
    /\ Handles /\ form = "prompt" /\ prompting = 0
    /\ form' = "none"
    /\ prompting' = prompting + 1
    /\ UNCHANGED <<transcriptVars, sshVars, createVars>>

\* Input::PromptSent, prompt_failed: reopened with its input, unless another form is open by now.
PromptSent(ok) ==
    /\ Handles /\ prompting > 0
    /\ prompting' = prompting - 1
    /\ form' = IF ~ok /\ Idle THEN "prompt" ELSE form
    /\ UNCHANGED <<transcriptVars, sshVars, createVars>>

Closes ==
    /\ Handles /\ form # "none"
    /\ form' = "none"
    /\ UNCHANGED <<transcriptVars, sshVars, createVars, prompting>>

-----------------------------------------------------------------------------
PanelInit ==
    /\ round = "top"
    /\ turns = [s \in PanelSessions |-> 0]
    /\ stopped = FALSE /\ chosen = NoSession /\ panel = TRUE
    /\ transcript = NoTranscript /\ turnsLoading = NoLoad
    /\ line \in BOOLEAN /\ ours = FALSE /\ edits = 0
    /\ setup = "unknown" /\ checking = NotChecking /\ due = TRUE
    /\ form = "none" /\ discovering = FALSE /\ queued = FALSE
    /\ prompting = 0

\* The top of a round of the event loop.
TopOfRound ==
    /\ round = "top"
    /\ round' = "wait"
    /\ open_queued_create
    /\ transcript_request
    /\ ssh_check_request
    /\ UNCHANGED <<turns, stopped, chosen, panel, line, ours, edits, setup, discovering, prompting>>

PanelNext ==
    \/ TopOfRound
    \/ ReadsTurns \/ SnapshotArrives \/ Resizes
    \/ \E ok \in BOOLEAN : transcript_loaded(ok) \/ PromptSent(ok)
    \/ \E s \in PanelSessions \cup {NoSession} : Selects(s)
    \/ CheckReads \/ ssh_checked \/ OpensMenu \/ Chooses \/ ssh_set_up \/ DeclinesSetup \/ EditsConfig
    \/ OpensCreate \/ manifests_discovered \/ OpensPrompt \/ SendsPrompt \/ Closes

PanelSpec == PanelInit /\ [][PanelNext]_panelVars

-----------------------------------------------------------------------------
\* Every variable has a value of its kind, and the load under way is of a session.
PanelTypeOK ==
    /\ round \in {"top", "wait"}
    /\ turns \in [PanelSessions -> 0..MaxTurns]
    /\ chosen \in PanelSessions \cup {NoSession}
    /\ transcript = NoTranscript \/ transcript.session \in PanelSessions
    /\ turnsLoading = NoLoad \/ (turnsLoading.session \in PanelSessions /\ turnsLoading.at <= turns[turnsLoading.session])
    /\ setup \in {"unknown", "installed", "missing"}
    /\ checking \in {NotChecking, "unread", "unknown", "installed", "missing"}
    /\ form \in {"none", "menu", "ask setup", "create", "prompt"}
    /\ prompting \in 0..1

\* What the panel shows once nothing loads is as new as the session's last reported turn,
\* or says that reading failed: a load that was requested before the selection left and
\* came back, or before a turn finished, does not pass for a newer one.
PanelCatchesUp ==
    Waiting /\ transcript # NoTranscript /\ ~stopped /\ turnsLoading = NoLoad
        => transcript.failed \/ transcript.read >= turns[chosen]

\* The panel shows turns of the session that is selected, whichever load ends when.
PanelShowsItsSession ==
    Waiting /\ transcript # NoTranscript => transcript.session = chosen /\ transcript.of \in {chosen, NoSession}

\* Once no check runs or is due, a line this TUI added is not reported missing: a check that
\* read the configuration before the line was added is followed by another.
SetupIsRechecked == Waiting /\ ours /\ ~due /\ checking = NotChecking => setup # "missing"

\* A discovery that ended behind another view is not forgotten: its form opens before the
\* loop waits with nothing open.
QueuedFormOpens == Waiting /\ Idle => ~queued

\* What the user has open is replaced by no answer.
FormIsTheUsers ==
    [][\A ok \in BOOLEAN : form # "none" /\ (manifests_discovered \/ transcript_loaded(ok) \/ ssh_checked
            \/ (prompting' < prompting)) => form' = form]_panelVars

\* The panel shows the selected session and catches up with its transcript, the SSH setup is
\* checked again once it changed, and a form that was queued opens (tui/app.rs).
PanelIsCurrent ==
    /\ PanelTypeOK
    /\ PanelCatchesUp
    /\ PanelShowsItsSession
    /\ SetupIsRechecked
    /\ QueuedFormOpens

=============================================================================
