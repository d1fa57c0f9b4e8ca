--------------------------- MODULE SessionPrompts ---------------------------
(***************************************************************************)
(* Prompts to one session (sessions/service.rs, sessions/runtime/tmux.rs), *)
(* and the reports by which its harness tells what became of them          *)
(* (harness/hook_script.rs, platform_api, persistence/sessions.rs).        *)
(*                                                                         *)
(* A report is posted up to three times with one event ID; a copy may be   *)
(* lost, or arrive after the hook gave it up and after later reports.  A   *)
(* delivery script that timed out is killed, which cuts it short, or could *)
(* not be killed and runs on.                                              *)
(***************************************************************************)
EXTENDS Naturals, Sequences, FiniteSets

CONSTANTS
    Senders,       \* callers of sessions.v1.prompt, one prompt each
    Waiters,       \* those of them that wait for the completed turn
    MaxLaunches,   \* bound on launches of the harness
    MaxReports,    \* bound on the reports of its hooks
    Attempts       \* posts of a retryable report (3 in the hook)

ASSUME SessionPromptsConstants ==
    /\ IsFiniteSet(Senders)
    /\ "nobody" \notin Senders
    /\ Waiters \subseteq Senders
    /\ MaxLaunches \in Nat \ {0}
    /\ MaxReports \in Nat
    /\ Attempts \in Nat \ {0}

VARIABLES
    row,        \* the session row
    claimed,    \* event IDs in session_activity_reports
    harness,    \* the process in the pane, and its input line
    reports,    \* reports made so far; the position is the event ID
    sender,     \* the callers
    holder,     \* the entry of `deliveries` for the session: a caller, or none
    script,     \* each caller's delivery script in the guest
    completed,  \* turns the current launch really completed (history)
    inputs      \* how many prompts the submitted inputs held, "one" or "many" (history)

promptVars == <<row, claimed, harness, reports, sender, holder, script, completed, inputs>>

Nobody == "nobody"

Launches == 0..MaxLaunches
Events == {"sessionStart", "turnStarted", "turnCompleted", "waitingForInput"}
NoActivity == [phase |-> "Unknown", turns |-> 0, stamp |-> 0]
Activities == [phase : {"Unknown", "Working", "WaitingForInput"}, turns : 0..MaxReports, stamp : 0..MaxReports]
\* `line` counts the prompts pasted into the input line, `queue` the inputs submitted
\* and not begun.  The process is always the one of the row's launch.
NoHarness == [up |-> FALSE, busy |-> FALSE, line |-> 0, queue |-> 0]

retryable(event) == event # "turnStarted"

NewSender == [pc |-> "new", completed_before |-> 0, settling |-> NoActivity, news |-> FALSE]
Over == {"done", "failed", "cut"}
Holding == {"checks", "delivers"}
PromptPCs == {"new", "tries", "sleeps", "waits"} \cup Holding \cup Over

PromptTypeOK ==
    /\ row \in [launch : Launches, native : BOOLEAN, activity : Activities,
                life : {"Running", "Idle", "Archived"}, archived : BOOLEAN]
    /\ claimed \subseteq 1..Len(reports)
    /\ harness \in [up : BOOLEAN, busy : BOOLEAN, line : 0..Cardinality(Senders), queue : 0..Cardinality(Senders)]
    /\ Len(reports) <= MaxReports
    /\ \A i \in 1..Len(reports) :
        /\ reports[i].token \in Launches
        /\ reports[i].event \in Events
        /\ reports[i].left + reports[i].flight <= Attempts
    /\ \A s \in Senders : sender[s].pc \in PromptPCs
    /\ holder \in Senders \cup {Nobody}
    /\ script \in [Senders -> {"none", "starts", "pasted"}]

PromptInit ==
    /\ row = [launch |-> 1, native |-> FALSE, activity |-> NoActivity, life |-> "Running", archived |-> FALSE]
    /\ claimed = {}
    /\ harness = [NoHarness EXCEPT !.up = TRUE]
    /\ reports = <<>>
    /\ sender = [s \in Senders |-> NewSender]
    /\ holder = Nobody
    /\ script = [s \in Senders |-> "none"]
    /\ completed = 0
    /\ inputs = {}

-----------------------------------------------------------------------------
(* The harness (external) and its hooks.                                   *)

\* report: the event ID is made and the payload posted for the first time.
Reported(event) ==
    Append(reports, [token |-> row.launch, event |-> event,
                     left |-> IF retryable(event) THEN Attempts - 1 ELSE 0, flight |-> 1])

MayReport == harness.up /\ Len(reports) < MaxReports

\* The conversation of this launch exists.
Boots ==
    /\ MayReport
    /\ ~\E i \in 1..Len(reports) : reports[i].token = row.launch /\ reports[i].event = "sessionStart"
    /\ reports' = Reported("sessionStart")
    /\ UNCHANGED <<row, claimed, harness, sender, holder, script, completed, inputs>>

BeginsTurn ==
    /\ MayReport
    /\ ~harness.busy
    /\ harness.queue > 0
    /\ harness' = [harness EXCEPT !.busy = TRUE, !.queue = @ - 1]
    /\ reports' = Reported("turnStarted")
    /\ UNCHANGED <<row, claimed, sender, holder, script, completed, inputs>>

AsksOperator ==
    /\ MayReport
    /\ harness.busy
    /\ reports' = Reported("waitingForInput")
    /\ UNCHANGED <<row, claimed, harness, sender, holder, script, completed, inputs>>

EndsTurn ==
    /\ MayReport
    /\ harness.busy
    /\ harness' = [harness EXCEPT !.busy = FALSE]
    /\ completed' = completed + 1
    /\ reports' = Reported("turnCompleted")
    /\ UNCHANGED <<row, claimed, sender, holder, script, inputs>>

\* Another attempt with the same payload: the one before had no 2xx answer in time.  A hook
\* that gives up, and a copy that is lost, are ones that take no further step.
Posts(i) ==
    /\ reports[i].left > 0
    /\ reports' = [reports EXCEPT ![i].left = @ - 1, ![i].flight = @ + 1]
    /\ UNCHANGED <<row, claimed, harness, sender, holder, script, completed, inputs>>

-----------------------------------------------------------------------------
(* accept_report and the two store commands behind it.                     *)

folded(activity, event) ==
    IF event = "sessionStart" /\ activity.phase # "Unknown" THEN activity
    ELSE [phase |-> IF event \in {"sessionStart", "turnStarted"} THEN "Working" ELSE "WaitingForInput",
          turns |-> IF event = "turnCompleted" THEN activity.turns + 1 ELSE activity.turns,
          stamp |-> activity.stamp + 1]

begin_report_AnyEvent(i) == reports[i].token = row.launch

\* The launch token is the current one and the event ID is new.
begin_report(i) == reports[i].token = row.launch /\ i \notin claimed

\* A duplicate, and an activity report of an earlier launch, change nothing; a start
\* report of an earlier launch is refused with 401.  The hook stops when it is answered.
Arrives(i, answered) ==
    /\ reports[i].flight > 0
    /\ reports' = [reports EXCEPT ![i].flight = @ - 1, ![i].left = IF answered THEN 0 ELSE @]
    /\ IF begin_report(i)
       THEN /\ claimed' = claimed \cup {i}
            /\ row' = [row EXCEPT !.activity = folded(@, reports[i].event),
                                  !.native = IF reports[i].event = "sessionStart" THEN TRUE ELSE @]
            /\ sender' = [s \in Senders |->
                    [sender[s] EXCEPT !.news = @ \/ (reports[i].event = "turnCompleted"
                                                     /\ sender[s].pc \in {"delivers", "waits"})]]
       ELSE UNCHANGED <<claimed, row, sender>>
    /\ UNCHANGED <<harness, holder, script, completed, inputs>>

-----------------------------------------------------------------------------
(* The session's lifecycle, which SessionLifecycle details.  A failed session is one  *)
(* that is Idle here: prompts treat the two alike.                         *)

\* record_launch, then the new process in the pane.
Relaunches ==
    /\ row.launch < MaxLaunches
    /\ ~row.archived
    /\ harness = NoHarness
    /\ row' = [row EXCEPT !.launch = @ + 1, !.activity = NoActivity, !.life = "Running"]
    /\ claimed' = {}
    /\ harness' = [NoHarness EXCEPT !.up = TRUE]
    /\ completed' = 0
    /\ UNCHANGED <<reports, sender, holder, script, inputs>>

HarnessStops(life) ==
    /\ harness # NoHarness
    /\ (life = "Archived") = row.archived
    /\ harness' = NoHarness
    /\ row' = [row EXCEPT !.life = life]
    /\ UNCHANGED <<claimed, reports, sender, holder, script, completed, inputs>>

Archives ==
    /\ ~row.archived
    /\ row' = [row EXCEPT !.archived = TRUE]
    /\ UNCHANGED <<claimed, harness, reports, sender, holder, script, completed, inputs>>

\* A running harness's state from its reports.
running_state ==
    IF ~row.native \/ row.activity.phase = "Unknown" THEN "Starting" ELSE row.activity.phase

observed ==
    CASE row.archived -> IF row.life = "Archived" THEN "Archived" ELSE "Archiving"
      [] ~row.archived /\ row.life = "Archived" -> "Idle"
      [] ~row.archived /\ row.life = "Running" -> running_state
      [] OTHER -> row.life

-----------------------------------------------------------------------------
(* Service::prompt.                                                        *)

At(s, pc) ==
    IF pc \in Over THEN [NewSender EXCEPT !.pc = pc, !.news = sender[s].news]
    ELSE [sender[s] EXCEPT !.pc = pc]

Moves(s, pc) == sender' = [sender EXCEPT ![s] = At(s, pc)]

\* open_running.
Prompts(s) ==
    /\ sender[s].pc = "new"
    /\ Moves(s, IF ~row.archived /\ row.life = "Running" THEN "tries" ELSE "failed")
    /\ UNCHANGED <<row, claimed, harness, reports, holder, script, completed, inputs>>

\* Delivering::acquire: the map is looked up and the wait begun without a gap.
acquire(s) ==
    /\ sender[s].pc = "tries"
    /\ IF holder = Nobody THEN holder' = s /\ Moves(s, "checks")
                          ELSE holder' = holder /\ Moves(s, "sleeps")
    /\ UNCHANGED <<row, claimed, harness, reports, script, completed, inputs>>

\* Drop of Delivering: the entry goes, and every waiter looks again.
Released(s, pc) ==
    /\ holder' = Nobody
    /\ sender' = [t \in Senders |->
            IF t = s THEN At(s, pc)
            ELSE IF sender[t].pc = "sleeps" THEN [sender[t] EXCEPT !.pc = "tries"] ELSE sender[t]]

\* ready_to_prompt: a poll that finds the session able to take input, from its
\* reports or, while it starts, from the pane.
BecomesReady(s) ==
    /\ sender[s].pc = "checks"
    /\ \/ observed \in {"Working", "WaitingForInput"}
       \/ observed = "Starting" /\ harness # NoHarness
    /\ sender' = [sender EXCEPT ![s].pc = "delivers", ![s].completed_before = row.activity.turns]
    /\ script' = [script EXCEPT ![s] = "starts"]
    /\ UNCHANGED <<row, claimed, harness, reports, holder, completed, inputs>>

\* Not running any more, the pane cannot be read, or fifteen seconds are over.
NeverReady(s) ==
    /\ sender[s].pc = "checks"
    /\ Released(s, "failed")
    /\ UNCHANGED <<row, claimed, harness, reports, script, completed, inputs>>

\* deliver.sh: paste-buffer into the pane.
Pastes(s) ==
    /\ script[s] = "starts"
    /\ harness # NoHarness
    /\ harness' = [harness EXCEPT !.line = @ + 1]
    /\ script' = [script EXCEPT ![s] = "pasted"]
    /\ UNCHANGED <<row, claimed, reports, sender, holder, completed, inputs>>

\* The Enter, after the settling interval: the whole line is submitted.
Submits(s) ==
    /\ script[s] = "pasted"
    /\ harness # NoHarness
    /\ script' = [script EXCEPT ![s] = "none"]
    /\ IF harness.line = 0 THEN UNCHANGED <<harness, inputs>>
       ELSE /\ harness' = [harness EXCEPT !.queue = @ + 1, !.line = 0]
            /\ inputs' = inputs \cup {IF harness.line = 1 THEN "one" ELSE "many"}
    /\ IF sender[s].pc = "delivers"
       THEN Released(s, IF s \in Waiters THEN "waits" ELSE "done")
       ELSE UNCHANGED <<sender, holder>>
    /\ UNCHANGED <<row, claimed, reports, completed>>

\* Writing the file fails, or a tmux command has no pane to act on.
ScriptFails(s) ==
    /\ script[s] # "none"
    /\ script[s] = "starts" \/ harness = NoHarness
    /\ script' = [script EXCEPT ![s] = "none"]
    /\ IF sender[s].pc = "delivers" THEN Released(s, "failed") ELSE UNCHANGED <<sender, holder>>
    /\ UNCHANGED <<row, claimed, harness, reports, completed, inputs>>

\* run_lifecycle_execution at its deadline: the script is killed where it is, or the
\* kill fails and it goes on by itself.
DeliveryTimesOut(s, killed) ==
    /\ sender[s].pc = "delivers"
    /\ Released(s, "cut")
    /\ script' = [script EXCEPT ![s] = IF killed THEN "none" ELSE @]
    /\ UNCHANGED <<row, claimed, harness, reports, completed, inputs>>

\* A poll counts the turn as settling when the counter has advanced and the harness waits.
Settled(s) == row.activity.turns > sender[s].completed_before

\* wait_for_completion: what one poll makes of a caller that waits.
polled(s) ==
    LET activity == row.activity
        waiting == \/ observed = "WaitingForInput"
                   \/ observed = "Archiving" /\ activity.phase = "WaitingForInput"
        before == sender[s].completed_before
    IN IF observed \in {"Idle", "Archived"} THEN At(s, "failed")
       ELSE IF Settled(s) /\ waiting
            THEN IF sender[s].settling = activity THEN At(s, "done")
                                                  ELSE [sender[s] EXCEPT !.settling = activity]
       ELSE [sender[s] EXCEPT !.settling = NoActivity,
                              !.completed_before = IF activity.turns > before THEN activity.turns ELSE before]

Polls(s) ==
    /\ sender[s].pc = "waits"
    /\ sender' = [sender EXCEPT ![s] = polled(s)]
    /\ UNCHANGED <<row, claimed, harness, reports, holder, script, completed, inputs>>

\* The caller's timeout, thirty minutes at most.
WaitTimesOut(s) ==
    /\ sender[s].pc = "waits"
    /\ Moves(s, "failed")
    /\ UNCHANGED <<row, claimed, harness, reports, holder, script, completed, inputs>>

-----------------------------------------------------------------------------
SenderStep(s) ==
    \/ Prompts(s) \/ acquire(s) \/ BecomesReady(s) \/ NeverReady(s)
    \/ Pastes(s) \/ Submits(s) \/ ScriptFails(s)
    \/ \E killed \in BOOLEAN : DeliveryTimesOut(s, killed)
    \/ Polls(s) \/ WaitTimesOut(s)

PromptNext ==
    \/ \E s \in Senders : SenderStep(s)
    \/ Boots \/ BeginsTurn \/ AsksOperator \/ EndsTurn
    \/ \E i \in 1..Len(reports) : Posts(i) \/ \E answered \in BOOLEAN : Arrives(i, answered)
    \/ Relaunches \/ Archives
    \/ \E life \in {"Idle", "Archived"} : HarnessStops(life)

PromptSpec == PromptInit /\ [][PromptNext]_promptVars

-----------------------------------------------------------------------------
\* The turns of the row are turns the current launch completed, each counted once,
\* however often its report was posted and whenever the copies of it and of earlier
\* launches' reports arrive (begin_report).
TurnsAreCountedOnce == row.activity.turns <= completed

\* A call that waited and succeeded saw a turn completed after its own delivery had
\* begun, never only turns that were already counted (the counter of Service::prompt).
WaitEndsOnANewTurn ==
    \A s \in Waiters : sender[s].pc = "done" => sender[s].news

\* A submitted input is one caller's prompt; two are mixed only when a delivery was
\* cut short or ran on past its deadline (the comment of Service.deliveries).
PromptsAreNotMixed ==
    (\A s \in Senders : sender[s].pc # "cut") => "many" \notin inputs

\* Nobody sleeps on a delivery that is over: a caller waits for the lock only while
\* another holds it, however holders end (Drop of Delivering).
SleeperHasAHolder ==
    \A s \in Senders : sender[s].pc = "sleeps" => holder \notin {Nobody, s}

\* Prompts to one session are typed one at a time, each delivery lock passes on, a report is
\* counted once, and a wait ends on a turn that ended after the prompt (sessions/service.rs).
PromptsArriveOnce ==
    /\ PromptTypeOK
    /\ TurnsAreCountedOnce
    /\ WaitEndsOnANewTurn
    /\ PromptsAreNotMixed
    /\ SleeperHasAHolder

=============================================================================
