------------------------------- MODULE GuestWatch -------------------------------
(***************************************************************************)
(* Whether the guest of a running sandbox still makes progress             *)
(* (agentctl sandbox/responsiveness.rs, sandbox/mod.rs guard_guest) and    *)
(* what a reconcile pass that reaches into the guest does about it.        *)
(*                                                                         *)
(* The guest replaces its heartbeat file about once a second.  The daemon  *)
(* remembers the last sequence it read and since when; work that reaches   *)
(* into the guest is guarded by an inspection every OBSERVATION_INTERVAL   *)
(* and ends when the sequence has not changed for UNRESPONSIVE_AFTER.      *)
(*                                                                         *)
(* One unit of time is an OBSERVATION_INTERVAL; ages stop counting at      *)
(* UNRESPONSIVE_AFTER.  A sequence is told apart only from the remembered  *)
(* one: `same` says that the file holds that very number, which a guest    *)
(* that counts upwards cannot repeat, but another boot of it can.          *)
(***************************************************************************)
EXTENDS Integers, FiniteSets

CONSTANTS
    UNRESPONSIVE_AFTER,   \* in observation intervals
    Declared              \* the access the agent declares: of {"ssh", "vnc"}

ASSUME WatchConstants ==
    /\ UNRESPONSIVE_AFTER \in Nat \ {0}
    /\ Declared \subseteq {"ssh", "vnc"}

VARIABLES
    vm,        \* the sandbox runs
    frozen,    \* its guest makes no progress
    beats,     \* the heartbeat file: "missing", "beat" or "junk"
    same,      \* the file's sequence is the remembered one
    tracked,   \* Tracker: whether a sequence is remembered, its age, the boot it is of
    stage,     \* the agent's pass: what it is doing
    due,       \* the guard's ticker has ticked
    status,    \* the conditions the last pass stored: ready and responsive
    wants,     \* spec.state: "run", "stop" or "kill"
    silent,    \* time since the guest last made progress, or was booted
    seen,      \* `silent` when the sandbox was last inspected
    blind      \* an inspection failed since then

watchVars == <<vm, frozen, beats, same, tracked, stage, due, status, wants, silent, seen, blind>>

\* What is remembered: of this boot or an earlier one, and whether that ended
\* other than by a pass.
Remembered == [known |-> TRUE, age |-> 0, boot |-> "this", crashed |-> FALSE]
Forgotten == [Remembered EXCEPT !.known = FALSE]
Stages == <<"setup", "ssh", "vnc">>
Working == {"setup", "ssh", "vnc"}
FailedChecks == {"setup failed", "ssh failed", "vnc failed"}
Guarded == stage \in Working \cup FailedChecks
Older(age) == IF age = UNRESPONSIVE_AFTER THEN age ELSE age + 1

-----------------------------------------------------------------------------
(* The tracker.                                                            *)

stalled(t) == t.known /\ t.age = UNRESPONSIVE_AFTER

\* Reads the heartbeat file: a missing, malformed or special file is no
\* evidence, and neither is that of a sandbox that does not run.
Evidence == vm /\ beats = "beat"

\* As it would be if every inspection counted as progress.
observe_Fresh ==
    /\ tracked' = IF ~Evidence THEN Forgotten ELSE Remembered
    /\ same' = Evidence
    /\ blind' = FALSE /\ seen' = silent

observe ==
    /\ tracked' = IF ~Evidence THEN Forgotten
                  ELSE IF tracked.known /\ same THEN tracked
                  ELSE Remembered
    /\ same' = Evidence
    /\ blind' = FALSE /\ seen' = silent

forget == tracked' = Forgotten /\ same' = FALSE /\ blind' = FALSE /\ seen' = 0

-----------------------------------------------------------------------------
(* The guest and time.  External: the guest agent, and what happens to it. *)

\* The sequence of a boot counts up: it repeats the remembered number only
\* when that is of an earlier boot.
Beats ==
    /\ vm /\ ~frozen
    /\ beats' = "beat"
    /\ same' \in IF tracked.known /\ tracked.boot = "earlier" THEN BOOLEAN ELSE {FALSE}
    /\ silent' = 0
    /\ UNCHANGED <<vm, frozen, tracked, stage, due, status, wants, seen, blind>>

\* A guest that makes progress beats in every unit of time, and an inspection
\* that is due is over within one.
TimePasses ==
    /\ ~due
    /\ ~vm \/ frozen \/ (silent = 0 /\ beats # "missing")
    /\ silent' = IF vm THEN Older(silent) ELSE 0
    /\ tracked' = [tracked EXCEPT !.age = IF tracked.known THEN Older(@) ELSE @]
    /\ due' = Guarded
    /\ UNCHANGED <<vm, frozen, beats, same, stage, status, wants, seen, blind>>

Freezes ==
    /\ vm
    /\ frozen' = ~frozen
    /\ UNCHANGED <<vm, beats, same, tracked, stage, due, status, wants, silent, seen, blind>>

\* Anything in the guest can replace the file.
Spoils ==
    /\ vm /\ beats = "beat"
    /\ beats' = "junk" /\ same' = FALSE
    /\ UNCHANGED <<vm, frozen, tracked, stage, due, status, wants, silent, seen, blind>>

VmDies ==
    /\ vm
    /\ vm' = FALSE /\ frozen' = FALSE /\ silent' = 0
    /\ tracked' = [tracked EXCEPT !.crashed = tracked.known]
    /\ UNCHANGED <<beats, same, stage, due, status, wants, seen, blind>>

-----------------------------------------------------------------------------
(* The pass of a running agent: reconciler.rs set_up.                      *)

Wants(state) ==
    /\ wants # state
    /\ wants' = state
    /\ UNCHANGED <<vm, frozen, beats, same, tracked, stage, due, status, silent, seen, blind>>

Begins ==
    /\ stage = "idle" /\ wants = "run"
    /\ stage' = "ensure"
    /\ UNCHANGED <<vm, frozen, beats, same, tracked, due, status, wants, silent, seen, blind>>

\* The Provider boots a stopped sandbox; the runtime removes the file first,
\* and the guest may have beaten when the pass inspects it.
GuestBoots ==
    /\ stage = "ensure" /\ ~vm
    /\ vm' = TRUE /\ frozen' = FALSE /\ silent' = 0
    /\ beats' = "missing" /\ same' = FALSE
    /\ tracked' = [tracked EXCEPT !.boot = IF tracked.known THEN "earlier" ELSE @]
    /\ UNCHANGED <<stage, due, status, wants, seen, blind>>

\* The access the agent declares is reconciled after setup, in order.
After(done) ==
    IF done = "setup" /\ "ssh" \in Declared THEN "ssh"
    ELSE IF done \in {"setup", "ssh"} /\ "vnc" \in Declared THEN "vnc"
    ELSE "record"

\* Whether work on a guest starts: one already known to be stalled is not reached.
Reaches(next) ==
    IF next = "record" THEN "record"
    ELSE IF stalled(tracked') THEN "unresponsive"
    ELSE next

\* The snapshot is fresh from this pass.
Ensured ==
    /\ stage = "ensure" /\ vm
    /\ observe
    /\ stage' = Reaches("setup")
    /\ due' = FALSE
    /\ UNCHANGED <<vm, frozen, beats, status, wants, silent>>

EnsureFails ==
    /\ stage = "ensure"
    /\ stage' = "idle"
    /\ status' = [ready |-> FALSE, responsive |-> "absent"]
    /\ UNCHANGED <<vm, frozen, beats, same, tracked, due, wants, silent, seen, blind>>

WorkDone ==
    /\ stage \in Working /\ vm /\ ~frozen
    /\ UNCHANGED tracked
    /\ stage' = Reaches(After(stage))
    /\ due' = FALSE
    /\ UNCHANGED <<vm, frozen, beats, same, status, wants, silent, seen, blind>>

Failing(s) == CASE s = "setup" -> "setup failed" [] s = "ssh" -> "ssh failed" [] s = "vnc" -> "vnc failed"

\* A failure of work on a guest with a heartbeat may be the stall itself.
WorkFails ==
    /\ stage \in Working
    /\ stage' = IF tracked.known THEN Failing(stage) ELSE "failed"
    /\ due' = FALSE
    /\ UNCHANGED <<vm, frozen, beats, same, tracked, status, wants, silent, seen, blind>>

\* One tick of watch_heartbeat; a failed inspection is retried at the next.
\* After a failure it ends also when the heartbeat moved or is gone.
Watches(inspected) ==
    /\ Guarded /\ due
    /\ due' = FALSE
    /\ IF inspected THEN observe ELSE UNCHANGED <<tracked, same, seen>> /\ blind' = TRUE
    /\ stage' = IF stalled(tracked') THEN "unresponsive"
                ELSE IF stage \in FailedChecks /\ inspected /\ (~Evidence \/ ~same) THEN "failed"
                ELSE stage
    /\ UNCHANGED <<vm, frozen, beats, status, wants, silent>>

Stores(ready, responsive) ==
    /\ stage' = "idle"
    /\ status' = [ready |-> ready, responsive |-> responsive]
    /\ UNCHANGED <<vm, frozen, beats, same, tracked, due, wants, silent, seen, blind>>

Records ==
    \/ stage = "record" /\ Stores(TRUE, IF tracked.known THEN "true" ELSE "unknown")
    \/ stage = "unresponsive" /\ Stores(FALSE, "false")
    \/ stage = "failed" /\ Stores(FALSE, "absent")

\* An immediate stop abandons the pass; the next one kills the sandbox.
Abandons ==
    /\ wants = "kill" /\ stage \in {"ensure"} \cup Working \cup FailedChecks
    /\ stage' = "idle" /\ due' = FALSE
    /\ UNCHANGED <<vm, frozen, beats, same, tracked, status, wants, silent, seen, blind>>

\* The pass of a stopped agent ends the sandbox, then forgets it.
Stops ==
    /\ stage = "idle" /\ wants \in {"stop", "kill"}
    /\ vm' = FALSE /\ frozen' = FALSE /\ silent' = 0
    /\ forget
    /\ status' = [ready |-> FALSE, responsive |-> "absent"]
    /\ UNCHANGED <<beats, stage, due, wants>>

\* What was remembered is in the daemon's memory only.
DaemonRestarts ==
    /\ forget
    /\ stage' = "idle" /\ due' = FALSE
    /\ UNCHANGED <<vm, frozen, beats, status, wants, silent>>

WatchInit ==
    /\ vm = FALSE /\ frozen = FALSE /\ beats = "missing" /\ same = FALSE
    /\ tracked = Forgotten /\ stage = "idle" /\ due = FALSE
    /\ status = [ready |-> FALSE, responsive |-> "absent"]
    /\ wants = "run" /\ silent = 0 /\ seen = 0 /\ blind = FALSE

WatchNext ==
    \/ Beats \/ TimePasses \/ Freezes \/ Spoils \/ VmDies
    \/ \E state \in {"run", "stop", "kill"} : Wants(state)
    \/ Begins \/ GuestBoots \/ Ensured \/ EnsureFails
    \/ WorkDone \/ WorkFails \/ \E inspected \in BOOLEAN : Watches(inspected)
    \/ Records \/ Abandons \/ Stops \/ DaemonRestarts

\* Time passes and the daemon handles its ticks.
WatchFairness ==
    /\ WF_watchVars(TimePasses)
    /\ WF_watchVars(\E inspected \in BOOLEAN : Watches(inspected))

WatchSpec == WatchInit /\ [][WatchNext]_watchVars /\ WatchFairness

-----------------------------------------------------------------------------
(* Properties.                                                             *)

WatchTypeOK ==
    /\ vm \in BOOLEAN /\ frozen \in BOOLEAN /\ same \in BOOLEAN /\ due \in BOOLEAN /\ blind \in BOOLEAN
    /\ beats \in {"missing", "beat", "junk"}
    /\ tracked \in [known : BOOLEAN, age : 0..UNRESPONSIVE_AFTER,
                   boot : {"this", "earlier"}, crashed : BOOLEAN]
    /\ stage \in {"idle", "ensure", "record", "unresponsive", "failed"} \cup Working \cup FailedChecks
    /\ status \in [ready : BOOLEAN, responsive : {"true", "unknown", "false", "absent"}]
    /\ silent \in 0..UNRESPONSIVE_AFTER /\ seen \in 0..UNRESPONSIVE_AFTER
    /\ same => tracked.known

\* A pass that calls the guest stalled is right: when last inspected, the
\* guest had made no progress for as long as that takes, less one interval for
\* each work the pass guards, which may end before its first inspection.
\* But for inspections that fail meanwhile, which count as no change seen, and
\* for a boot after a crash that comes to the very number remembered from an
\* earlier boot; a stop, which forgets, leaves no such number.
StalledMadeNoProgress ==
    [][stage' = "unresponsive" /\ stage # "unresponsive" =>
          \/ seen' + 1 + Cardinality(Declared) >= UNRESPONSIVE_AFTER
          \/ blind'
          \/ tracked'.boot = "earlier" /\ tracked'.crashed]_watchVars

\* The comment at sandbox/mod.rs:365: the snapshot "is fresh from this pass,
\* which may have booted the guest again, so a heartbeat recorded before it no
\* longer applies": nothing remembered of an earlier boot calls a guest stalled.
EarlierBootDoesNotApply ==
    stage = "unresponsive" => tracked.boot = "this"

\* A failure of guest work is answered as that failure only when the guest
\* showed progress after it, or shows no heartbeat at all: a command that
\* timed out in a guest that just stalled is reported as the stall.
FailureIsNotAStall ==
    [][stage' = "failed" /\ stage # "failed" =>
          \/ ~tracked'.known
          \/ tracked'.age = 0 /\ stage \in FailedChecks]_watchVars

\* Work on a guest that stalls ends, whether or not the work itself ever would.
GuardEnds ==
    (Guarded /\ tracked.known /\ frozen) ~> (~Guarded \/ ~tracked.known \/ ~frozen)

\* What a pass says of a guest's progress is what the guest did: a stall is of
\* a guest that made none, a failure of one that made some, and work on a guest
\* that stalls ends.
GuardIsSound == StalledMadeNoProgress /\ FailureIsNotAStall /\ GuardEnds
=============================================================================
