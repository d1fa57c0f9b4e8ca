------------------------------ MODULE Progress ------------------------------
(***************************************************************************)
(* The progress of one agent's passes and whoever follows it: the fold of  *)
(* events with its bounded output (sandbox core, progress/fold.rs), the    *)
(* daemon's latest pass and resync (agentctl, progress/), and a follower   *)
(* with its cursor (agentctl progress.rs, tui/provisioning.rs).  A         *)
(* follower looks whenever it gets to it: passes, phases and output may    *)
(* have come and gone in between.                                          *)
(***************************************************************************)
EXTENDS Integers, FiniteSets, SequencesExt

CONSTANTS
    OutputLines,     \* OUTPUT_LINES: lines the fold retains
    FinishedSteps,   \* FINISHED_STEPS: finished steps a phase retains
    MaxPasses,       \* bound: passes and failed resyncs
    MaxSteps,        \* bound: steps of a pass
    MaxPhases,       \* bound: phases of a pass
    MaxLines,        \* bound: output lines of a pass
    MaxHappens       \* bound: phases, steps and lines of a pass together

ASSUME ProgressBounds == OutputLines \in Nat \ {0} /\ FinishedSteps \in Nat \ {0}

VARIABLES
    passes,          \* passes published so far: identities are never used again
    pass,            \* the latest pass, or NoPass
    latest,          \* its progress
    resync,          \* the progress of a resync, or NoProgress
    observer,        \* the SandboxObserver that exists: "none", "pass" or "resync"
    steps,           \* steps started in the operation that is observed
    follower,        \* Renderer or Followed
    caughtUp         \* nothing happened since the follower looked

progressVars == <<passes, pass, latest, resync, observer, steps, follower, caughtUp>>

NoPass == 0
NoProgress == [status |-> "none"]
NoPhase == [open |-> {}, done |-> <<>>, omitted |-> 0, runs |-> FALSE]
NewProgress ==
    [finished |-> <<>>, current |-> NoPhase, lines |-> <<>>, next |-> 0, partial |-> {}, status |-> "running"]

-----------------------------------------------------------------------------
(* The fold.                                                               *)

LastOf(s, n) == IF Len(s) <= n THEN s ELSE SubSeq(s, Len(s) - n + 1, Len(s))

\* OutputLog::push: the oldest line goes when the log is full.
PushLine(p) == [p EXCEPT !.lines = LastOf(Append(@, p.next), OutputLines), !.next = @ + 1]

\* OutputLog::append: a chunk ends the step's line, or leaves it unterminated.
AppendOutput(p, step, ends) ==
    IF ends THEN [PushLine(p) EXCEPT !.partial = @ \ {step}] ELSE [p EXCEPT !.partial = @ \cup {step}]

\* OutputLog::flush: ends the unterminated line of a step.
FlushOf(p, step) == IF step \in p.partial THEN AppendOutput(p, step, TRUE) ELSE p

\* end_step: the step that just ended is retained, with the output position it ended at.
EndStep(p, step) ==
    LET q == FlushOf(p, step) IN
    IF step \notin q.current.open THEN q
    ELSE [q EXCEPT !.current.open = @ \ {step},
                   !.current.done = LastOf(Append(@, [no |-> step, at |-> q.next]), FinishedSteps),
                   !.current.omitted = IF Len(q.current.done) = FinishedSteps THEN @ + 1 ELSE @]

EndsOpen(p) == FoldLeft(EndStep, p, SetToSortSeq(p.current.open, LAMBDA a, b : a < b))

\* end_phase: steps that are still open end as failed before their phase does.
EndPhase(p) ==
    LET q == EndsOpen(p) IN
    IF ~q.current.runs THEN q
    ELSE [q EXCEPT !.finished = Append(@, [done |-> q.current.done, omitted |-> q.current.omitted, at |-> q.next]),
                   !.current = NoPhase]

\* close, then succeed or fail.
Close(p) == EndPhase(FoldLeft(FlushOf, p, SetToSortSeq(p.partial, LAMBDA a, b : a < b)))
EndsAs(p, status) == [Close(p) EXCEPT !.status = status]

\* start_phase: a phase that was not ended ends as failed.
StartPhase(p) == [(IF p.current.runs THEN Close(p) ELSE p) EXCEPT !.current = [NoPhase EXCEPT !.runs = TRUE]]

\* A step outside any phase is not shown.
StartStep(p, step) == IF p.current.runs THEN [p EXCEPT !.current.open = @ \cup {step}] ELSE p

-----------------------------------------------------------------------------
(* ProgressCursor::updates.                                                *)

NewCursor == [phases |-> 0, steps |-> 0, output |-> 0]

\* push_steps: the retained steps that were not seen.
Unseen(done, omitted, seen) ==
    LET skip == IF seen > omitted THEN seen - omitted ELSE 0
        fresh == SubSeq(done, skip + 1, Len(done))
    IN [i \in DOMAIN fresh |-> [kind |-> "step", n |-> fresh[i].no, at |-> fresh[i].at]]

\* What ended since, in the order it ended.
Endings(c, p) ==
    LET ofPhase(i) ==
            Append(Unseen(p.finished[i].done, p.finished[i].omitted, IF i = c.phases + 1 THEN c.steps ELSE 0),
                   [kind |-> "phase", n |-> i, at |-> p.finished[i].at])
        ended == FlattenSeq([k \in 1..(Len(p.finished) - c.phases) |-> ofPhase(c.phases + k)])
        seen == IF c.phases = Len(p.finished) THEN c.steps ELSE 0
    IN ended \o Unseen(p.current.done, p.current.omitted, seen)

FirstSequence(p) == IF p.lines = <<>> THEN p.next ELSE p.lines[1]

\* Output and endings, merged by the position each step and phase ended at.
UpdatesFrom(c, p) ==
    LET endings == Endings(c, p)
        first == FirstSequence(p)
        from == IF c.output < first THEN first ELSE c.output
        fresh == SelectSeq(p.lines, LAMBDA n : n >= from)
        before(i) == SelectSeq(endings, LAMBDA e : e.at <= fresh[i] /\ (i = 1 \/ e.at > fresh[i - 1]))
        rest == SelectSeq(endings, LAMBDA e : fresh = <<>> \/ e.at > Last(fresh))
    IN (IF c.output < first THEN <<[kind |-> "skipped", n |-> first - c.output, at |-> first]>> ELSE <<>>)
       \o FlattenSeq([i \in DOMAIN fresh |-> Append(before(i), [kind |-> "line", n |-> fresh[i], at |-> fresh[i]])])
       \o rest

Moved_KeepsSteps(c, p) ==
    [phases |-> Len(p.finished),
     steps |-> IF p.current.runs THEN p.current.omitted + Len(p.current.done) ELSE c.steps,
     output |-> p.next]

Moved(c, p) ==
    [phases |-> Len(p.finished),
     steps |-> IF p.current.runs THEN p.current.omitted + Len(p.current.done)
               ELSE IF c.phases = Len(p.finished) THEN c.steps ELSE 0,
     output |-> p.next]

\* A cursor ahead of the progress it reads starts over.
StartsOver(c, p) == IF c.phases > Len(p.finished) \/ c.output > p.next THEN NewCursor ELSE c

-----------------------------------------------------------------------------
(* ProvisioningState and SandboxObserver.                                  *)

Happens == caughtUp' = FALSE

Observed == IF resync # NoProgress THEN resync ELSE latest

\* apply: a resync's events stay out of sight.
FoldsInto(p) ==
    /\ IF resync # NoProgress THEN resync' = p /\ UNCHANGED latest ELSE latest' = p /\ UNCHANGED resync
    /\ Happens
    /\ UNCHANGED <<passes, pass, observer, follower>>

publish(p) == passes' = passes + 1 /\ pass' = passes + 1 /\ latest' = p

BeginsPass ==
    /\ observer = "none" /\ passes < MaxPasses
    /\ publish(NewProgress)
    /\ resync' = NoProgress
    /\ observer' = "pass" /\ steps' = 0
    /\ Happens
    /\ UNCHANGED follower

BeginsResync ==
    /\ observer = "none" /\ pass # NoPass /\ passes < MaxPasses
    /\ resync' = NewProgress
    /\ observer' = "resync" /\ steps' = 0
    /\ Happens
    /\ UNCHANGED <<passes, pass, latest, follower>>

RoomLeft == steps + Len(Observed.finished) + Observed.next + Cardinality(Observed.partial) < MaxHappens

PhaseStarted == observer # "none" /\ RoomLeft /\ Len(Observed.finished) < MaxPhases /\ FoldsInto(StartPhase(Observed)) /\ UNCHANGED steps

PhaseEnded == observer # "none" /\ Observed.current.runs /\ FoldsInto(EndPhase(Observed)) /\ UNCHANGED steps

StepStarted ==
    /\ observer # "none" /\ steps < MaxSteps /\ RoomLeft
    /\ steps' = steps + 1
    /\ FoldsInto(StartStep(Observed, steps + 1))

StepOutput(step, ends) ==
    /\ observer # "none" /\ step \in Observed.current.open
    /\ Observed.next + Cardinality(Observed.partial) < MaxLines /\ RoomLeft
    /\ FoldsInto(AppendOutput(Observed, step, ends))
    /\ UNCHANGED steps

StepEnded(step) == observer # "none" /\ step \in Observed.current.open /\ FoldsInto(EndStep(Observed, step)) /\ UNCHANGED steps

Succeeds ==
    /\ observer # "none"
    /\ resync' = NoProgress
    /\ latest' = IF resync # NoProgress THEN latest ELSE EndsAs(latest, "succeeded")
    /\ observer' = "none"
    /\ Happens
    /\ UNCHANGED <<passes, pass, steps, follower>>

\* failed, and the drop of an observer that had no outcome.
PassFails ==
    /\ observer # "none"
    /\ IF resync # NoProgress
       THEN publish(EndsAs(resync, "failed")) /\ resync' = NoProgress
       ELSE latest' = EndsAs(latest, "failed") /\ UNCHANGED <<passes, pass, resync>>
    /\ observer' = "none"
    /\ Happens
    /\ UNCHANGED <<steps, follower>>

\* The agent was deleted, or the daemon restarted.
Forgets ==
    /\ pass # NoPass
    /\ pass' = NoPass /\ latest' = NoProgress /\ resync' = NoProgress
    /\ observer' = "none"
    /\ Happens
    /\ UNCHANGED <<passes, steps, follower>>

-----------------------------------------------------------------------------
(* The follower.                                                           *)

NewFollower(kind) ==
    [kind |-> kind, started |-> FALSE, pass |-> NoPass, cursor |-> NewCursor, base |-> 0, told |-> 0, printed |-> <<>>]

\* The reply leaves out the lines the follower says it has (output_from).
Reply(f) ==
    IF f.pass = pass THEN [latest EXCEPT !.lines = SelectSeq(@, LAMBDA n : n >= f.cursor.output)] ELSE latest

\* A new pass starts the cursor over.
AtPass(f) ==
    IF f.pass = pass THEN f
    ELSE [f EXCEPT !.pass = pass, !.cursor = NewCursor, !.base = 0, !.told = 0, !.printed = <<>>]

\* Followed::apply.
Applies(f, p) ==
    LET g == AtPass(f)
        c == StartsOver(g.cursor, p)
    IN [g EXCEPT !.cursor = Moved(c, p), !.printed = @ \o UpdatesFrom(c, p)]

\* Renderer::render_inner: a pass that had ended before following began is history, and a
\* failure is reported once.
Renders(f, p) ==
    LET g == [Applies(f, p) EXCEPT !.started = TRUE] IN
    IF f.pass # pass /\ ~f.started /\ p.status # "running"
    THEN [g EXCEPT !.printed = <<>>, !.base = p.next, !.told = 1]
    ELSE [g EXCEPT !.told = IF p.status = "failed" THEN 1 ELSE @]

Follows ==
    /\ ~caughtUp
    /\ follower' = CASE pass = NoPass -> [follower EXCEPT !.started = TRUE]
                       [] pass # NoPass /\ follower.kind = "cli" -> Renders(follower, Reply(follower))
                       [] OTHER -> Applies(follower, Reply(follower))
    /\ caughtUp' = TRUE
    /\ UNCHANGED <<passes, pass, latest, resync, observer, steps>>

-----------------------------------------------------------------------------
ProgressInit ==
    /\ passes = 0 /\ pass = NoPass /\ latest = NoProgress /\ resync = NoProgress
    /\ observer = "none" /\ steps = 0
    /\ \E kind \in {"cli", "tui"} : follower = NewFollower(kind)
    /\ caughtUp = FALSE

ProgressNext ==
    \/ BeginsPass \/ BeginsResync \/ PhaseStarted \/ PhaseEnded \/ StepStarted
    \/ \E step \in 1..MaxSteps : StepEnded(step) \/ \E ends \in BOOLEAN : StepOutput(step, ends)
    \/ Succeeds \/ PassFails \/ Forgets \/ Follows

ProgressSpec == ProgressInit /\ [][ProgressNext]_progressVars

-----------------------------------------------------------------------------
\* Every variable has a value of its kind, and the fold keeps within its limits.
ProgressTypeOK ==
    /\ pass \in NoPass..passes /\ passes <= MaxPasses
    /\ observer \in {"none", "pass", "resync"}
    /\ \A p \in {latest, resync} \ {NoProgress} :
          /\ Len(p.lines) <= OutputLines /\ p.next <= MaxLines
          /\ Len(p.current.done) <= FinishedSteps
          /\ p.partial \subseteq p.current.open

\* Lines and skipped lines the follower printed before the entry.
Covered(i) ==
    LET f == follower IN
    f.base + FoldLeft(+, 0, [j \in 1..i |-> CASE f.printed[j].kind = "line" -> 1
                                               [] f.printed[j].kind = "skipped" -> f.printed[j].n
                                               [] OTHER -> 0])

\* A follower prints each output line of the pass once, in order, and says exactly how many
\* the log dropped before it read them, although replies leave out what it has.
LinesOnceInOrder ==
    /\ \A i \in DOMAIN follower.printed :
          follower.printed[i].kind = "line" => follower.printed[i].n = Covered(i - 1)
    /\ Covered(Len(follower.printed)) = follower.cursor.output
    /\ follower.pass = pass /\ pass # NoPass => \A i \in DOMAIN follower.printed :
          follower.printed[i].kind = "skipped" => follower.printed[i].at <= FirstSequence(latest)

\* A step is reported once, after the output it ended with and before what came later,
\* and a phase after its steps.
EndingsInOrder ==
    \A i, j \in DOMAIN follower.printed :
        LET x == follower.printed[i]
            y == follower.printed[j]
        IN /\ i < j /\ x.kind = y.kind /\ x.kind \in {"phase", "line"} => x.n < y.n
           /\ i # j /\ x.kind = "step" /\ y.kind = "step" => x.n # y.n
           /\ i < j /\ x.kind = "line" /\ y.kind \in {"step", "phase"} => x.n < y.at

\* A follower that has caught up has printed every step the fold still retains.
NothingIsMissed ==
    caughtUp /\ pass # NoPass /\ ~(follower.told = 1 /\ follower.printed = <<>>) =>
        \A s \in Range(latest.current.done) \cup UNION {Range(latest.finished[i].done) : i \in DOMAIN latest.finished} :
            \E i \in DOMAIN follower.printed : follower.printed[i].kind = "step" /\ follower.printed[i].n = s.no

\* An operation that ended leaves no phase, step or unterminated line open, and a pass
\* nobody observes any more has ended, however its observer went.
EndedIsClosed ==
    pass # NoPass => /\ latest.status # "running" => latest.current = NoPhase /\ latest.partial = {}
                     /\ observer # "pass" => latest.status # "running"

\* A resync shows nothing of the sandbox's healthy passes: until it fails, what followers
\* see stays as the last pass left it.
ResyncStaysOutOfSight == [][observer = "resync" /\ pass' = pass => latest' = latest]_progressVars

\* A follower of a pass sees each line and each ending once and in order, and what it missed
\* shows as missing (core/progress/fold.rs, bin/agentctl/progress.rs).
FollowersMissNothing ==
    /\ ProgressTypeOK
    /\ LinesOnceInOrder
    /\ EndingsInOrder
    /\ NothingIsMissed
    /\ EndedIsClosed

=============================================================================
