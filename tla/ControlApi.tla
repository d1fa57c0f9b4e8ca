----------------------------- MODULE ControlApi -----------------------------
(***************************************************************************)
(* The Control API server of agentd (control_api/server.rs, socket.rs),    *)
(* the waits of its callers (control_plane/convergence.rs) and the         *)
(* daemon-wide revision they sleep on (resources.rs).                      *)
(*                                                                         *)
(* One agent row and one session row are the resources.  A committed write *)
(* advances the revision only when its caller resumes, so a commit and its *)
(* bump are two steps, and a caller that disconnects between them takes    *)
(* the bump with it.                                                       *)
(***************************************************************************)
EXTENDS Naturals, FiniteSets

CONSTANTS
    Calls,        \* connections, each carrying one request at a time
    MaxWrites,    \* bound on the writes to the store
    MaxEpochs     \* bound on the daemon processes

ASSUME ControlApiConstants ==
    /\ IsFiniteSet(Calls)
    /\ MaxWrites \in Nat
    /\ MaxEpochs \in Nat \ {0}

VARIABLES
    lifecycle,    \* Lifecycle.state, or "Down" between two daemon processes
    revision,     \* Changes: the epoch and the sequence
    agent,        \* what converge tells apart of the agent row
    session,      \* a version of the session row
    writes,       \* writes made so far
    unbumped,     \* a committed write of a pass whose revision is not advanced yet
    lostBump,     \* since the last bump a write was committed whose caller never resumed (history)
    call,         \* the connections
    checked       \* no mutation ended since the last readiness check began (history)

apiVars == <<lifecycle, revision, agent, session, writes, unbumped, lostBump, call, checked>>

-----------------------------------------------------------------------------
(* Requests.  "apply" stands for every mutating request that runs to its   *)
(* end; "ensure" for sessions.v1.ensure and executions.v1.ensure.          *)

Methods == {"watch", "progress", "converge", "ensure", "apply", "shutdown"}

is_mutating(m) == m \in {"ensure", "apply"}

ends_with_its_client(m) == m \in {"watch", "progress", "converge", "ensure"}

NoRevision == [epoch |-> 0, sequence |-> 0]

\* "settled" is a row with an outcome: converged, not ready for good, or unresponsive.
AgentRows == {"pending", "settled", "invalid", "deleting"}

NoView == [agent |-> "pending", session |-> 0]

Idle == [method |-> "watch", pc |-> "idle", after |-> NoRevision, view |-> NoView, fresh |-> NoRevision]

Waiting == {"asleep", "reads agents", "reads sessions"}
Converging == {"lookup", "pass", "first", "rereads", "reads row", "decides", "parked"}
PCs == {"idle", "writes", "bumps", "first check", "mutations", "second check"}
            \cup Waiting \cup Converging

Active(c) == call[c].pc # "idle"

\* A mutating request holds its guard from admission to its reply.
Mutations == {c \in Calls : Active(c) /\ is_mutating(call[c].method)}

IsUp == lifecycle # "Down"

Checking == {c \in Calls : call[c].pc \in {"first check", "mutations", "second check"}}

ApiTypeOK ==
    /\ lifecycle \in {"Running", "Checking", "Draining", "Down"}
    /\ revision \in [epoch : 1..MaxEpochs, sequence : 0..MaxWrites]
    /\ agent \in AgentRows
    /\ session \in 0..MaxWrites
    /\ writes \in 0..MaxWrites
    /\ unbumped \in 0..MaxWrites
    /\ lostBump \in BOOLEAN
    /\ checked \in BOOLEAN
    /\ call \in [Calls ->
            [method : Methods, pc : PCs,
             after : [epoch : 0..MaxEpochs, sequence : 0..MaxWrites],
             view : [agent : AgentRows, session : 0..MaxWrites],
             fresh : [epoch : 0..MaxEpochs, sequence : 0..MaxWrites]]]

ApiInit ==
    /\ lifecycle = "Running"
    /\ revision = [epoch |-> 1, sequence |-> 0]
    /\ agent = "pending"
    /\ session = 0
    /\ writes = 0
    /\ unbumped = 0
    /\ lostBump = FALSE
    /\ call = [c \in Calls |-> Idle]
    /\ checked = FALSE

-----------------------------------------------------------------------------
(* The server.                                                             *)

Goto(c, pc) == call' = [call EXCEPT ![c].pc = pc]

\* A client that watches keeps its last revision and resources, others keep nothing.
Ended(c) == [call EXCEPT ![c] =
    IF @.method = "watch" THEN [@ EXCEPT !.pc = "idle", !.fresh = NoRevision] ELSE Idle]

\* A reply, or an error, ends the request; its mutation guard is dropped with it.
Replies(c) ==
    /\ call' = Ended(c)
    /\ checked' = (checked /\ ~is_mutating(call[c].method))

FirstStep(m) ==
    CASE m \in {"watch", "progress"} -> "asleep"
      [] m = "converge" -> "lookup"
      [] m \in {"ensure", "apply"} -> "writes"
      [] m = "shutdown" -> "first check"

\* serve_connection and handle: a draining server reads no request, a mutating
\* one is refused unless the server is Running, and so is a second shutdown.
Request(c, m) ==
    /\ lifecycle \in {"Running", "Checking"}
    /\ ~Active(c)
    /\ is_mutating(m) \/ m = "shutdown" => lifecycle = "Running"
    /\ call' = [call EXCEPT ![c] =
            IF m = "watch" THEN [@ EXCEPT !.pc = "asleep"]
                           ELSE [Idle EXCEPT !.method = m, !.pc = FirstStep(m)]]
    /\ lifecycle' = IF m = "shutdown" THEN "Checking" ELSE lifecycle
    /\ checked' = (checked \/ m = "shutdown")
    /\ UNCHANGED <<revision, agent, session, writes, unbumped, lostBump>>

\* The select against `disconnected`: the handler is dropped where it waits.  A
\* write it has sent to the database thread is not taken back.
Disconnects(c) ==
    /\ IsUp
    /\ Active(c)
    /\ ends_with_its_client(call[c].method)
    /\ Replies(c)
    /\ lostBump' = (lostBump \/ call[c].pc = "bumps")
    /\ UNCHANGED <<lifecycle, revision, agent, session, writes, unbumped>>

-----------------------------------------------------------------------------
(* Writes: Database::request sends a command, the database thread commits  *)
(* it, and the caller bumps the revision when it resumes.                  *)

Bumped == [revision EXCEPT !.sequence = @ + 1]

\* The commit of a caller's command: apply stores desired state, which the agent
\* has not converged to; ensure activates the session.
Commits(c) ==
    /\ IsUp
    /\ call[c].pc = "writes"
    /\ writes < MaxWrites
    /\ writes' = writes + 1
    /\ \/ /\ call[c].method = "apply"
          /\ agent' \in {"pending", "deleting"}
          /\ agent = "deleting" => agent' = "deleting"
          /\ session' = session
       \/ /\ call[c].method = "ensure"
          /\ agent # "deleting"
          /\ session' = session + 1
          /\ agent' = agent
    /\ Goto(c, "bumps")
    /\ UNCHANGED <<lifecycle, revision, unbumped, lostBump, checked>>

\* The command fails, or prepare refuses the request: an error is the reply.
CommandFails(c) ==
    /\ IsUp
    /\ call[c].pc \in {"writes", "lookup", "first", "reads row", "reads agents", "reads sessions"}
    /\ Replies(c)
    /\ UNCHANGED <<lifecycle, revision, agent, session, writes, unbumped, lostBump>>

bump(c) ==
    /\ IsUp
    /\ call[c].pc = "bumps"
    /\ revision' = Bumped
    /\ IF call[c].method = "ensure"
       THEN Goto(c, "lookup") /\ checked' = checked
       ELSE Replies(c)
    /\ lostBump' = FALSE
    /\ UNCHANGED <<lifecycle, agent, session, writes, unbumped>>

\* A reconciliation pass, or a harness report, writes in the background.
PassCommits ==
    /\ IsUp
    /\ agent # "deleting"
    /\ writes < MaxWrites
    /\ writes' = writes + 1
    /\ unbumped' = unbumped + 1
    /\ \/ agent' \in AgentRows \ {agent, "deleting"} /\ session' = session
       \/ session' = session + 1 /\ agent' = agent
    /\ UNCHANGED <<lifecycle, revision, lostBump, call, checked>>

PassBumps ==
    /\ IsUp
    /\ unbumped > 0
    /\ unbumped' = unbumped - 1
    /\ revision' = Bumped
    /\ lostBump' = FALSE
    /\ UNCHANGED <<lifecycle, agent, session, writes, call, checked>>

-----------------------------------------------------------------------------
(* Watches: changed_since, then the revision, then the reads.              *)

\* At once for an absent or foreign revision and for one already behind.
changed_since(after) == after # revision

WatchWakes_OnChange(c) ==
    /\ IsUp
    /\ call[c].pc = "asleep"
    /\ changed_since(call[c].after)
    /\ call' = [call EXCEPT ![c].pc = "reads agents", ![c].fresh = revision]
    /\ UNCHANGED <<lifecycle, revision, agent, session, writes, unbumped, lostBump, checked>>

\* A change or draining ends the sleep; the revision of the reply is taken next.
WatchWakes(c) ==
    /\ IsUp
    /\ call[c].pc = "asleep"
    /\ changed_since(call[c].after) \/ lifecycle = "Draining"
    /\ call' = [call EXCEPT ![c].pc = "reads agents", ![c].fresh = revision]
    /\ UNCHANGED <<lifecycle, revision, agent, session, writes, unbumped, lostBump, checked>>

\* WATCH_KEEPALIVE passed without a change.
WatchKeepsAlive(c) ==
    /\ IsUp
    /\ call[c].pc = "asleep"
    /\ call' = [call EXCEPT ![c].pc = "reads agents", ![c].fresh = revision]
    /\ UNCHANGED <<lifecycle, revision, agent, session, writes, unbumped, lostBump, checked>>

\* agents.list; handle_progress reads nothing else before its reply.
ReadsAgents(c) ==
    /\ IsUp
    /\ call[c].pc = "reads agents"
    /\ call' = IF call[c].method = "watch"
               THEN [call EXCEPT ![c].pc = "reads sessions", ![c].view.agent = agent]
               ELSE Ended(c)
    /\ UNCHANGED <<lifecycle, revision, agent, session, writes, unbumped, lostBump, checked>>

ReadsSessions_ThenTakesRevision(c) ==
    /\ IsUp
    /\ call[c].pc = "reads sessions"
    /\ call' = [Ended(c) EXCEPT ![c].after = revision, ![c].view.session = session]
    /\ UNCHANGED <<lifecycle, revision, agent, session, writes, unbumped, lostBump, checked>>

\* sessions.list and the reply: the client watches from the reply's revision next.
ReadsSessions(c) ==
    /\ IsUp
    /\ call[c].pc = "reads sessions"
    /\ call' = [Ended(c) EXCEPT ![c].after = call[c].fresh, ![c].view.session = session]
    /\ UNCHANGED <<lifecycle, revision, agent, session, writes, unbumped, lostBump, checked>>

-----------------------------------------------------------------------------
(* Convergence::converge.                                                  *)

HasOutcome(row) == row # "pending"

\* store.get_by_name, then wakeup.reconcile.
LooksUp(c) ==
    /\ IsUp
    /\ call[c].pc = "lookup"
    /\ IF agent = "deleting" THEN Replies(c) ELSE Goto(c, "pass") /\ checked' = checked
    /\ UNCHANGED <<lifecycle, revision, agent, session, writes, unbumped, lostBump>>

\* The pass that answers the wakeup has ended.
PassAnswers(c) ==
    /\ IsUp
    /\ call[c].pc = "pass"
    /\ Goto(c, "first")
    /\ UNCHANGED <<lifecycle, revision, agent, session, writes, unbumped, lostBump, checked>>

\* The read after the pass: WaitPolicy::FirstPass (an ensure that does not follow)
\* ends with it, and so does an invalid desired state; others enter the loop.
ReadsAfterPass(c) ==
    /\ IsUp
    /\ call[c].pc = "first"
    /\ \/ /\ call[c].method = "ensure" \/ agent \in {"invalid", "deleting"}
          /\ Replies(c)
       \/ /\ agent # "deleting"
          /\ Goto(c, "rereads") /\ checked' = checked
    /\ UNCHANGED <<lifecycle, revision, agent, session, writes, unbumped, lostBump>>

\* The loop takes the revision before it reads.
TakesRevision(c) ==
    /\ IsUp
    /\ call[c].pc = "rereads"
    /\ call' = [call EXCEPT ![c].pc = "reads row", ![c].fresh = revision]
    /\ UNCHANGED <<lifecycle, revision, agent, session, writes, unbumped, lostBump, checked>>

ReadsRow(c) ==
    /\ IsUp
    /\ call[c].pc = "reads row"
    /\ call' = [call EXCEPT ![c].pc = "decides", ![c].view.agent = agent]
    /\ UNCHANGED <<lifecycle, revision, agent, session, writes, unbumped, lostBump, checked>>

\* outcome of the row that was read, which may have changed since.
Decides(c) ==
    /\ IsUp
    /\ call[c].pc = "decides"
    /\ IF HasOutcome(call[c].view.agent)
       THEN Replies(c)
       ELSE /\ call' = [call EXCEPT ![c].pc = "parked", ![c].view = NoView]
            /\ checked' = checked
    /\ UNCHANGED <<lifecycle, revision, agent, session, writes, unbumped, lostBump>>

\* changed_since in the loop: a change, or the recheck interval.
Unparks(c) ==
    /\ IsUp
    /\ call[c].pc = "parked"
    /\ call' = [call EXCEPT ![c].pc = "rereads", ![c].fresh = NoRevision]
    /\ UNCHANGED <<lifecycle, revision, agent, session, writes, unbumped, lostBump, checked>>

\* handle_converge's select against shutdown_requested.
ConvergeIsDrained(c) ==
    /\ lifecycle = "Draining"
    /\ call[c].method = "converge"
    /\ call[c].pc \in Converging
    /\ Replies(c)
    /\ UNCHANGED <<lifecycle, revision, agent, session, writes, unbumped, lostBump>>

-----------------------------------------------------------------------------
(* handle_shutdown.                                                        *)

\* ShutdownCheck dropped without commit: blockers, an error or the minute's timeout.
CheckFails(c) ==
    /\ c \in Checking
    /\ IsUp
    /\ lifecycle' = "Running"
    /\ call' = Ended(c)
    /\ UNCHANGED <<revision, agent, session, writes, unbumped, lostBump, checked>>

FirstCheckPasses(c) ==
    /\ IsUp
    /\ call[c].pc = "first check"
    /\ Goto(c, "mutations")
    /\ UNCHANGED <<lifecycle, revision, agent, session, writes, unbumped, lostBump, checked>>

\* wait_for_mutations returns, and the readiness is inspected a second time.
MutationsEnded(c) ==
    /\ IsUp
    /\ call[c].pc = "mutations"
    /\ Mutations = {}
    /\ Goto(c, "second check")
    /\ checked' = TRUE
    /\ UNCHANGED <<lifecycle, revision, agent, session, writes, unbumped, lostBump>>

\* commit: the server drains, and every waiter of `shutdown` is notified.
CommitsShutdown(c) ==
    /\ IsUp
    /\ call[c].pc = "second check"
    /\ lifecycle' = "Draining"
    /\ call' = Ended(c)
    /\ UNCHANGED <<revision, agent, session, writes, unbumped, lostBump, checked>>

\* drain_connections is over, by itself or after its timeout, and agentd exits.
Exits ==
    /\ lifecycle = "Draining"
    /\ lifecycle' = "Down"
    /\ call' = [c \in Calls |-> Ended(c)[c]]
    /\ unbumped' = 0
    /\ UNCHANGED <<revision, agent, session, writes, lostBump, checked>>

\* A new daemon starts a new change history over the same database.
Starts ==
    /\ lifecycle = "Down"
    /\ revision.epoch < MaxEpochs
    /\ lifecycle' = "Running"
    /\ revision' = [epoch |-> revision.epoch + 1, sequence |-> 0]
    /\ lostBump' = FALSE
    /\ checked' = FALSE
    /\ UNCHANGED <<agent, session, writes, unbumped, call>>

-----------------------------------------------------------------------------
CallStep(c) ==
    \/ Commits(c) \/ CommandFails(c) \/ bump(c)
    \/ WatchWakes(c) \/ WatchKeepsAlive(c) \/ ReadsAgents(c) \/ ReadsSessions(c)
    \/ LooksUp(c) \/ PassAnswers(c) \/ ReadsAfterPass(c)
    \/ TakesRevision(c) \/ ReadsRow(c) \/ Decides(c) \/ Unparks(c) \/ ConvergeIsDrained(c)
    \/ CheckFails(c) \/ FirstCheckPasses(c) \/ MutationsEnded(c) \/ CommitsShutdown(c)

ApiNext ==
    \/ \E c \in Calls, m \in Methods : Request(c, m)
    \/ \E c \in Calls : CallStep(c) \/ Disconnects(c)
    \/ PassCommits \/ PassBumps
    \/ Exits \/ Starts

\* The runtime polls every handler: a step of a call that can be taken is taken.
\* Nothing is assumed of clients, of passes that fail, or of the drain's timeout.
ApiFairness ==
    /\ \A c \in Calls :
        /\ WF_apiVars(bump(c) \/ Commits(c) \/ CommandFails(c))
        /\ WF_apiVars(WatchWakes(c) \/ ReadsAgents(c) \/ ReadsSessions(c))
        /\ WF_apiVars(LooksUp(c) \/ PassAnswers(c) \/ ReadsAfterPass(c) \/ TakesRevision(c)
                        \/ ReadsRow(c) \/ Decides(c) \/ Unparks(c))
        /\ WF_apiVars(ConvergeIsDrained(c))

ApiSpec == ApiInit /\ [][ApiNext]_apiVars /\ ApiFairness

-----------------------------------------------------------------------------
\* Every committed write has advanced the revision, or something made since has.
AllBumped ==
    /\ unbumped = 0
    /\ ~lostBump
    /\ \A c \in Calls : call[c].pc # "bumps"

\* A watcher that holds the current revision holds the current resources, whatever
\* was written while its last reply was put together: it may sleep on that revision
\* (resources.rs, "can skip intermediate states but never miss the latest one").
\* A write whose caller disconnected before it resumed is the exception, until the
\* next write: nothing advances the revision for it.
WatcherIsUpToDate ==
    IsUp /\ AllBumped => \A c \in Calls :
        (call[c].method = "watch" /\ call[c].pc \in {"idle", "asleep"} /\ call[c].after = revision)
            => call[c].view = [agent |-> agent, session |-> session]

\* A converge call never sleeps on a revision at which its agent already has an
\* outcome: the revision is taken before the row is read.
NobodyWaitsForTheLastChange ==
    AllBumped => \A c \in Calls :
        (call[c].pc = "parked" /\ call[c].fresh = revision) => ~HasOutcome(agent)

\* Once handle_shutdown has committed, no mutating request is under way, and none
\* ended after the readiness check that allowed the upgrade had begun.
DrainingFindsNoMutation ==
    lifecycle \in {"Draining", "Down"} => Mutations = {} /\ checked

\* Draining is never held by a waiter: watches, progress followers and converge calls
\* end by themselves, without the drain's timeout (comments of handle_converge,
\* handle_progress and handle_resources_watch).
DrainIsNotHeld ==
    (lifecycle = "Draining") ~> (\A c \in Calls : ~Active(c))

\* What the control API owes its clients (control_api/server.rs, convergence.rs): a watcher is
\* told of every change, nobody sleeps through the last one, and a daemon that may shut down has
\* no change under way.
WaitsAreAnswered ==
    /\ ApiTypeOK
    /\ WatcherIsUpToDate
    /\ NobodyWaitsForTheLastChange
    /\ DrainingFindsNoMutation

=============================================================================
