---------------------------- MODULE TuiForwards ----------------------------
(***************************************************************************)
(* The port forwards and desktops the terminal UI holds                    *)
(* (bin/agentctl/tui/mod.rs).  Starting one waits for its agent on a task  *)
(* of its own, so its agent may be deleted or re-created before the answer *)
(* comes; answers and watch replies reach the event loop through one       *)
(* channel, in the order they were sent.                                   *)
(***************************************************************************)
EXTENDS Integers, Sequences, FiniteSets

CONSTANTS
    FwdAgents,       \* agent names
    Viewers,         \* ports a desktop is viewed on
    MaxBoxes,        \* bound: sandboxes made
    MaxTasks,        \* bound: forwards and opens started
    MaxInbox         \* bound: inputs waiting for the event loop

ASSUME ForwardBounds == MaxBoxes \in Nat /\ MaxTasks \in Nat /\ MaxInbox \in Nat

VARIABLES
    box,             \* what the daemon has: agent -> NoAgent, Unassigned or its sandbox
    boxes,           \* sandboxes made so far
    replied,         \* what the last watch reply said
    listedBox,       \* App.agents, as far as forwards look at it
    held,            \* ActiveForwards.active
    nextId,          \* ActiveForwards.next_id
    tasks,           \* spawn_create and spawn_open tasks that run
    started,         \* tasks started so far
    inbox,           \* the channel to the event loop
    opening,         \* App.opening
    creating,        \* App.creating
    dialog,          \* App.modal
    left             \* the TUI has quit, and whether it asked

fwdVars == <<box, boxes, replied, listedBox, held, nextId, tasks, started, inbox, opening, creating, dialog, left>>

NoAgent == -1
Unassigned == 0
NoForward == 0
NoDialog == [kind |-> "none"]
ForwardForm(a, replace) == [kind |-> "forward", agent |-> a, replace |-> replace]

-----------------------------------------------------------------------------
(* Agents come, get a sandbox, and go.                                     *)

AgentChanges(a) ==
    /\ left = "no"
    /\ \/ box[a] = NoAgent /\ box' = [box EXCEPT ![a] = Unassigned] /\ UNCHANGED boxes
       \/ /\ box[a] = Unassigned /\ boxes < MaxBoxes
          /\ box' = [box EXCEPT ![a] = boxes + 1]
          /\ boxes' = boxes + 1
       \/ box[a] # NoAgent /\ box' = [box EXCEPT ![a] = NoAgent] /\ UNCHANGED boxes
    /\ UNCHANGED <<replied, listedBox, held, nextId, tasks, started, inbox, opening, creating, dialog, left>>

\* spawn_watch: each reply is the complete current state.
WatchReplies ==
    /\ left = "no"
    /\ box # replied
    /\ Len(inbox) < MaxInbox
    /\ replied' = box
    /\ inbox' = Append(inbox, [kind |-> "resources", agents |-> box])
    /\ UNCHANGED <<box, boxes, listedBox, held, nextId, tasks, started, opening, creating, dialog, left>>

-----------------------------------------------------------------------------
(* ActiveForwards.                                                         *)

\* dials_current_sandbox: an agent whose sandbox is not materialized yet keeps what it has.
DialsCurrentSandbox(agents, f) == agents[f.agent] \in {Unassigned, f.box}

prune(agents) == {f \in held : DialsCurrentSandbox(agents, f)}

Held(t) == [id |-> nextId, agent |-> t.agent, port |-> t.port, box |-> t.box, by |-> t.kind, over |-> FALSE]

push_Unchecked(f) ==
    /\ held' = held \cup {f}
    /\ nextId' = nextId + 1

\* A forward that started after its agent was deleted or re-created is stopped at once.
push(f) ==
    IF DialsCurrentSandbox(listedBox, f)
    THEN /\ held' = held \cup {f}
         /\ nextId' = nextId + 1
    ELSE UNCHANGED <<held, nextId>>

\* desktop: the agent's forward to the viewer, while it still serves.
ServesDesktop(a, viewer) == \E f \in held : f.agent = a /\ f.port = viewer /\ ~f.over

\* The listener of a forward ends by itself.
ForwardEnds(f) ==
    /\ left = "no"
    /\ f \in held /\ ~f.over
    /\ held' = (held \ {f}) \cup {[f EXCEPT !.over = TRUE]}
    /\ UNCHANGED <<box, boxes, replied, listedBox, nextId, tasks, started, inbox, opening, creating, dialog, left>>

-----------------------------------------------------------------------------
(* The tasks.                                                              *)

\* ensure_execution: waits for the agent, and for its sandbox.
TaskReaches(t) ==
    /\ left = "no"
    /\ t \in tasks /\ t.box = Unassigned /\ t.forwards
    /\ box[t.agent] > Unassigned
    /\ tasks' = (tasks \ {t}) \cup {[t EXCEPT !.box = box[t.agent]]}
    /\ UNCHANGED <<box, boxes, replied, listedBox, held, nextId, started, inbox, opening, creating, dialog, left>>

\* The forward listens, the address is handed over, or something on the way failed.
TaskAnswers(t, ok) ==
    /\ left = "no"
    /\ t \in tasks
    /\ ok => t.box # Unassigned \/ ~t.forwards
    /\ Len(inbox) < MaxInbox
    /\ tasks' = tasks \ {t}
    /\ inbox' = Append(inbox, [kind |-> t.kind, task |-> t, ok |-> ok])
    /\ UNCHANGED <<box, boxes, replied, listedBox, held, nextId, started, opening, creating, dialog, left>>

-----------------------------------------------------------------------------
(* The event loop takes the first input of the channel.                    *)

Receives(kind) == left = "no" /\ inbox # <<>> /\ Head(inbox).kind = kind /\ inbox' = Tail(inbox)

\* Input::Resources: forwards whose sandbox is gone are stopped before the tree shows it.
TakesResources ==
    /\ Receives("resources")
    /\ held' = prune(Head(inbox).agents)
    /\ listedBox' = Head(inbox).agents
    /\ UNCHANGED <<box, boxes, replied, nextId, tasks, started, opening, creating, dialog, left>>

\* forward_created: a failure opens the form again, over whatever is open.
forward_created ==
    LET t == Head(inbox).task IN
    /\ Receives("create")
    /\ creating' = creating - 1
    /\ IF Head(inbox).ok
       THEN push(Held(t)) /\ UNCHANGED dialog
       ELSE dialog' = ForwardForm(t.agent, t.replace) /\ UNCHANGED <<held, nextId>>
    /\ UNCHANGED <<box, boxes, replied, listedBox, tasks, started, opening, left>>

\* open_finished: keeps the forward the open started, and ends the wait.
open_finished ==
    LET t == Head(inbox).task IN
    /\ Receives("open")
    /\ opening' = opening \ {<<t.agent, t.port>>}
    /\ IF Head(inbox).ok /\ t.forwards THEN push(Held(t)) ELSE UNCHANGED <<held, nextId>>
    /\ UNCHANGED <<box, boxes, replied, listedBox, tasks, started, creating, dialog, left>>

-----------------------------------------------------------------------------
(* Keys.                                                                   *)

\* f on an agent, or e on a forward, which the new one replaces.
OpensForwardForm(a, replace) ==
    /\ left = "no" /\ dialog = NoDialog
    /\ listedBox[a] # NoAgent
    /\ replace # NoForward => \E f \in held : f.id = replace /\ f.agent = a
    /\ dialog' = ForwardForm(a, replace)
    /\ UNCHANGED <<box, boxes, replied, listedBox, held, nextId, tasks, started, inbox, opening, creating, left>>

Starts(kind, a, port, replace, forwards) ==
    /\ started < MaxTasks
    /\ started' = started + 1
    /\ tasks' = tasks \cup {[no |-> started + 1, kind |-> kind, agent |-> a, port |-> port, replace |-> replace,
                            forwards |-> forwards, box |-> Unassigned]}

\* Action::CreateForward: the forward it replaces goes first.
CreatesForward(port) ==
    /\ left = "no" /\ dialog.kind = "forward"
    /\ held' = {f \in held : f.id # dialog.replace}
    /\ Starts("create", dialog.agent, port, dialog.replace, TRUE)
    /\ creating' = creating + 1
    /\ dialog' = NoDialog
    /\ UNCHANGED <<box, boxes, replied, listedBox, nextId, inbox, opening, left>>

\* Action::Open of a desktop, from the open menu: one that is forwarded already is opened again.
OpensDesktop(a, viewer) ==
    /\ left = "no" /\ dialog = NoDialog
    /\ listedBox[a] # NoAgent
    /\ <<a, viewer>> \notin opening
    /\ Starts("open", a, viewer, NoForward, ~ServesDesktop(a, viewer))
    /\ opening' = opening \cup {<<a, viewer>>}
    /\ UNCHANGED <<box, boxes, replied, listedBox, held, nextId, inbox, creating, dialog, left>>

\* Action::CreateAgent: the daemon refuses a name in use; the new agent is listed at once.
CreatesAgent(a) ==
    /\ left = "no" /\ dialog = NoDialog
    /\ box[a] = NoAgent
    /\ box' = [box EXCEPT ![a] = Unassigned]
    /\ listedBox' = [listedBox EXCEPT ![a] = Unassigned]
    /\ UNCHANGED <<boxes, replied, held, nextId, tasks, started, inbox, opening, creating, dialog, left>>

DeletesForward(f) ==
    /\ left = "no" /\ dialog = NoDialog
    /\ f \in held
    /\ held' = held \ {f}
    /\ UNCHANGED <<box, boxes, replied, listedBox, nextId, tasks, started, inbox, opening, creating, dialog, left>>

DismissesForm ==
    /\ left = "no" /\ dialog # NoDialog
    /\ dialog' = NoDialog
    /\ UNCHANGED <<box, boxes, replied, listedBox, held, nextId, tasks, started, inbox, opening, creating, left>>

\* quit asks while forwards would close with the TUI.
Quits ==
    /\ left = "no" /\ dialog = NoDialog
    /\ IF held = {} THEN left' = "unasked" /\ UNCHANGED dialog
                    ELSE dialog' = [kind |-> "quit"] /\ UNCHANGED left
    /\ UNCHANGED <<box, boxes, replied, listedBox, held, nextId, tasks, started, inbox, opening, creating>>

ConfirmsQuit ==
    /\ left = "no" /\ dialog.kind = "quit"
    /\ left' = "asked"
    /\ UNCHANGED <<box, boxes, replied, listedBox, held, nextId, tasks, started, inbox, opening, creating, dialog>>

-----------------------------------------------------------------------------
FwdInit ==
    /\ box \in [FwdAgents -> {Unassigned}]
    /\ boxes = 0
    /\ replied = [a \in FwdAgents |-> NoAgent]
    /\ listedBox = [a \in FwdAgents |-> NoAgent]
    /\ held = {} /\ nextId = 1
    /\ tasks = {} /\ started = 0 /\ inbox = <<>>
    /\ opening = {} /\ creating = 0
    /\ dialog = NoDialog
    /\ left = "no"

FwdNext ==
    \/ \E a \in FwdAgents : AgentChanges(a) \/ CreatesAgent(a)
    \/ WatchReplies \/ TakesResources \/ forward_created \/ open_finished
    \/ \E f \in held : ForwardEnds(f) \/ DeletesForward(f)
    \/ \E t \in tasks : TaskReaches(t) \/ \E ok \in BOOLEAN : TaskAnswers(t, ok)
    \/ \E a \in FwdAgents, replace \in {NoForward} \cup {f.id : f \in held} : OpensForwardForm(a, replace)
    \/ \E port \in Viewers : CreatesForward(port)
    \/ \E a \in FwdAgents, viewer \in Viewers : OpensDesktop(a, viewer)
    \/ DismissesForm \/ Quits \/ ConfirmsQuit

FwdSpec == FwdInit /\ [][FwdNext]_fwdVars

-----------------------------------------------------------------------------
\* Every variable has a value of its kind, and a forward's id names one forward: keys act by id.
FwdTypeOK ==
    /\ box \in [FwdAgents -> NoAgent..MaxBoxes] /\ listedBox \in [FwdAgents -> NoAgent..MaxBoxes]
    /\ \A f \in held : f.id \in 1..(nextId - 1) /\ f.box \in 1..MaxBoxes
    /\ \A f, g \in held : f.id = g.id => f = g
    /\ Len(inbox) <= MaxInbox
    /\ creating \in 0..MaxTasks
    /\ left \in {"no", "asked", "unasked"}

\* A held forward reaches the sandbox its agent has in the newest snapshot, or an agent
\* whose sandbox is not made yet: one that finished starting after its agent was deleted
\* or re-created, and one whose agent goes while it is held, are stopped.
HeldReachesItsAgent == \A f \in held : DialsCurrentSandbox(listedBox, f)

\* An agent's desktop is forwarded once per viewer, however often it is asked for while
\* the forward starts.
OneDesktopPerViewer ==
    \A f, g \in held : f.by = "open" /\ g.by = "open" /\ ~f.over /\ ~g.over
                         /\ f.agent = g.agent /\ f.port = g.port => f = g

WaitsFor(kind) ==
    {t \in tasks \cup {inbox[i].task : i \in {j \in DOMAIN inbox : inbox[j].kind # "resources"}} : t.kind = kind}

\* The header's counts are what is under way: no answer leaves a wait behind, and none ends
\* another's.
WaitsAreUnderWay ==
    left = "no" => /\ creating = Cardinality(WaitsFor("create"))
                   /\ opening = {<<t.agent, t.port>> : t \in WaitsFor("open")}

\* A forward the UI holds reaches the agent it names, a desktop is open once, and whatever the
\* UI waits for is under way (tui/mod.rs, tui/open.rs).
ForwardsAreSound ==
    /\ FwdTypeOK
    /\ HeldReachesItsAgent
    /\ OneDesktopPerViewer
    /\ WaitsAreUnderWay

=============================================================================
