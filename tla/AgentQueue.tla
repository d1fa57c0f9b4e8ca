----------------------------- MODULE AgentQueue -----------------------------
(***************************************************************************)
(* The bridge of Slack and GitHub to the queue agents (integrations/src:   *)
(* agent/queue.ts, slack/connector.ts, github/poller.ts, router/).  An     *)
(* order becomes a line of an inbox; the agent answers with a line of its  *)
(* results, which a watcher posts where the order came from, hands to      *)
(* another agent, or drops.  The pending replies and the read offsets are  *)
(* kept in memory and mirrored on disk by a chain of writes; the process   *)
(* may end between any two awaits.                                         *)
(*                                                                         *)
(* An event is <<order, hops>>: hops 0 is the order, each delegation adds  *)
(* one, and the debrief of a delegation has a number past MaxHops.         *)
(***************************************************************************)
EXTENDS Naturals, Sequences, FiniteSets

CONSTANTS
    SlackOrders,     \* messages and reactions meant for the bot
    GithubOrders,    \* mentions and assignments
    Arrivals,        \* the sets of orders that may arrive in one behaviour
    QueueAgents,     \* the queue agents, a sequence: the primary first, then its routes
    MaxHops,         \* maxDelegationHops
    MaxEnds,         \* bound on the times the process ends
    WritesFail,      \* whether a write may fail
    MaxQueued        \* bound on the lines of an inbox

Orders == SlackOrders \cup GithubOrders

ASSUME QueueConstants ==
    /\ SlackOrders \cap GithubOrders = {} /\ "watcher" \notin Orders
    /\ Arrivals \subseteq SUBSET Orders
    /\ QueueAgents \in Seq(STRING) /\ Len(QueueAgents) = 2
    /\ {MaxHops, MaxEnds, MaxQueued} \subseteq Nat /\ WritesFail \in BOOLEAN

VARIABLES
    submit,          \* how far the handling of each order is
    unread,          \* GitHub orders whose notification is unread
    batch,           \* notifications of the current poll that are not handled yet
    handled,         \* GitHub orders handled in this process
    working,         \* orders that show the working reaction
    inbox,           \* the lines of each agent's inbox
    taken,           \* how many of them the agent has read
    results,         \* the lines of each agent's results
    replies,         \* the pending map in memory
    repliesOnDisk,   \* and in pending.json
    offsets,         \* the read offset of each agent's results in memory
    offsetsOnDisk,   \* and in its file, NoOffset before it is first written
    writing,          \* the chain of writes that are under way
    broken,          \* the failed write whose rejection the chain passes on
    watcher,         \* the result watcher
    up,              \* the process runs
    ends,            \* how often it ended
    posted,          \* how many answers each order in an inbox got
    counted,         \* how many lines each order put into the primary's inbox
    repeats,         \* orders whose handling failed, or was cut short, after it had an effect
    unreached        \* orders whose answer the code gives up

queueVars == <<submit, unread, batch, handled, working, inbox, taken, results, replies, repliesOnDisk, offsets,
               offsetsOnDisk, writing, broken, watcher, up, ends, posted, counted, repeats, unreached>>

Lines == 1..Len(QueueAgents)
Primary == 1
Event(o, hops) == <<o, hops>>
QueueEvents == Orders \X (0..MaxHops)
NoOffset == MaxQueued + 1
ResultKinds == {"answer", "delegate"}
Rests == [pc |-> "rests", of |-> Primary, next |-> 1, upto |-> 0]
SubmitPCs == {"unseen", "reacts", "routes", "acks", "forgets", "appends", "remembers", "persists", "marks", "ended"}

\* Every variable has a value of its kind; no offset is past the end of its file.
QueueTypeOK ==
    /\ submit \in [Orders -> SubmitPCs]
    /\ {unread, batch, handled} \subseteq SUBSET GithubOrders
    /\ {working, repeats, unreached} \subseteq SUBSET Orders
    /\ {replies, repliesOnDisk} \subseteq SUBSET QueueEvents
    /\ watcher.pc \in {"rests", "reads", "posts", "delegates", "remaps", "remapped", "notices", "drops", "waits", "debriefs", "saves"}
    /\ watcher.of \in Lines
    /\ \A a \in Lines :
        /\ offsets[a] <= Len(results[a])
        /\ offsetsOnDisk[a] # NoOffset => offsetsOnDisk[a] <= Len(results[a])
    /\ \A i \in 1..Len(writing) : writing[i].of \in Orders \cup {"watcher"}
    /\ {up, broken} \subseteq BOOLEAN

\* The process ends only in behaviours with one order, which bounds the state space.
QueueInit ==
    /\ \E arriving \in Arrivals :
        /\ submit = [o \in Orders |-> IF o \in arriving THEN "unseen" ELSE "ended"]
        /\ unread = arriving \cap GithubOrders
        /\ ends = IF Cardinality(arriving) > 1 THEN MaxEnds ELSE 0
    /\ batch = {} /\ handled = {} /\ working = {}
    /\ inbox = [a \in Lines |-> <<>>]
    /\ taken = [a \in Lines |-> 0]
    /\ results = [a \in Lines |-> <<>>]
    /\ replies = {} /\ repliesOnDisk = {}
    /\ offsets = [a \in Lines |-> 0]
    /\ offsetsOnDisk \in {[a \in Lines |-> x] : x \in {0, NoOffset}}
    /\ writing = <<>> /\ broken = FALSE
    /\ watcher = Rests
    /\ up = TRUE
    /\ posted = [o \in Orders |-> 0]
    /\ counted = [o \in Orders |-> 0]
    /\ repeats = {} /\ unreached = {}

\* Answers and lines are counted as none, one, or more.
Once(n) == IF n < 2 THEN n + 1 ELSE 2

\* The result line the watcher is at.
Line == results[watcher.of][watcher.next]
OrderOf == Line.event[1]

-----------------------------------------------------------------------------
(* atomicWrite: every write waits for the one before it, and is rejected   *)
(* with it.                                                                *)

\* persistPending takes the pending map as it is when it is called.
persistPending(who) == writing' = Append(writing, [of |-> who, file |-> "pending", agent |-> Primary,
                                                 replies |-> replies', offset |-> 0])
saveOffset(a, n) == writing' = Append(writing, [of |-> "watcher", file |-> "offset", agent |-> a,
                                              replies |-> {}, offset |-> n])

\* Where the actor whose write has ended goes on.
SubmitAfter(who, rejected) ==
    IF who = "watcher" THEN submit
    ELSE [submit EXCEPT ![who] =
            CASE who \in SlackOrders -> "ended"
              [] who \in GithubOrders /\ rejected /\ @ = "persists" -> "unseen"
              [] OTHER -> "marks"]

WatcherAfter(w, rejected) ==
    IF w.of # "watcher" THEN watcher
    ELSE CASE rejected -> Rests
           [] ~rejected /\ w.file = "offset" -> Rests
           [] OTHER -> [watcher EXCEPT !.pc = IF watcher.pc = "remapped" THEN "notices" ELSE "debriefs"]

\* Orders that may be handled, or answered, again when the process ends or a write fails now.
CutShort ==
    {o \in Orders : submit[o] \in {"forgets", "remembers", "persists", "marks"}}
        \cup (handled \cap unread)
        \cup (IF watcher.pc \in {"drops", "waits"} THEN {OrderOf} ELSE {})

WriteEnds ==
    LET w == Head(writing) IN
    /\ up /\ writing # <<>> /\ ~broken
    /\ writing' = Tail(writing)
    /\ repliesOnDisk' = IF w.file = "pending" THEN w.replies ELSE repliesOnDisk
    /\ offsetsOnDisk' = IF w.file = "offset" THEN [offsetsOnDisk EXCEPT ![w.agent] = w.offset] ELSE offsetsOnDisk
    /\ offsets' = IF w.file = "offset" THEN [offsets EXCEPT ![w.agent] = w.offset] ELSE offsets
    /\ submit' = SubmitAfter(w.of, FALSE)
    /\ watcher' = WatcherAfter(w, FALSE)
    /\ UNCHANGED <<unread, batch, handled, working, inbox, taken, results, replies, broken, up, ends, posted,
                   counted, repeats, unreached>>

\* The write fails, or one before it did: the chain is never reset.
WriteIsRejected ==
    LET w == Head(writing) IN
    /\ up /\ writing # <<>>
    /\ broken \/ WritesFail
    /\ broken' = TRUE
    /\ writing' = Tail(writing)
    /\ submit' = SubmitAfter(w.of, TRUE)
    /\ watcher' = WatcherAfter(w, TRUE)
    /\ repeats' = repeats \cup CutShort
    /\ unreached' = unreached \cup {e[1] : e \in replies \ repliesOnDisk}
    /\ UNCHANGED <<unread, batch, handled, working, inbox, taken, results, replies, repliesOnDisk, offsets,
                   offsetsOnDisk, up, ends, posted, counted>>

-----------------------------------------------------------------------------
(* SlackConnector::onMessage and onReaction; GithubPoller::handle.         *)

OrderAt(o, pc) == up /\ submit[o] = pc
StepTo(o, pc) == submit' = [submit EXCEPT ![o] = pc]
Handling == {o \in GithubOrders : submit[o] \notin {"unseen", "ended"}}

\* Slack is acknowledged before the message is handled, so it never comes again.
onMessage(o) ==
    /\ o \in SlackOrders
    /\ OrderAt(o, "unseen")
    /\ StepTo(o, "reacts")
    /\ UNCHANGED <<unread, batch, handled, working, inbox, taken, results, replies, repliesOnDisk, offsets,
                   offsetsOnDisk, writing, broken, watcher, up, ends, posted, counted, repeats, unreached>>

\* listNotifications: every unread one, when anything changed since the last poll.
PollsInbox ==
    /\ up /\ batch = {} /\ Handling = {} /\ unread # {}
    /\ batch' = unread
    /\ UNCHANGED <<submit, unread, handled, working, inbox, taken, results, replies, repliesOnDisk, offsets,
                   offsetsOnDisk, writing, broken, watcher, up, ends, posted, counted, repeats, unreached>>

\* handle: one that was handled is only marked read; one nobody allowed asked for is dropped.
Handles(o) ==
    /\ up /\ o \in batch /\ Handling = {}
    /\ batch' = batch \ {o}
    /\ \/ /\ o \in handled
          /\ UNCHANGED <<submit, handled>>
          /\ \E read \in BOOLEAN : unread' = IF read THEN unread \ {o} ELSE unread
       \/ /\ o \notin handled
          /\ handled' = handled \cup {o}
          /\ UNCHANGED submit
          /\ \E read \in BOOLEAN : unread' = IF read THEN unread \ {o} ELSE unread
       \/ /\ o \notin handled
          /\ StepTo(o, "reacts")
          /\ UNCHANGED <<handled, unread>>
    /\ UNCHANGED <<working, inbox, taken, results, replies, repliesOnDisk, offsets, offsetsOnDisk, writing, broken,
                   watcher, up, ends, posted, counted, repeats, unreached>>

\* A failed reaction ends the handling: a Slack message is lost, a notification stays unread.
AddsReaction(o) ==
    /\ OrderAt(o, "reacts")
    /\ \/ working' = working \cup {o} /\ StepTo(o, "routes")
       \/ StepTo(o, IF o \in SlackOrders THEN "ended" ELSE "unseen") /\ UNCHANGED working
    /\ UNCHANGED <<unread, batch, handled, inbox, taken, results, replies, repliesOnDisk, offsets, offsetsOnDisk,
                   writing, broken, watcher, up, ends, posted, counted, repeats, unreached>>

\* Router::annotate: a classification or none, and never an error.
annotate(o) ==
    /\ OrderAt(o, "routes")
    /\ \E pc \in {"acks", "appends"} : StepTo(o, pc)
    /\ UNCHANGED <<unread, batch, handled, working, inbox, taken, results, replies, repliesOnDisk, offsets,
                   offsetsOnDisk, writing, broken, watcher, up, ends, posted, counted, repeats, unreached>>

\* deliver: an answer is a message or a reaction; either way the working reaction goes after it.
Clears(o) == working' = working \ {o}

deliverAckDirectly(o) ==
    /\ OrderAt(o, "acks")
    /\ \/ /\ Clears(o)
          /\ posted' = IF counted[o] > 0 THEN [posted EXCEPT ![o] = Once(@)] ELSE posted
          /\ replies' = replies \ {Event(o, 0)}
          /\ persistPending(o)
          /\ StepTo(o, "forgets")
       \/ /\ o \in GithubOrders   \* a failed ack reaction of Slack is only logged
          /\ StepTo(o, "appends")
          /\ UNCHANGED <<working, posted, replies, writing>>
    /\ UNCHANGED <<unread, batch, handled, inbox, taken, results, repliesOnDisk, offsets, offsetsOnDisk, broken,
                   watcher, up, ends, counted, repeats, unreached>>

-----------------------------------------------------------------------------
(* AgentQueue::submit.                                                     *)

Puts(a, e) == inbox' = [inbox EXCEPT ![a] = Append(@, e)]

AppendsOrder(o) ==
    /\ OrderAt(o, "appends")
    /\ Len(inbox[Primary]) < MaxQueued
    /\ Puts(Primary, Event(o, 0))
    /\ counted' = [counted EXCEPT ![o] = Once(@)]
    /\ StepTo(o, "remembers")
    /\ UNCHANGED <<unread, batch, handled, working, taken, results, replies, repliesOnDisk, offsets, offsetsOnDisk,
                   writing, broken, watcher, up, ends, posted, repeats, unreached>>

Remembers_NotPersisted(o) ==
    /\ OrderAt(o, "remembers")
    /\ replies' = replies \cup {Event(o, 0)}
    /\ StepTo(o, IF o \in SlackOrders THEN "ended" ELSE "marks")
    /\ UNCHANGED <<unread, batch, handled, working, inbox, taken, results, repliesOnDisk, offsets, offsetsOnDisk,
                   writing, broken, watcher, up, ends, posted, counted, repeats, unreached>>

Remembers(o) ==
    /\ OrderAt(o, "remembers")
    /\ replies' = replies \cup {Event(o, 0)}
    /\ persistPending(o)
    /\ StepTo(o, "persists")
    /\ UNCHANGED <<unread, batch, handled, working, inbox, taken, results, repliesOnDisk, offsets, offsetsOnDisk,
                   broken, watcher, up, ends, posted, counted, repeats, unreached>>

\* handle, after the work order: marked handled first, as the call that marks it read may fail.
MarksOffset(o) ==
    /\ OrderAt(o, "marks")
    /\ StepTo(o, "unseen")
    /\ handled' = handled \cup {o}
    /\ \E read \in BOOLEAN : unread' = IF read THEN unread \ {o} ELSE unread
    /\ UNCHANGED <<batch, working, inbox, taken, results, replies, repliesOnDisk, offsets, offsetsOnDisk, writing,
                   broken, watcher, up, ends, posted, counted, repeats, unreached>>

-----------------------------------------------------------------------------
(* The agent: reads its inbox in order and answers each event with a line. *)
(* What it says to a debrief is never looked at.                           *)

AgentAnswers(a) ==
    /\ taken[a] < Len(inbox[a])
    /\ taken' = [taken EXCEPT ![a] = @ + 1]
    /\ \E kind \in IF inbox[a][taken[a] + 1] \in QueueEvents THEN ResultKinds ELSE {"answer"} :
        results' = [results EXCEPT ![a] = Append(@, [event |-> inbox[a][taken[a] + 1], kind |-> kind])]
    /\ UNCHANGED <<submit, unread, batch, handled, working, inbox, replies, repliesOnDisk, offsets, offsetsOnDisk,
                   writing, broken, watcher, up, ends, posted, counted, repeats, unreached>>

-----------------------------------------------------------------------------
(* startResultWatcher, drainResults and handleResultLine.                  *)

Watches(pc) == up /\ watcher.pc = pc
WatcherTo(pc) == watcher' = [watcher EXCEPT !.pc = pc]
Skips == [watcher EXCEPT !.pc = "reads", !.next = @ + 1]

drainResults(a) ==
    /\ Watches("rests")
    /\ Len(results[a]) > offsets[a]
    /\ watcher' = [pc |-> "reads", of |-> a, next |-> offsets[a] + 1, upto |-> Len(results[a])]
    /\ UNCHANGED <<submit, unread, batch, handled, working, inbox, taken, results, replies, repliesOnDisk, offsets,
                   offsetsOnDisk, writing, broken, up, ends, posted, counted, repeats, unreached>>

\* Hops are counted in the reply; the target is another configured agent.
MayDelegate(e) == e[2] + 1 <= MaxHops
Target == IF watcher.of = Primary THEN 2 ELSE Primary

\* handleResultLine: a result without a pending reply is not ours, or was handled.
handleResultLine ==
    /\ Watches("reads") /\ watcher.next <= watcher.upto
    /\ watcher' = CASE Line.event \notin replies -> Skips
                    [] Line.event \in replies /\ Line.kind = "delegate" /\ MayDelegate(Line.event) ->
                        [watcher EXCEPT !.pc = "delegates"]
                    [] OTHER -> [watcher EXCEPT !.pc = "posts"]
    /\ unreached' = IF Line.event \notin replies /\ \E o \in Orders : submit[o] = "remembers" /\ Line.event = Event(o, 0)
                    THEN unreached \cup {OrderOf}
                    ELSE unreached
    /\ UNCHANGED <<submit, unread, batch, handled, working, inbox, taken, results, replies, repliesOnDisk, offsets,
                   offsetsOnDisk, writing, broken, up, ends, posted, counted, repeats>>

\* post: Slack clears the working reaction even when the message fails, GitHub does not.
Post ==
    /\ Watches("posts")
    /\ posted' = [posted EXCEPT ![OrderOf] = Once(@)]
    /\ Clears(OrderOf)
    /\ WatcherTo("drops")
    /\ UNCHANGED <<submit, unread, batch, handled, inbox, taken, results, replies, repliesOnDisk, offsets,
                   offsetsOnDisk, writing, broken, up, ends, counted, repeats, unreached>>

\* The reply stays pending, and the next line is handled.
PostFails ==
    /\ Watches("posts")
    /\ IF OrderOf \in SlackOrders THEN Clears(OrderOf) ELSE UNCHANGED working
    /\ unreached' = unreached \cup {OrderOf}
    /\ watcher' = Skips
    /\ UNCHANGED <<submit, unread, batch, handled, inbox, taken, results, replies, repliesOnDisk, offsets,
                   offsetsOnDisk, writing, broken, up, ends, posted, counted, repeats>>

Drops ==
    /\ Watches("drops")
    /\ WatcherTo("waits")
    /\ replies' = replies \ {Line.event}
    /\ persistPending("watcher")
    /\ UNCHANGED <<submit, unread, batch, handled, working, inbox, taken, results, repliesOnDisk, offsets,
                   offsetsOnDisk, broken, up, ends, posted, counted, repeats, unreached>>

Outcome(e) == <<e[1], e[2] + MaxHops>>

\* sendDebrief: only for a delegated answer; not for a delegation that was refused.
sendDebrief ==
    /\ Watches("debriefs")
    /\ IF Line.event[2] > 0 /\ Line.kind = "answer" /\ Len(inbox[Target]) < MaxQueued
       THEN \/ Puts(Target, Outcome(Line.event))
            \/ UNCHANGED inbox
       ELSE UNCHANGED inbox
    /\ watcher' = Skips
    /\ UNCHANGED <<submit, unread, batch, handled, working, taken, results, replies, repliesOnDisk, offsets,
                   offsetsOnDisk, writing, broken, up, ends, posted, counted, repeats, unreached>>

-----------------------------------------------------------------------------
(* handleDelegation.                                                       *)

Delegated == Event(OrderOf, Line.event[2] + 1)

AppendsTask ==
    /\ Watches("delegates")
    /\ Len(inbox[Target]) < MaxQueued
    /\ Puts(Target, Delegated)
    /\ WatcherTo("remaps")
    /\ UNCHANGED <<submit, unread, batch, handled, working, taken, results, replies, repliesOnDisk, offsets,
                   offsetsOnDisk, writing, broken, up, ends, posted, counted, repeats, unreached>>

\* The route of the reply moves to the delegated event.
Remaps ==
    /\ Watches("remaps")
    /\ WatcherTo("remapped")
    /\ replies' = (replies \ {Line.event}) \cup {Delegated}
    /\ persistPending("watcher")
    /\ UNCHANGED <<submit, unread, batch, handled, working, inbox, taken, results, repliesOnDisk, offsets,
                   offsetsOnDisk, broken, up, ends, posted, counted, repeats, unreached>>

\* The interim notice keeps the working reaction; it may fail.
Notices ==
    /\ Watches("notices")
    /\ watcher' = Skips
    /\ UNCHANGED <<submit, unread, batch, handled, working, inbox, taken, results, replies, repliesOnDisk, offsets,
                   offsetsOnDisk, writing, broken, up, ends, posted, counted, repeats, unreached>>

Saves ==
    /\ Watches("reads") /\ watcher.next > watcher.upto
    /\ WatcherTo("saves")
    /\ saveOffset(watcher.of, watcher.upto)
    /\ UNCHANGED <<submit, unread, batch, handled, working, inbox, taken, results, replies, repliesOnDisk, offsets,
                   offsetsOnDisk, broken, up, ends, posted, counted, repeats, unreached>>

-----------------------------------------------------------------------------
(* main: the process ends at any await, and starts again.                  *)

ProcessEnds ==
    /\ up /\ ends < MaxEnds
    /\ up' = FALSE /\ ends' = ends + 1
    /\ repeats' = repeats \cup CutShort
    /\ unreached' = unreached \cup {o \in Orders : submit[o] \in {"remembers", "persists"}}
    /\ UNCHANGED <<submit, unread, batch, handled, working, inbox, taken, results, replies, repliesOnDisk, offsets,
                   offsetsOnDisk, writing, broken, watcher, posted, counted>>

\* loadOffset: without a file the backlog is skipped, so that old results are not replayed.
loadOffset(a) == IF offsetsOnDisk[a] # NoOffset THEN offsetsOnDisk[a] ELSE Len(results[a])

\* init and startResultWatcher; Slack does not send a message again, GitHub lists what is unread.
ProcessStarts ==
    /\ ~up
    /\ up' = TRUE
    /\ replies' = repliesOnDisk
    /\ offsets' = [a \in Lines |-> loadOffset(a)]
    /\ offsetsOnDisk' = [a \in Lines |-> IF Len(results[a]) > 0 THEN loadOffset(a) ELSE offsetsOnDisk[a]]
    /\ unreached' = unreached \cup {e[1] : e \in {x \in repliesOnDisk : \E a \in Lines :
                        offsetsOnDisk[a] = NoOffset /\ \E i \in 1..Len(results[a]) : results[a][i].event = x}}
    /\ submit' = [o \in Orders |-> CASE submit[o] = "unseen" -> "unseen"
                                     [] o \in GithubOrders -> "unseen"
                                     [] OTHER -> "ended"]
    /\ batch' = {} /\ handled' = {}
    /\ writing' = <<>> /\ broken' = FALSE
    /\ watcher' = Rests
    /\ UNCHANGED <<unread, working, inbox, taken, results, repliesOnDisk, ends, posted, counted, repeats>>

QueueNext ==
    \/ \E o \in Orders :
        \/ onMessage(o) \/ Handles(o) \/ AddsReaction(o) \/ annotate(o) \/ deliverAckDirectly(o)
        \/ AppendsOrder(o) \/ Remembers(o) \/ MarksOffset(o)
    \/ PollsInbox \/ WriteEnds \/ WriteIsRejected
    \/ \E a \in Lines : AgentAnswers(a) \/ drainResults(a)
    \/ handleResultLine \/ Post \/ PostFails \/ Drops \/ sendDebrief
    \/ AppendsTask \/ Remaps \/ Notices \/ Saves
    \/ ProcessEnds \/ ProcessStarts

QueueSpec == QueueInit /\ [][QueueNext]_queueVars

-----------------------------------------------------------------------------
\* Properties

\* What carries an event: a line its agent has yet to read, or a result from this offset on.
Carried(e, from) ==
    \E a \in Lines :
        \/ \E i \in (taken[a] + 1)..Len(inbox[a]) : inbox[a][i] = e
        \/ \E i \in (from[a] + 1)..Len(results[a]) : results[a][i].event = e

Known(from) == [a \in Lines |-> IF from[a] = NoOffset THEN 0 ELSE from[a]]

\* An order that was accepted gets its answer, whatever ends the process: until one is posted a
\* reply route is on disk, and its event is in an inbox or its result past the stored offset
\* (submit, handleResultLine, handleDelegation, drainResults).
AcceptedIsOnItsWay ==
    \A o \in Orders :
        counted[o] > 0 /\ posted[o] = 0 /\ o \notin unreached /\ submit[o] \notin {"remembers", "persists"} =>
            \E e \in repliesOnDisk : e[1] = o /\ Carried(e, Known(offsetsOnDisk))

\* An order is answered once, through delegations, repeated result lines and the notifications
\* GitHub lists again, unless its handling failed or was cut short after it had an effect.
AnsweredOnce == \A o \in Orders : posted[o] > 1 => o \in repeats

\* A notification that could not be marked read does not put its order into the inbox again.
QueuedOnce == \A o \in Orders : counted[o] > 1 => o \in repeats

\* While an order's reply is pending its working reaction stays, also after it was delegated.
WorkingWhilePending ==
    \A e \in replies :
        e[1] \in working \cup unreached \cup repeats \/ posted[e[1]] > 0

\* A reply whose post failed "stays pending; the next cycle retries": its result is read again.
PendingIsRetried ==
    up => \A e \in replies : Carried(e, offsets) \/ e[1] \in GithubOrders

\* An activity that was accepted is on its way to an agent or answered, once, also across a
\* restart, and shows as working for as long as it is pending (integrations/src/agent/queue.ts).
QueuedIsAnsweredOnce ==
    /\ QueueTypeOK
    /\ AcceptedIsOnItsWay
    /\ AnsweredOnce
    /\ QueuedOnce
    /\ WorkingWhilePending

=============================================================================
