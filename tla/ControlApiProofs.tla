-------------------------- MODULE ControlApiProofs --------------------------
(***************************************************************************)
(* Proofs about who waits for an answer: a call of the control API         *)
(* (ControlApi), for any finite set of connections and any number of       *)
(* writes and daemon processes, and an order given in a chat (AgentQueue), *)
(* for any orders, restarts and failing writes.                            *)
(*                                                                         *)
(* The invariant of the API says what a revision that a call holds is      *)
(* worth while the call is being put together: it was taken before the     *)
(* reads that belong to it, it is never ahead of the daemon's, and         *)
(* whatever was committed since has yet to advance the daemon's.           *)
(***************************************************************************)
EXTENDS ControlApi, AgentQueue, FiniteSetTheorems, SequenceTheorems, TLAPS

Revisions == [epoch : 0..MaxEpochs, sequence : 0..MaxWrites]
Views == [agent : AgentRows, session : 0..MaxWrites]
Connections == [method : Methods, pc : PCs, after : Revisions, view : Views, fresh : Revisions]

(* The writes whose callers have yet to resume.                            *)
Bumping == {c \in Calls : call[c].pc = "bumps"}

(* The revision counts writes, each of them once at most.                  *)
RevisionCountsWrites ==
    /\ session <= writes
    /\ revision.sequence + unbumped + Cardinality(Bumping) <= writes

(* A revision was the daemon's once.                                       *)
NotAfter(r, later) ==
    /\ r.epoch <= later.epoch
    /\ r.epoch = later.epoch => r.sequence <= later.sequence

IsPast(r) == NotAfter(r, revision)

RevisionsArePast == \A c \in Calls : IsPast(call[c].after) /\ IsPast(call[c].fresh)

(* Which requests get to which step.                                       *)
MethodFits(k) ==
    /\ k.pc \in {"idle", "reads sessions"} => k.method = "watch"
    /\ k.pc \in Converging \cup {"writes", "bumps"} => k.method # "watch"
    /\ k.pc \in {"first check", "mutations", "second check"} => k.method = "shutdown"

MethodsFit == \A c \in Calls : MethodFits(call[c])

(* What a connection knows of the resources at the daemon's revision.      *)
Knows(k) ==
    /\ k.method = "watch" /\ k.after = revision => k.view = [agent |-> agent, session |-> session]
    /\ k.pc \in {"reads sessions", "decides"} /\ k.fresh = revision => k.view.agent = agent
    /\ k.pc = "parked" /\ k.fresh = revision => ~HasOutcome(agent)

KnowledgeIsCurrent == IsUp /\ AllBumped => \A c \in Calls : Knows(call[c])

(* A readiness check is the only one, and its second half runs beside no   *)
(* mutation.                                                               *)
CheckIsAlone ==
    /\ \A c \in Checking : lifecycle = "Checking"
    /\ \A c, d \in Checking : c = d
    /\ \A c \in Calls : call[c].pc = "second check" => Mutations = {} /\ checked
    /\ DrainingFindsNoMutation
    /\ ~IsUp => unbumped = 0 /\ \A c \in Calls : ~Active(c)

IInv ==
    /\ ApiTypeOK /\ RevisionCountsWrites /\ RevisionsArePast /\ MethodsFit
    /\ KnowledgeIsCurrent /\ CheckIsAlone

-----------------------------------------------------------------------------
(* Connections.                                                            *)

LEMMA TypeIsConnections ==
    ApiTypeOK <=>
        /\ lifecycle \in {"Running", "Checking", "Draining", "Down"}
        /\ revision \in [epoch : 1..MaxEpochs, sequence : 0..MaxWrites]
        /\ agent \in AgentRows
        /\ session \in 0..MaxWrites
        /\ writes \in 0..MaxWrites
        /\ unbumped \in 0..MaxWrites
        /\ lostBump \in BOOLEAN
        /\ checked \in BOOLEAN
        /\ call \in [Calls -> Connections]
BY DEF ApiTypeOK, Connections, Revisions, Views

LEMMA IdleIsConnection == Idle \in Connections /\ NoRevision \in Revisions /\ NoView \in Views
BY ControlApiConstants DEF Idle, Connections, Revisions, Views, NoRevision, NoView, Methods, PCs, AgentRows

(* What a step makes of its connection is one.                             *)
LEMMA ConnectionChanges ==
    ASSUME NEW k \in Connections, NEW pc \in PCs
    PROVE  /\ [k EXCEPT !.pc = pc] \in Connections
           /\ \A r \in Revisions : [k EXCEPT !.pc = pc, !.fresh = r] \in Connections
           /\ \A a \in AgentRows : [k EXCEPT !.pc = pc, !.view.agent = a] \in Connections
           /\ [k EXCEPT !.pc = pc, !.view = NoView] \in Connections
           /\ \A m \in Methods : [Idle EXCEPT !.method = m, !.pc = pc] \in Connections
BY IdleIsConnection DEF Connections, Views

(* What is left of a connection whose request has ended.                   *)
Rest(c) == IF call[c].method = "watch" THEN [call[c] EXCEPT !.pc = "idle", !.fresh = NoRevision] ELSE Idle

LEMMA EndedRests ==
    ASSUME call \in [Calls -> Connections], NEW c \in Calls
    PROVE  /\ Ended(c) = [call EXCEPT ![c] = Rest(c)]
           /\ Rest(c) \in Connections
           /\ Rest(c).pc = "idle" /\ Rest(c).method = "watch" /\ Rest(c).fresh = NoRevision
           /\ \/ call[c].method = "watch" /\ Rest(c).after = call[c].after /\ Rest(c).view = call[c].view
              \/ Rest(c).after = NoRevision
BY IdleIsConnection DEF Ended, Rest, Connections, Idle

-----------------------------------------------------------------------------
(* Steps of one connection that leave the resources alone.                 *)

(* NoRevision is the revision of no daemon.                                *)
LEMMA NoRevisionIsPast == ApiTypeOK => IsPast(NoRevision) /\ NoRevision # revision
BY ControlApiConstants DEF ApiTypeOK, IsPast, NotAfter, NoRevision

LEMMA RevisionIsPast == ApiTypeOK => IsPast(revision) /\ revision \in Revisions
BY DEF ApiTypeOK, IsPast, NotAfter, Revisions

(* What the revision and the connections are worth.                        *)
Held == RevisionCountsWrites /\ RevisionsArePast /\ MethodsFit /\ KnowledgeIsCurrent

(* Only connection c changes, into k, and nothing of the resources.        *)
Becomes(c, k) ==
    /\ call' = [call EXCEPT ![c] = k]
    /\ UNCHANGED <<revision, agent, session, writes, unbumped>>

LEMMA BecomesKeeps ==
    ASSUME IInv, NEW c \in Calls, NEW k \in Connections, Becomes(c, k),
           IsUp, call[c].pc # "bumps", k.pc # "bumps", lostBump' = lostBump,
           MethodFits(k), IsPast(k.after), IsPast(k.fresh), AllBumped => Knows(k)
    PROVE  Held'
<1>2. call'[c] = k /\ \A d \in Calls : d # c => call'[d] = call[d]
    BY TypeIsConnections DEF Becomes, IInv
<1>3. UNCHANGED <<revision, agent, session, writes, unbumped, lostBump>>
    BY DEF Becomes
<1>4. Bumping' = Bumping
    BY <1>2 DEF Bumping
<1>8. AllBumped' => AllBumped
    BY <1>2, <1>3 DEF AllBumped
<1> QED
    BY <1>2, <1>8, <1>3, <1>4 DEF Held, KnowledgeIsCurrent, IInv, Knows, MethodsFit, MethodFits,
       RevisionsArePast, IsPast, RevisionCountsWrites

LEMMA EndingKeeps ==
    ASSUME IInv, NEW c \in Calls, Becomes(c, Rest(c)), IsUp, call[c].pc # "bumps", lostBump' = lostBump
    PROVE  Held'
BY TypeIsConnections, EndedRests, NoRevisionIsPast, BecomesKeeps DEF IInv, RevisionsArePast,
   MethodFits, Converging, Knows, KnowledgeIsCurrent

(* A request begins.                                                       *)
LEMMA RequestHolds ==
    ASSUME IInv, NEW c \in Calls, NEW m \in Methods, Request(c, m)
    PROVE  Held' /\ call' \in [Calls -> Connections]
<1>1. call \in [Calls -> Connections] /\ call[c] \in Connections /\ MethodFits(call[c])
    BY TypeIsConnections DEF IInv, MethodsFit
<1>2. IsUp /\ lostBump' = lostBump /\ call[c].pc = "idle" /\ call[c].method = "watch"
    BY <1>1 DEF Request, IsUp, Active, MethodFits
<1> DEFINE k == IF m = "watch" THEN [call[c] EXCEPT !.pc = "asleep"]
                               ELSE [Idle EXCEPT !.method = m, !.pc = FirstStep(m)]
<1>3. Becomes(c, k)
    BY DEF Request, Becomes
<1>5. CASE m = "watch"
  <2>2. /\ k \in Connections /\ k.pc = "asleep" /\ k.method = "watch" /\ k.after = call[c].after
        /\ k.fresh = call[c].fresh /\ k.view = call[c].view
      BY <1>1, <1>2, <1>5, ConnectionChanges DEF Connections, PCs, Waiting
  <2> HIDE DEF k
  <2> QED
      BY <1>1, <1>2, <1>3, <2>2, BecomesKeeps DEF Becomes, Knows, IInv, KnowledgeIsCurrent,
         MethodFits, Converging, RevisionsArePast
<1>6. CASE m # "watch"
  <2>2. k \in Connections
      BY <1>1, <1>6, ConnectionChanges DEF FirstStep, PCs, Methods, Waiting, Converging
  <2>3. k.pc = FirstStep(m) /\ k.method = m /\ k.after = NoRevision /\ k.fresh = NoRevision
      BY <1>6 DEF Idle
  <2> HIDE DEF k
  <2> QED
      BY <1>1, <1>2, <1>3, <2>2, <2>3, BecomesKeeps, <1>6, NoRevisionIsPast DEF Becomes, Knows,
         MethodFits, FirstStep, Methods, PCs, Waiting, Converging, IInv
<1> QED
    BY <1>5, <1>6

(* A request ends.                                                         *)
LEMMA EndHolds ==
    ASSUME IInv, NEW c \in Calls, IsUp, call' = Ended(c),
           UNCHANGED <<revision, agent, session, writes, unbumped, lostBump>>, call[c].pc # "bumps"
    PROVE  Held' /\ call' \in [Calls -> Connections]
BY TypeIsConnections, EndedRests, EndingKeeps DEF IInv, Becomes

(* A handler goes on, keeping what it read.                                *)
LEMMA GotoHolds ==
    ASSUME IInv, NEW c \in Calls, NEW pc \in PCs, IsUp, Goto(c, pc),
           UNCHANGED <<revision, agent, session, writes, unbumped, lostBump>>,
           call[c].pc # "bumps", pc \notin {"bumps", "reads sessions", "decides", "parked"},
           MethodFits([call[c] EXCEPT !.pc = pc])
    PROVE  Held' /\ call' \in [Calls -> Connections]
BY TypeIsConnections, BecomesKeeps DEF IInv, Becomes, Goto, Connections, Knows, KnowledgeIsCurrent,
   RevisionsArePast

(* A handler takes the revision before it reads.                           *)
LEMMA TakesHolds ==
    ASSUME IInv, NEW c \in Calls, NEW pc \in {"reads agents", "reads row"}, NEW r \in {revision}, IsUp,
           call' = [call EXCEPT ![c].pc = pc, ![c].fresh = r],
           UNCHANGED <<revision, agent, session, writes, unbumped, lostBump>>,
           call[c].pc # "bumps", pc = "reads row" => call[c].pc \in Converging
    PROVE  Held' /\ call' \in [Calls -> Connections]
<1>1. /\ call \in [Calls -> Connections] /\ call[c] \in Connections /\ MethodFits(call[c])
      /\ revision \in Revisions
    BY TypeIsConnections, RevisionIsPast DEF IInv, MethodsFit
<1> DEFINE k == [call[c] EXCEPT !.pc = pc, !.fresh = r]
<1>2. Becomes(c, k)
    BY <1>1 DEF Becomes
<1>4. k \in Connections
    BY <1>1, ConnectionChanges DEF PCs, Waiting, Converging
<1>5. k.pc = pc /\ k.after = call[c].after /\ k.fresh = revision /\ k.view = call[c].view /\ k.method = call[c].method
    BY <1>1 DEF Connections
<1> HIDE DEF k
<1>9. Held'
    BY <1>2, <1>4, <1>5, BecomesKeeps, RevisionIsPast, <1>1 DEF IInv, RevisionsArePast, Knows,
       KnowledgeIsCurrent, MethodFits, Converging, PCs, Waiting
<1> QED
    BY <1>1, <1>2, <1>4, <1>9 DEF Becomes

(* Watches read and reply.                                                 *)
LEMMA WatchReadsHold ==
    ASSUME IInv, NEW c \in Calls, ReadsAgents(c) \/ ReadsSessions(c)
    PROVE  Held' /\ call' \in [Calls -> Connections]
<1>1. /\ call \in [Calls -> Connections] /\ call[c] \in Connections /\ MethodFits(call[c])
      /\ agent \in AgentRows /\ session \in 0..MaxWrites
    BY TypeIsConnections DEF IInv, MethodsFit
<1>5. CASE ReadsAgents(c) /\ call[c].method # "watch"
    BY <1>5, EndHolds DEF ReadsAgents, ReadsSessions
<1>6. CASE ReadsAgents(c) /\ call[c].method = "watch"
  <2> DEFINE k == [call[c] EXCEPT !.pc = "reads sessions", !.view.agent = agent]
  <2>1. Becomes(c, k)
      BY <1>1, <1>6 DEF ReadsAgents, Becomes, ReadsSessions
  <2>3. k \in Connections
      BY <1>1, ConnectionChanges DEF PCs, Waiting
  <2>4. /\ k.pc = "reads sessions" /\ k.method = "watch" /\ k.after = call[c].after /\ k.fresh = call[c].fresh
        /\ k.view = [call[c].view EXCEPT !.agent = agent] /\ call[c].view \in Views
      BY <1>1, <1>6 DEF Connections
  <2> HIDE DEF k
  <2>6. AllBumped => Knows(k)
    <3>2. ASSUME call[c].view = [agent |-> agent, session |-> session]
          PROVE  k.view = [agent |-> agent, session |-> session]
      <4>1. call[c].view.session = session
          BY <3>2
      <4> QED
          BY <4>1, <2>4, <1>1 DEF Views
    <3> QED
        BY <1>6, <2>4, <3>2 DEF Knows, Views, IInv, KnowledgeIsCurrent, ReadsAgents, ReadsSessions
  <2>7. Held'
      BY <2>1, <2>3, <2>4, <2>6, BecomesKeeps DEF MethodFits, Converging, IInv, RevisionsArePast,
         ReadsAgents, ReadsSessions
  <2> QED
      BY <1>1, <2>1, <2>3, <2>7 DEF Becomes
<1>7. CASE ReadsSessions(c)
  <2> DEFINE k == [call[c] EXCEPT !.pc = "idle", !.fresh = NoRevision, !.after = call[c].fresh,
                                  !.view = [call[c].view EXCEPT !.session = session]]
  <2>2. call' = [[call EXCEPT ![c] = Rest(c)] EXCEPT ![c].after = call[c].fresh, ![c].view.session = session]
      BY <1>1, <1>7, EndedRests DEF ReadsSessions
  <2>6. Becomes(c, k)
      BY <1>1, <2>2, <1>7 DEF Becomes, Connections, Rest, ReadsSessions, MethodFits, ReadsAgents
  <2>8. k \in Connections
      BY <1>1, IdleIsConnection DEF Connections, Views, PCs
  <2>9. /\ k.pc = "idle" /\ k.method = "watch" /\ k.after = call[c].fresh /\ k.fresh = NoRevision
        /\ k.view = [call[c].view EXCEPT !.session = session] /\ call[c].view \in Views
      BY <1>1, <1>7 DEF Connections, ReadsSessions, MethodFits
  <2> HIDE DEF k
  <2>11. AllBumped => Knows(k)
      BY <2>9, <1>1, <1>7 DEF Views, Knows, ReadsSessions, MethodFits, IInv, KnowledgeIsCurrent,
         ReadsAgents
  <2>12. Held'
      BY <2>6, <2>8, <2>9, <2>11, BecomesKeeps, NoRevisionIsPast DEF MethodFits, Converging, IInv,
         RevisionsArePast, ReadsAgents, ReadsSessions
  <2> QED
      BY <1>1, <2>6, <2>8, <2>12 DEF Becomes
<1> QED
    BY <1>5, <1>6, <1>7

(* The loop of a converge call.                                            *)
LEMMA LoopHolds ==
    ASSUME IInv, NEW c \in Calls, ReadsRow(c) \/ Decides(c) \/ Unparks(c)
    PROVE  Held' /\ call' \in [Calls -> Connections]
<1>1. /\ call \in [Calls -> Connections] /\ call[c] \in Connections /\ MethodFits(call[c])
      /\ agent \in AgentRows
    BY TypeIsConnections DEF IInv, MethodsFit
<1>2. /\ IsUp /\ UNCHANGED <<revision, agent, session, writes, unbumped, lostBump>>
      /\ call[c].pc \in {"reads row", "decides", "parked"}
    BY DEF ReadsRow, Decides, Unparks
<1>7. CASE ReadsRow(c)
  <2> DEFINE k == [call[c] EXCEPT !.pc = "decides", !.view.agent = agent]
  <2>1. Becomes(c, k)
      BY <1>1, <1>2, <1>7 DEF ReadsRow, Becomes
  <2>2. k \in Connections
      BY <1>1, ConnectionChanges DEF PCs, Converging
  <2>3. /\ k.pc = "decides" /\ k.method = call[c].method /\ k.after = call[c].after /\ k.fresh = call[c].fresh
        /\ k.view.agent = agent
      BY <1>1 DEF Connections, Views
  <2> HIDE DEF k
  <2> QED
      BY <1>1, <2>1, <2>2, <1>2, <2>3, BecomesKeeps DEF Becomes, MethodFits, Knows, Converging,
         IInv, RevisionsArePast
<1>8. CASE Decides(c) /\ HasOutcome(call[c].view.agent)
    BY <1>2, <1>8, EndHolds DEF Decides, Replies
<1>9. CASE Decides(c) /\ ~HasOutcome(call[c].view.agent)
  <2> DEFINE k == [call[c] EXCEPT !.pc = "parked", !.view = NoView]
  <2>1. Becomes(c, k) /\ call[c].pc = "decides"
      BY <1>1, <1>2, <1>9 DEF Decides, Becomes
  <2>2. k \in Connections
      BY <1>1, ConnectionChanges DEF PCs, Converging
  <2>3. k.pc = "parked" /\ k.method = call[c].method /\ k.after = call[c].after /\ k.fresh = call[c].fresh
      BY <1>1 DEF Connections
  <2> HIDE DEF k
  <2>4. MethodFits(k) /\ (AllBumped => Knows(k))
      BY <1>9, <2>1, <2>3, <1>2, <1>1 DEF MethodFits, Knows, Converging, IInv, KnowledgeIsCurrent
  <2> QED
      BY <1>1, <2>1, <2>2, <1>2, <2>3, <2>4, BecomesKeeps DEF Becomes, IInv, RevisionsArePast
<1>10. CASE Unparks(c)
  <2> DEFINE k == [call[c] EXCEPT !.pc = "rereads", !.fresh = NoRevision]
  <2>1. Becomes(c, k)
      BY <1>1, <1>2, <1>10 DEF Unparks, Becomes
  <2>2. k \in Connections
      BY <1>1, IdleIsConnection, ConnectionChanges DEF PCs, Converging
  <2>3. k.pc = "rereads" /\ k.method = call[c].method /\ k.after = call[c].after /\ k.fresh = NoRevision
      BY <1>1 DEF Connections
  <2> HIDE DEF k
  <2>4. MethodFits(k) /\ Knows(k) /\ IsPast(NoRevision)
      BY <2>3, NoRevisionIsPast, <1>1, <1>2 DEF MethodFits, Knows, Converging, IInv
  <2> QED
      BY <1>1, <2>1, <2>2, <1>2, <2>3, <2>4, BecomesKeeps DEF Becomes, IInv, RevisionsArePast
<1> QED
    BY <1>7, <1>8, <1>9, <1>10

(* Every other step of a call but a write's.                               *)
LEMMA OthersHold ==
    ASSUME IInv, NEW c \in Calls,
           \/ CommandFails(c) \/ WatchWakes(c) \/ WatchKeepsAlive(c) \/ LooksUp(c) \/ PassAnswers(c)
           \/ ReadsAfterPass(c) \/ TakesRevision(c) \/ ConvergeIsDrained(c) \/ CheckFails(c)
           \/ FirstCheckPasses(c) \/ MutationsEnded(c) \/ CommitsShutdown(c)
           \/ Disconnects(c) /\ call[c].pc # "bumps"
    PROVE  Held' /\ call' \in [Calls -> Connections]
<1>1. call \in [Calls -> Connections] /\ call[c] \in Connections /\ MethodFits(call[c])
    BY TypeIsConnections DEF IInv, MethodsFit
<1>2. IsUp /\ UNCHANGED <<revision, agent, session, writes, unbumped>> /\ call[c].pc # "bumps"
    BY DEF CommandFails, WatchWakes, WatchKeepsAlive, LooksUp, PassAnswers, ReadsAfterPass, TakesRevision,
        ConvergeIsDrained, CheckFails, Checking, FirstCheckPasses, MutationsEnded, CommitsShutdown, Disconnects,
        IsUp, Converging
<1>3. lostBump' = lostBump
  <2>1. CASE Disconnects(c)
      BY <2>1, <1>2 DEF Disconnects, IInv, ApiTypeOK
  <2> QED
      BY <2>1 DEF CommandFails, WatchWakes, WatchKeepsAlive, LooksUp, PassAnswers, ReadsAfterPass, TakesRevision,
        ConvergeIsDrained, CheckFails, FirstCheckPasses, MutationsEnded, CommitsShutdown
<1>4. CASE call' = Ended(c)
    BY <1>2, <1>3, <1>4, EndHolds
<1>5. CASE WatchWakes(c) \/ WatchKeepsAlive(c) \/ TakesRevision(c)
    BY <1>2, <1>3, <1>5, TakesHolds DEF WatchWakes, WatchKeepsAlive, TakesRevision, Converging
<1>6. ASSUME NEW pc \in {"pass", "first", "rereads", "mutations", "second check"}, Goto(c, pc),
             pc \in {"mutations", "second check"} => call[c].method = "shutdown",
             pc \in {"pass", "first", "rereads"} => call[c].method # "watch"
      PROVE  Held' /\ call' \in [Calls -> Connections]
    BY <1>1, <1>6, <1>2, <1>3, GotoHolds DEF Connections, MethodFits, Converging, PCs
<1>7. CASE Goto(c, "pass") /\ call[c].pc = "lookup"
    BY <1>1, <1>6, <1>7 DEF MethodFits, Converging
<1>8. CASE Goto(c, "first") /\ call[c].pc = "pass"
    BY <1>1, <1>6, <1>8 DEF MethodFits, Converging
<1>9. CASE Goto(c, "rereads") /\ call[c].pc = "first"
    BY <1>1, <1>6, <1>9 DEF MethodFits, Converging
<1>10. CASE Goto(c, "mutations") /\ call[c].pc = "first check"
    BY <1>1, <1>6, <1>10 DEF MethodFits
<1>11. CASE Goto(c, "second check") /\ call[c].pc = "mutations"
    BY <1>1, <1>6, <1>11 DEF MethodFits
<1> QED
    BY <1>4, <1>5, <1>7, <1>8, <1>9, <1>10, <1>11 DEF CommandFails, LooksUp, PassAnswers, ReadsAfterPass,
        ConvergeIsDrained, CheckFails, FirstCheckPasses, MutationsEnded, CommitsShutdown, Disconnects, Replies

-----------------------------------------------------------------------------
(* Writes and revisions.                                                   *)

LEMMA BumpingIsFinite == IsFiniteSet(Bumping) /\ Cardinality(Bumping) \in Nat
BY ControlApiConstants, FS_Subset, FS_CardinalityType DEF Bumping

(* A revision that is past is not the next one, and stays past.            *)
LEMMA NextRevisionIsNew ==
    ASSUME ApiTypeOK, revision' = Bumped
    PROVE  \A r \in Revisions : IsPast(r) => r # revision' /\ NotAfter(r, revision')
BY DEF ApiTypeOK, Bumped, Revisions, IsPast, NotAfter

(* The revision advances: nobody knows anything of the next one yet.       *)
LEMMA BumpHolds ==
    ASSUME IInv, NEW c \in Calls, bump(c)
    PROVE  Held' /\ call' \in [Calls -> Connections] /\ revision.sequence < writes
<1> DEFINE k == IF call[c].method = "ensure" THEN [call[c] EXCEPT !.pc = "lookup"] ELSE Rest(c)
<1>3. call' = [call EXCEPT ![c] = k]
    BY EndedRests, TypeIsConnections DEF bump, Goto, Replies, IInv, MethodsFit
<1>5. /\ k \in Connections /\ MethodFits(k) /\ k.pc \notin {"bumps", "reads sessions", "decides", "parked"}
      /\ k.after \in {call[c].after, NoRevision} /\ k.fresh \in {call[c].fresh, NoRevision}
    BY EndedRests, TypeIsConnections DEF Connections, MethodFits, Converging, PCs, IInv, MethodsFit,
       bump
<1> HIDE DEF k
<1>7. /\ Bumping' = Bumping \ {c} /\ Cardinality(Bumping') = Cardinality(Bumping) - 1
      /\ Cardinality(Bumping) \in Nat /\ Cardinality(Bumping) > 0
  <2>1. c \in Bumping /\ Bumping' = Bumping \ {c}
      BY <1>5, <1>3, TypeIsConnections DEF Bumping, IInv, MethodsFit, bump
  <2> QED
      BY <2>1, BumpingIsFinite, FS_EmptySet, FS_RemoveElement
<1>8. RevisionCountsWrites' /\ revision.sequence < writes
    BY <1>7, ControlApiConstants, TypeIsConnections DEF IInv, RevisionCountsWrites, ApiTypeOK,
       Bumped, MethodsFit, bump
<1>9. \A d \in Calls : /\ call'[d].after \in Revisions /\ IsPast(call'[d].after)
                       /\ call'[d].fresh \in Revisions /\ IsPast(call'[d].fresh)
    BY NoRevisionIsPast, <1>5, <1>3, TypeIsConnections DEF IInv, Connections, RevisionsArePast,
       MethodsFit, bump
<1> QED
    BY <1>8, <1>5, <1>9, NextRevisionIsNew, <1>3, TypeIsConnections DEF Held, MethodsFit,
       MethodFits, IInv, RevisionsArePast, KnowledgeIsCurrent, Knows, IsPast, bump

LEMMA PassBumpsHolds ==
    ASSUME IInv, PassBumps
    PROVE  Held' /\ revision.sequence < writes
<1>1. /\ call \in [Calls -> Connections] /\ ApiTypeOK /\ revision' = Bumped
      /\ UNCHANGED <<agent, session, writes, call>> /\ unbumped' = unbumped - 1 /\ unbumped > 0
    BY TypeIsConnections DEF IInv, PassBumps
<1>4. RevisionCountsWrites' /\ revision.sequence < writes
    BY <1>1, BumpingIsFinite, ControlApiConstants DEF IInv, RevisionCountsWrites, Bumping,
       ApiTypeOK, Bumped
<1> QED
    BY <1>4, <1>1, NextRevisionIsNew DEF Held, MethodsFit, MethodFits, IInv, RevisionsArePast,
       KnowledgeIsCurrent, Knows, IsPast, Connections

(* A write is committed: it has yet to advance the revision.               *)
LEMMA CommitHolds ==
    ASSUME IInv, NEW c \in Calls, Commits(c)
    PROVE  Held' /\ call' \in [Calls -> Connections]
<1>1. /\ call \in [Calls -> Connections] /\ call[c] \in Connections /\ MethodFits(call[c])
      /\ call[c].pc = "writes" /\ ApiTypeOK /\ UNCHANGED <<revision, unbumped>> /\ writes' = writes + 1
      /\ session' \in {session, session + 1} /\ call' = [call EXCEPT ![c].pc = "bumps"]
    BY TypeIsConnections DEF IInv, MethodsFit, Commits, Goto
<1> DEFINE k == [call[c] EXCEPT !.pc = "bumps"]
<1>4. k \in Connections
    BY <1>1, ConnectionChanges DEF PCs
<1>5. k.pc = "bumps" /\ k.method = call[c].method /\ k.after = call[c].after /\ k.fresh = call[c].fresh
    BY <1>1 DEF Connections
<1>6. call' = [call EXCEPT ![c] = k]
    BY <1>1
<1> HIDE DEF k
<1>8. /\ Cardinality(Bumping') = Cardinality(Bumping) + 1 /\ Cardinality(Bumping) \in Nat
  <2>1. c \notin Bumping /\ Bumping' = Bumping \cup {c}
      BY <1>1, <1>5, <1>4, <1>6 DEF Bumping
  <2> QED
      BY <2>1, BumpingIsFinite, FS_AddElement
<1>9. RevisionCountsWrites'
    BY <1>1, <1>8, ControlApiConstants DEF IInv, RevisionCountsWrites, ApiTypeOK
<1> QED
    BY <1>9, <1>5, <1>1, <1>4, <1>6 DEF Held, KnowledgeIsCurrent, AllBumped, MethodsFit, MethodFits,
       IInv, RevisionsArePast, IsPast

LEMMA PassCommitsHolds ==
    ASSUME IInv, PassCommits
    PROVE  Held'
<1>5. RevisionsArePast' /\ MethodsFit'
    BY DEF IInv, RevisionsArePast, IsPast, MethodsFit, MethodFits, PassCommits
<1> QED
    BY <1>5, BumpingIsFinite, ControlApiConstants DEF Held, KnowledgeIsCurrent, AllBumped, IInv,
       RevisionCountsWrites, Bumping, ApiTypeOK, PassCommits

(* A caller leaves between its commit and the bump.                        *)
LEMMA DisconnectHolds ==
    ASSUME IInv, NEW c \in Calls, Disconnects(c), call[c].pc = "bumps"
    PROVE  Held' /\ call' \in [Calls -> Connections]
<1>1. /\ call \in [Calls -> Connections] /\ call[c] \in Connections /\ ApiTypeOK
      /\ UNCHANGED <<revision, agent, session, writes, unbumped>> /\ lostBump'
    BY TypeIsConnections DEF IInv, Disconnects
<1>2. writes \in Nat /\ unbumped \in Nat /\ session \in Nat /\ revision.sequence \in Nat
    BY <1>1, ControlApiConstants DEF ApiTypeOK
<1> DEFINE k == Rest(c)
<1>3. /\ k \in Connections /\ k.pc = "idle" /\ k.method = "watch" /\ k.fresh = NoRevision
      /\ k.after \in {call[c].after, NoRevision} /\ call' = [call EXCEPT ![c] = k]
    BY <1>1, EndedRests DEF Disconnects, Replies
<1> HIDE DEF k
<1>6. RevisionCountsWrites'
    BY <1>1, <1>2, BumpingIsFinite, FS_Subset, FS_CardinalityType, <1>3 DEF IInv,
       RevisionCountsWrites, Bumping
<1> QED
    BY <1>6, <1>1, <1>3, NoRevisionIsPast DEF Held, KnowledgeIsCurrent, AllBumped, MethodsFit,
       MethodFits, IInv, Converging, RevisionsArePast, IsPast

(* The daemon ends, and another one starts with revisions of its own.      *)
LEMMA ExitHolds ==
    ASSUME IInv, Exits
    PROVE  Held' /\ call' \in [Calls -> Connections] /\ \A c \in Calls : call'[c].pc = "idle"
<1>1. /\ call \in [Calls -> Connections] /\ ApiTypeOK /\ UNCHANGED <<revision, agent, session, writes>>
      /\ unbumped' = 0 /\ lifecycle' = "Down"
    BY TypeIsConnections DEF IInv, Exits
<1>3. call' = [c \in Calls |-> Rest(c)]
    BY <1>1, EndedRests DEF Exits
<1>5. Bumping' = {}
    BY <1>1, <1>3, EndedRests DEF Bumping
<1>6. RevisionCountsWrites'
    BY <1>5, BumpingIsFinite, FS_EmptySet, <1>1, ControlApiConstants DEF IInv, RevisionCountsWrites,
       ApiTypeOK
<1> QED
    BY <1>3, <1>6, <1>1, NoRevisionIsPast, EndedRests DEF Held, KnowledgeIsCurrent, IsUp,
       MethodsFit, MethodFits, Converging, IInv, RevisionsArePast, IsPast

LEMMA StartHolds ==
    ASSUME IInv, Starts
    PROVE  Held'
<1>1. /\ call \in [Calls -> Connections] /\ ApiTypeOK /\ UNCHANGED <<agent, session, writes, unbumped, call>>
      /\ revision' = [epoch |-> revision.epoch + 1, sequence |-> 0]
    BY TypeIsConnections DEF IInv, Starts
<1>5. RevisionCountsWrites'
    BY <1>1, BumpingIsFinite, ControlApiConstants DEF IInv, RevisionCountsWrites, Bumping, ApiTypeOK
<1>6. \A r \in Revisions : IsPast(r) => NotAfter(r, revision') /\ r # revision'
    BY <1>1, ControlApiConstants DEF Revisions, IsPast, NotAfter, ApiTypeOK
<1> QED
    BY <1>5, <1>1, <1>6 DEF Held, IInv, RevisionsArePast, KnowledgeIsCurrent, Knows, MethodsFit,
       MethodFits, IsPast, Connections

LEMMA HeldIsKept == IInv /\ [ApiNext]_apiVars => Held' /\ call' \in [Calls -> Connections]
<1> SUFFICES ASSUME IInv, [ApiNext]_apiVars PROVE Held' /\ call' \in [Calls -> Connections]
    OBVIOUS
<1>1. call \in [Calls -> Connections] /\ Held
    BY TypeIsConnections DEF IInv, Held
<1>2. ASSUME NEW c \in Calls, CallStep(c) \/ Disconnects(c) PROVE Held' /\ call' \in [Calls -> Connections]
    BY <1>2, CommitHolds, BumpHolds, WatchReadsHold, LoopHolds, OthersHold, DisconnectHolds DEF CallStep
<1>3. CASE PassCommits \/ PassBumps \/ Starts
    BY <1>1, <1>3, PassCommitsHolds, PassBumpsHolds, StartHolds DEF PassCommits, PassBumps, Starts
<1>4. CASE UNCHANGED apiVars
  <2>2. Bumping' = Bumping /\ (AllBumped' => AllBumped)
      BY <1>4 DEF Bumping, AllBumped, apiVars
  <2> QED
      BY <1>1, <2>2, <1>4 DEF Held, KnowledgeIsCurrent, Knows, IsUp, RevisionCountsWrites,
         RevisionsArePast, IsPast, MethodsFit, apiVars
<1> QED
    BY <1>2, <1>3, <1>4, RequestHolds, ExitHolds DEF ApiNext

-----------------------------------------------------------------------------
(* Types.                                                                  *)

LEMMA TypesAreKept == IInv /\ [ApiNext]_apiVars => ApiTypeOK'
<1> SUFFICES ASSUME IInv, [ApiNext]_apiVars PROVE ApiTypeOK'
    OBVIOUS
<1>1. /\ lifecycle \in {"Running", "Checking", "Draining", "Down"}
      /\ revision \in [epoch : 1..MaxEpochs, sequence : 0..MaxWrites]
      /\ agent \in AgentRows /\ lostBump \in BOOLEAN /\ checked \in BOOLEAN
      /\ session \in Nat /\ writes \in Nat /\ writes <= MaxWrites /\ unbumped \in Nat
      /\ session <= writes /\ unbumped <= writes /\ MaxWrites \in Nat /\ MaxEpochs \in Nat
    BY BumpingIsFinite, ControlApiConstants DEF IInv, ApiTypeOK, RevisionCountsWrites
<1>3. lifecycle' \in {"Running", "Checking", "Draining", "Down"}
    BY ZenonT(60), <1>1 DEF ApiNext, apiVars, Request, CallStep, Disconnects, Commits, CommandFails, bump, WatchWakes,
        WatchKeepsAlive, ReadsAgents, ReadsSessions, LooksUp, PassAnswers, ReadsAfterPass, TakesRevision,
        ReadsRow, Decides, Unparks, ConvergeIsDrained, CheckFails, FirstCheckPasses, MutationsEnded,
        CommitsShutdown, PassCommits, PassBumps, Exits, Starts
<1>4. checked' \in BOOLEAN
    BY ZenonT(60), <1>1 DEF ApiNext, apiVars, Request, CallStep, Disconnects, Commits, CommandFails, bump, WatchWakes,
        WatchKeepsAlive, ReadsAgents, ReadsSessions, LooksUp, PassAnswers, ReadsAfterPass, TakesRevision,
        ReadsRow, Decides, Unparks, ConvergeIsDrained, CheckFails, FirstCheckPasses, MutationsEnded,
        CommitsShutdown, PassCommits, PassBumps, Exits, Starts, Replies
<1>5. lostBump' \in BOOLEAN
    BY ZenonT(60), <1>1 DEF ApiNext, apiVars, Request, CallStep, Disconnects, Commits, CommandFails, bump, WatchWakes,
        WatchKeepsAlive, ReadsAgents, ReadsSessions, LooksUp, PassAnswers, ReadsAfterPass, TakesRevision,
        ReadsRow, Decides, Unparks, ConvergeIsDrained, CheckFails, FirstCheckPasses, MutationsEnded,
        CommitsShutdown, PassCommits, PassBumps, Exits, Starts
(* What the steps make of the resources.                                   *)
<1>6. \/ UNCHANGED <<revision, agent, session, writes, unbumped>>
      \/ \E c \in Calls : Commits(c) \/ bump(c)
      \/ PassCommits \/ PassBumps \/ Exits \/ Starts
    BY ZenonT(60) DEF ApiNext, apiVars, Request, CallStep, Disconnects, CommandFails, WatchWakes,
        WatchKeepsAlive, ReadsAgents, ReadsSessions, LooksUp, PassAnswers, ReadsAfterPass, TakesRevision,
        ReadsRow, Decides, Unparks, ConvergeIsDrained, CheckFails, FirstCheckPasses, MutationsEnded,
        CommitsShutdown
<1>7. agent' \in AgentRows
    BY <1>1, <1>6 DEF Commits, bump, PassCommits, PassBumps, Exits, Starts, AgentRows
<1>8. /\ writes' \in 0..MaxWrites /\ session' \in 0..MaxWrites /\ unbumped' \in 0..MaxWrites
    BY <1>1, <1>6 DEF Commits, bump, PassCommits, PassBumps, Exits, Starts
<1>9. revision' \in [epoch : 1..MaxEpochs, sequence : 0..MaxWrites]
  <2>1. CASE UNCHANGED revision
      BY <1>1, <2>1
  <2>2. CASE PassBumps \/ \E c \in Calls : bump(c)
    <3>1. revision.sequence < writes /\ revision' = Bumped
        BY <2>2, BumpHolds, PassBumpsHolds DEF bump, PassBumps
    <3> QED
        BY <1>1, <3>1 DEF Bumped
  <2>3. CASE Starts
      BY <2>3, <1>1 DEF Starts
  <2> QED
      BY <1>6, <2>1, <2>2, <2>3 DEF Commits, PassCommits, Exits
<1> QED
    BY <1>3, <1>4, <1>5, <1>7, <1>8, <1>9, HeldIsKept DEF ApiTypeOK, Connections, Revisions, Views

-----------------------------------------------------------------------------
(* The shutdown.                                                           *)

(* What a step of a call makes of the call and of what shutdowns look at.  *)
LEMMA CallMoves ==
    ASSUME call \in [Calls -> Connections], checked \in BOOLEAN, NEW c \in Calls, CallStep(c) \/ Disconnects(c)
    PROVE  /\ Active(c) /\ IsUp /\ unbumped' = unbumped
           /\ \A d \in Calls : d # c => call'[d] = call[d]
           /\ \/ call'[c].pc = "idle"
              \/ /\ call'[c].method = call[c].method
                 /\ call'[c].pc # "first check"
                 /\ call'[c].pc = "mutations" => call[c].pc = "first check"
                 /\ call'[c].pc = "second check" => call[c].pc = "mutations" /\ Mutations = {} /\ checked'
           /\ checked => checked' \/ c \in Mutations
           /\ \/ lifecycle' = lifecycle
              \/ CheckFails(c) /\ lifecycle' = "Running"
              \/ CommitsShutdown(c) /\ lifecycle' = "Draining"
<1>1. call[c] \in Connections
    OBVIOUS
<1>2. Active(c) /\ IsUp
    BY DEF CallStep, Disconnects, Commits, CommandFails, bump, WatchWakes, WatchKeepsAlive, ReadsAgents,
        ReadsSessions, LooksUp, PassAnswers, ReadsAfterPass, TakesRevision, ReadsRow, Decides, Unparks,
        ConvergeIsDrained, CheckFails, FirstCheckPasses, MutationsEnded, CommitsShutdown, Active, Checking, IsUp,
        Converging
<1>3. unbumped' = unbumped
    BY DEF CallStep, Disconnects, Commits, CommandFails, bump, WatchWakes, WatchKeepsAlive, ReadsAgents,
        ReadsSessions, LooksUp, PassAnswers, ReadsAfterPass, TakesRevision, ReadsRow, Decides, Unparks,
        ConvergeIsDrained, CheckFails, FirstCheckPasses, MutationsEnded, CommitsShutdown
<1>4. /\ \/ lifecycle' = lifecycle
         \/ CheckFails(c) /\ lifecycle' = "Running"
         \/ CommitsShutdown(c) /\ lifecycle' = "Draining"
    BY DEF CallStep, Disconnects, Commits, CommandFails, bump, WatchWakes, WatchKeepsAlive, ReadsAgents,
        ReadsSessions, LooksUp, PassAnswers, ReadsAfterPass, TakesRevision, ReadsRow, Decides, Unparks,
        ConvergeIsDrained, CheckFails, FirstCheckPasses, MutationsEnded, CommitsShutdown
<1>5. checked => checked' \/ c \in Mutations
    BY <1>2 DEF CallStep, Disconnects, Commits, CommandFails, bump, WatchWakes, WatchKeepsAlive, ReadsAgents,
        ReadsSessions, LooksUp, PassAnswers, ReadsAfterPass, TakesRevision, ReadsRow, Decides, Unparks,
        ConvergeIsDrained, CheckFails, FirstCheckPasses, MutationsEnded, CommitsShutdown, Replies, Mutations
<1>6. CASE call' = Ended(c)
    BY <1>6, EndedRests, <1>2, <1>3, <1>4, <1>5
<1>8. CASE Commits(c) \/ (bump(c) /\ call[c].method = "ensure")
    BY <1>8, <1>2 DEF Commits, bump, Goto, Connections
<1>9. CASE WatchWakes(c) \/ WatchKeepsAlive(c) \/ TakesRevision(c)
  <2>1. \E pc \in {"reads agents", "reads row"} :
            call' = [call EXCEPT ![c] = [call[c] EXCEPT !.pc = pc, !.fresh = revision]]
      BY <1>1, <1>9 DEF WatchWakes, WatchKeepsAlive, TakesRevision
  <2> QED
      BY ZenonT(60), <1>1, <1>2, <1>3, <1>4, <1>5, <2>1 DEF Connections
<1>10. CASE ReadsAgents(c) \/ ReadsRow(c)
  <2>1. \/ call' = Ended(c)
        \/ \E pc \in {"reads sessions", "decides"} :
               call' = [call EXCEPT ![c] = [call[c] EXCEPT !.pc = pc, !.view = [call[c].view EXCEPT !.agent = agent]]]
      BY <1>1, <1>10 DEF ReadsAgents, ReadsRow, Connections
  <2> QED
      BY <1>1, <1>2, <1>3, <1>4, <1>5, <1>6, <2>1 DEF Connections
<1>11. CASE ReadsSessions(c)
    BY <1>11, EndedRests, <1>2 DEF ReadsSessions, Connections
<1>12. CASE Decides(c) /\ ~HasOutcome(call[c].view.agent)
    BY <1>12, <1>2 DEF Decides, Connections
<1>13. CASE Unparks(c)
    BY <1>13, <1>2 DEF Unparks
<1>14. ASSUME NEW pc \in {"pass", "first", "rereads"}, Goto(c, pc)
       PROVE  /\ \A d \in Calls : d # c => call'[d] = call[d]
              /\ call'[c].method = call[c].method /\ call'[c].pc = pc
    BY <1>1, <1>14 DEF Goto, Connections
<1>15. CASE FirstCheckPasses(c) \/ MutationsEnded(c)
    BY <1>15, <1>2 DEF FirstCheckPasses, MutationsEnded, Goto, Connections
<1>16. CASE \E pc \in {"pass", "first", "rereads"} : Goto(c, pc)
    BY <1>2, <1>3, <1>4, <1>5, <1>14, <1>16
<1>17. CASE bump(c)
    BY <1>6, <1>8, <1>17 DEF bump, Replies
<1>18. CASE Decides(c)
    BY <1>6, <1>12, <1>18 DEF Decides, Replies
<1>19. CASE \/ CommandFails(c) \/ LooksUp(c) \/ PassAnswers(c) \/ ReadsAfterPass(c) \/ ConvergeIsDrained(c)
            \/ CheckFails(c) \/ CommitsShutdown(c) \/ Disconnects(c)
    BY <1>19, <1>6, <1>16 DEF CommandFails, LooksUp, PassAnswers, ReadsAfterPass, ConvergeIsDrained,
       CheckFails, CommitsShutdown, Disconnects, Replies
<1> QED
    BY <1>8, <1>9, <1>10, <1>11, <1>13, <1>15, <1>17, <1>18, <1>19 DEF CallStep

LEMMA CheckIsAloneKept == IInv /\ [ApiNext]_apiVars => CheckIsAlone'
<1> SUFFICES ASSUME IInv, [ApiNext]_apiVars PROVE CheckIsAlone'
    OBVIOUS
<1>1. CheckIsAlone /\ MethodsFit /\ call \in [Calls -> Connections] /\ checked \in BOOLEAN
    BY TypeIsConnections DEF IInv
<1>2. ASSUME NEW c \in Calls, CallStep(c) \/ Disconnects(c) PROVE CheckIsAlone'
  <2>2. Mutations' \subseteq Mutations /\ Checking' \subseteq Checking
      BY <1>1, <1>2, CallMoves DEF Mutations, Checking, Active
  <2>6. CASE lifecycle' = lifecycle
      BY <2>6, <1>1, <2>2, <1>2, CallMoves DEF IsUp, CheckIsAlone, DrainingFindsNoMutation
  <2>7. CASE lifecycle' # lifecycle
    <3>1. c \in Checking /\ call' = Ended(c) /\ lifecycle' \in {"Running", "Draining"}
        BY <2>7, <1>1, <1>2, CallMoves DEF CheckFails, CommitsShutdown, Checking
    <3>2. Checking' = {}
      <4>1. call'[c].pc = "idle"
          BY <1>1, <3>1, EndedRests
      <4> QED
          BY <1>1, <2>2, <3>1, <4>1 DEF CheckIsAlone, Checking
    <3> QED
        BY <3>1, <3>2, <1>1, <2>7, <2>2, <1>2, CallMoves DEF CheckIsAlone, DrainingFindsNoMutation,
           IsUp, CheckFails, CommitsShutdown
  <2> QED
      BY <2>6, <2>7
<1>3. ASSUME NEW c \in Calls, NEW m \in Methods, Request(c, m) PROVE CheckIsAlone'
  <2>1. /\ lifecycle \in {"Running", "Checking"} /\ ~Active(c)
        /\ is_mutating(m) \/ m = "shutdown" => lifecycle = "Running"
        /\ lifecycle' = (IF m = "shutdown" THEN "Checking" ELSE lifecycle)
        /\ checked' = (checked \/ m = "shutdown") /\ unbumped' = unbumped
      BY <1>3 DEF Request
  <2>2. /\ \A d \in Calls : d # c => call'[d] = call[d]
        /\ call'[c].pc \notin {"mutations", "second check"}
        /\ call'[c].pc = "first check" <=> m = "shutdown"
        /\ call'[c].method = m \/ m = "watch"
      BY <1>1, <1>3 DEF Request, Connections, Idle, FirstStep, Methods
  <2>5. ~is_mutating(m) => Mutations' = Mutations
      BY <1>1, <1>3, <2>2 DEF Mutations, Request, MethodsFit, MethodFits, Active, Connections
  <2>6. \A d \in Calls : call'[d].pc = "second check" => Mutations' = {} /\ checked'
      BY <2>2, <1>1, <2>1, <2>5 DEF Checking, CheckIsAlone
  <2> QED
      BY <2>6, <1>1, <2>1, <2>2 DEF CheckIsAlone, DrainingFindsNoMutation, IsUp, Checking, Active
<1>4. CASE PassCommits \/ PassBumps \/ UNCHANGED apiVars
    BY <1>4, <1>1 DEF PassCommits, PassBumps, apiVars, CheckIsAlone, Checking, Mutations, Active,
       DrainingFindsNoMutation, IsUp
<1>5. CASE Exits
    BY <1>5, ExitHolds, <1>1 DEF Checking, Mutations, Active, Exits, CheckIsAlone,
       DrainingFindsNoMutation
<1>6. CASE Starts
    BY <1>6, <1>1 DEF Starts, IsUp, CheckIsAlone, Checking, DrainingFindsNoMutation
<1> QED
    BY <1>2, <1>3, <1>4, <1>5, <1>6 DEF ApiNext

-----------------------------------------------------------------------------
(* The theorem.                                                            *)

LEMMA InitIInv == ApiInit => IInv
<1> SUFFICES ASSUME ApiInit PROVE IInv
    OBVIOUS
<1>2. Idle.pc = "idle" /\ Idle.method = "watch" /\ Idle.after = NoRevision /\ Idle.fresh = NoRevision
    BY DEF Idle
<1>3. ApiTypeOK
  <2>2. 1 \in 1..MaxEpochs /\ 0 \in 0..MaxWrites
      BY ControlApiConstants
  <2>3. revision \in [epoch : 1..MaxEpochs, sequence : 0..MaxWrites]
      BY <2>2 DEF ApiInit
  <2> QED
      BY <2>2, <2>3, TypeIsConnections, IdleIsConnection DEF ApiInit, AgentRows
<1>4. RevisionCountsWrites
    BY <1>2, FS_EmptySet DEF Bumping, RevisionCountsWrites, ApiInit
<1>5. RevisionsArePast /\ MethodsFit
    BY <1>2, <1>3, NoRevisionIsPast DEF RevisionsArePast, MethodsFit, MethodFits, Converging,
       ApiInit
<1> QED
    BY <1>3, <1>4, <1>5, <1>2, NoRevisionIsPast DEF IInv, Checking, CheckIsAlone,
       DrainingFindsNoMutation, ApiInit, Active, KnowledgeIsCurrent, Knows

LEMMA Invariance == ApiSpec => []IInv
<1>1. IInv /\ [ApiNext]_apiVars => IInv'
    BY HeldIsKept, TypesAreKept, CheckIsAloneKept DEF IInv, Held
<1> QED
    BY <1>1, InitIInv, PTL DEF ApiSpec

(* Whoever writes, leaves or restarts the daemon between two steps of a    *)
(* call (control_api/server.rs, control_plane/convergence.rs): a watcher   *)
(* at the current revision has the current resources, no converge call     *)
(* sleeps at a revision at which its agent has an outcome, and a daemon    *)
(* that drains has no mutation under way and none its check missed.        *)
THEOREM EveryWaitIsAnswered == ApiSpec => []WaitsAreAnswered
<1>1. IInv => WaitsAreAnswered
  <2> SUFFICES ASSUME IInv PROVE WaitsAreAnswered
    OBVIOUS
  <2>1. WatcherIsUpToDate
    BY DEF IInv, WatcherIsUpToDate, KnowledgeIsCurrent, Knows
  <2>2. NobodyWaitsForTheLastChange
    BY DEF IInv, NobodyWaitsForTheLastChange, KnowledgeIsCurrent, Knows, CheckIsAlone, Active
  <2> QED
    BY <2>1, <2>2 DEF IInv, WaitsAreAnswered, CheckIsAlone
<1> QED
    BY <1>1, Invariance, PTL

-----------------------------------------------------------------------------
(* The activity queue: where an order's reply and its line are, in memory  *)
(* and in every state that the disk has or will have once the writes under *)
(* way have ended.                                                         *)

QueueWriters == Orders \cup {"watcher"}
Events == Orders \X Nat
ResultLines == [event : Events, kind : ResultKinds]
QueueWrites == [of : QueueWriters, file : {"pending", "offset"}, agent : Lines,
                replies : SUBSET QueueEvents, offset : Nat]
AtLine == {"posts", "delegates", "remaps", "remapped", "notices", "drops", "waits", "debriefs"}
WatcherPCs == AtLine \cup {"rests", "reads", "saves"}

\* Every variable has a value of its kind.
QueueIsTyped ==
    /\ submit \in [Orders -> SubmitPCs]
    /\ unread \subseteq GithubOrders /\ batch \subseteq GithubOrders /\ handled \subseteq GithubOrders
    /\ working \subseteq Orders /\ repeats \subseteq Orders /\ unreached \subseteq Orders
    /\ inbox \in [Lines -> Seq(Events)]
    /\ taken \in [Lines -> Nat]
    /\ results \in [Lines -> Seq(ResultLines)]
    /\ replies \subseteq QueueEvents /\ repliesOnDisk \subseteq QueueEvents
    /\ offsets \in [Lines -> Nat] /\ offsetsOnDisk \in [Lines -> Nat]
    /\ writing \in Seq(QueueWrites)
    /\ watcher \in [pc : WatcherPCs, of : Lines, next : Nat \ {0}, upto : Nat]
    /\ posted \in [Orders -> 0..2] /\ counted \in [Orders -> 0..2]
    /\ up \in BOOLEAN /\ broken \in BOOLEAN

\* An agent's results answer the lines of its inbox, in their order, and what is stored of the
\* offset is the offset.
ResultsAnswerLines ==
    \A a \in Lines :
        /\ Len(inbox[a]) <= MaxQueued
        /\ taken[a] = Len(results[a]) /\ taken[a] <= Len(inbox[a])
        /\ \A i \in 1..Len(results[a]) : results[a][i].event = inbox[a][i]
        /\ offsets[a] <= Len(results[a])
        /\ offsetsOnDisk[a] = offsets[a] \/ (offsetsOnDisk[a] = NoOffset /\ offsets[a] = 0)
        /\ \A i \in 1..Len(inbox[a]) : counted[inbox[a][i][1]] > 0

\* How far the watcher is through each agent's results: a line whose reply was moved is behind it.
ReadTo(a) ==
    IF watcher.pc = "rests" \/ a # watcher.of THEN offsets[a]
    ELSE IF watcher.pc \in {"remapped", "notices"} THEN watcher.next
    ELSE watcher.next - 1

\* A line with this event is ahead of the watcher.
Ahead(e) == \E a \in Lines : \E i \in 1..Len(inbox[a]) : ReadTo(a) < i /\ inbox[a][i] = e

\* The watcher is at a result that is there, and moves a reply only along its line.
WatcherIsAtALine ==
    /\ watcher.pc # "rests" =>
        /\ offsets[watcher.of] < watcher.next /\ watcher.next <= watcher.upto + 1
        /\ watcher.upto <= Len(results[watcher.of])
    /\ watcher.pc \in AtLine => watcher.next <= watcher.upto
    /\ watcher.pc = "saves" => watcher.next = watcher.upto + 1
    /\ watcher.pc \in {"delegates", "remaps"} => MayDelegate(Line.event)
    /\ watcher.pc \in {"drops", "waits", "debriefs"} => posted[OrderOf] > 0
    /\ watcher.pc = "remaps" => Ahead(Delegated)

\* The writes under way: at most one of each actor, which waits for it.
WritesAreAwaited ==
    /\ \A i, j \in 1..Len(writing) : writing[i].of = writing[j].of => i = j
    /\ \A i \in 1..Len(writing) :
        /\ writing[i].of \in Orders => submit[writing[i].of] \in {"forgets", "persists"} /\ writing[i].file = "pending"
        /\ writing[i].of = "watcher" /\ writing[i].file = "pending" => watcher.pc \in {"waits", "remapped"}
        /\ writing[i].of = "watcher" /\ writing[i].file = "offset" =>
              watcher.pc = "saves" /\ writing[i].agent = watcher.of /\ writing[i].offset = watcher.upto

\* The replies that are on disk once the first i writes have ended.
Kept(i) == IF i = 0 THEN repliesOnDisk ELSE writing[i].replies
Stages == {i \in 0..Len(writing) : i = 0 \/ writing[i].file = "pending"}
WatcherWritesAfter(i) == \E j \in 1..Len(writing) : i < j /\ writing[j].of = "watcher"

\* How an order's handling relates to its line, its answer and its notification.
OrderIsRight(o) ==
    /\ counted[o] = 0 => posted[o] = 0
    /\ o \notin repeats => counted[o] < 2 /\ posted[o] < 2
    /\ submit[o] = "remembers" => counted[o] > 0 /\ (o \notin repeats => posted[o] = 0)
    /\ submit[o] \in {"forgets", "remembers", "persists", "marks"} => up \/ o \in repeats
    /\ submit[o] \in {"remembers", "persists"} => up \/ o \in unreached
    /\ submit[o] \in {"routes", "acks", "appends", "remembers"} => o \in working \cup unreached \cup repeats
    /\ submit[o] \in {"unseen", "reacts", "routes", "acks", "appends"} /\ counted[o] > 0 /\ o \notin repeats =>
        /\ submit[o] = "unseen" /\ o \in GithubOrders
        /\ IF up THEN o \in handled \/ o \notin unread \cup batch ELSE o \notin unread
    /\ submit[o] = "ended" /\ o \in GithubOrders => counted[o] = 0
    /\ submit[o] = "marks" => o \in GithubOrders
OrdersAreRight == \A o \in Orders : OrderIsRight(o)

\* What holds of the pending replies in memory, and of every state of them that is or will be on disk.
IsAReply(e) ==
    /\ counted[e[1]] > 0
    /\ e[1] \in working \cup unreached \cup repeats \/ posted[e[1]] > 0
    /\ e[1] \notin repeats => submit[e[1]] # "remembers"
AreReplies(rs) ==
    /\ \A e \in rs : IsAReply(e)
    /\ \A e, f \in rs : e[1] = f[1] /\ e[1] \notin repeats => e = f
RepliesAreRight == AreReplies(replies) /\ \A i \in 0..Len(writing) : AreReplies(Kept(i))

\* The watcher acts on a reply that is pending, and an answered order has none but the one that it drops.
AnsweredHasNoReply ==
    /\ watcher.pc \in {"posts", "delegates", "remaps", "drops"} /\ OrderOf \notin repeats => Line.event \in replies
    /\ \A e \in replies : e[1] \notin repeats /\ posted[e[1]] > 0 => watcher.pc = "drops" /\ OrderOf = e[1]
    /\ \A i \in 0..Len(writing) : \A e \in Kept(i) : e[1] \notin repeats /\ posted[e[1]] > 0 =>
          /\ up /\ OrderOf = e[1]
          /\ watcher.pc = "drops" \/ (watcher.pc = "waits" /\ WatcherWritesAfter(i))

\* An order whose answer is still to come.
Due(o) == counted[o] > 0 /\ posted[o] = 0 /\ o \notin unreached

InMemory(o) ==
    \/ \E e \in replies : e[1] = o /\ Ahead(e)
    \/ submit[o] = "remembers" /\ Ahead(Event(o, 0))

\* The order's own write is among the first i, or it waits for none.
IsWrittenBy(o, i) ==
    /\ submit[o] # "remembers"
    /\ submit[o] = "persists" => \E j \in 1..Len(writing) : j <= i /\ writing[j].of = o
\* The reply was moved in memory, and is still to be moved on disk.
IsMoving(o, i) == watcher.pc = "remapped" /\ OrderOf = o /\ Line.event \in Kept(i) /\ WatcherWritesAfter(i)
OnDisk(o, i) == (\E e \in Kept(i) \cap replies : e[1] = o /\ Ahead(e)) \/ IsMoving(o, i)

\* An order whose answer is to come has a reply, in memory and in each state of the disk, that a line
\* ahead of the watcher answers.
DueIsAhead ==
    \A o \in Orders : Due(o) => InMemory(o) /\ \A i \in Stages : IsWrittenBy(o, i) => OnDisk(o, i)

QueueInv ==
    /\ QueueIsTyped /\ ResultsAnswerLines /\ WatcherIsAtALine /\ WritesAreAwaited
    /\ OrdersAreRight /\ RepliesAreRight /\ AnsweredHasNoReply /\ DueIsAhead

-----------------------------------------------------------------------------
(* The queue's lines: what its functions and sequences are.                *)

LEMMA QueueParts ==
    ASSUME QueueInv
    PROVE  /\ QueueIsTyped /\ ResultsAnswerLines /\ WatcherIsAtALine /\ WritesAreAwaited
           /\ OrdersAreRight /\ RepliesAreRight /\ AnsweredHasNoReply /\ DueIsAhead
BY DEF QueueInv

LEMMA LinesAreTwo ==
    /\ Lines = 1..2 /\ Primary \in Lines /\ Len(QueueAgents) = 2
    /\ MaxHops \in Nat /\ MaxQueued \in Nat /\ NoOffset = MaxQueued + 1
    /\ "watcher" \notin Orders /\ SlackOrders \cap GithubOrders = {}
    /\ \A o \in Orders : o \in SlackOrders \/ o \in GithubOrders
    /\ SlackOrders \subseteq Orders /\ GithubOrders \subseteq Orders
BY QueueConstants DEF Lines, Primary, NoOffset, Orders

(* An agent's lines and results, of whatever length.                       *)
LEMMA LinesOf ==
    ASSUME QueueIsTyped, NEW a \in Lines
    PROVE  /\ inbox[a] \in Seq(Events) /\ results[a] \in Seq(ResultLines)
           /\ Len(inbox[a]) \in Nat /\ Len(results[a]) \in Nat
           /\ \A i \in 1..Len(inbox[a]) : inbox[a][i] \in Events
           /\ \A i \in 1..Len(results[a]) : results[a][i] \in ResultLines
           /\ taken[a] \in Nat /\ offsets[a] \in Nat /\ offsetsOnDisk[a] \in Nat
BY DEF QueueIsTyped

(* The result the watcher is at answers a line of its agent's inbox.       *)
LEMMA LineIsThere ==
    ASSUME QueueIsTyped, ResultsAnswerLines, WatcherIsAtALine, watcher.pc # "rests", watcher.next <= watcher.upto
    PROVE  /\ watcher.of \in Lines /\ watcher.next \in 1..Len(results[watcher.of])
           /\ watcher.next \in 1..Len(inbox[watcher.of]) /\ offsets[watcher.of] < watcher.next
           /\ Line \in ResultLines /\ Line.event \in Events /\ OrderOf \in Orders /\ Line.event[2] \in Nat
           /\ Line.event = Event(OrderOf, Line.event[2])
           /\ inbox[watcher.of][watcher.next] = Line.event
           /\ counted[OrderOf] > 0
           /\ Target \in Lines /\ Target # watcher.of
<1>1. watcher.of \in Lines /\ watcher.next \in Nat /\ watcher.upto \in Nat /\ watcher.next > 0
    BY DEF QueueIsTyped
<1>2. /\ Len(results[watcher.of]) \in Nat /\ Len(inbox[watcher.of]) \in Nat
      /\ \A i \in 1..Len(results[watcher.of]) : results[watcher.of][i] \in ResultLines
      /\ taken[watcher.of] \in Nat /\ offsets[watcher.of] \in Nat
    BY <1>1, LinesOf
<1>4. watcher.next <= watcher.upto /\ watcher.upto <= Len(results[watcher.of]) /\ offsets[watcher.of] < watcher.next
    BY DEF WatcherIsAtALine
<1>5. /\ Len(results[watcher.of]) <= Len(inbox[watcher.of])
      /\ \A i \in 1..Len(results[watcher.of]) : results[watcher.of][i].event = inbox[watcher.of][i]
      /\ \A i \in 1..Len(inbox[watcher.of]) : counted[inbox[watcher.of][i][1]] > 0
    BY <1>1 DEF ResultsAnswerLines
<1>7. Line \in ResultLines
    BY <1>2, <1>1, <1>4, <1>5 DEF Line
<1>10. inbox[watcher.of][watcher.next] = Line.event
    BY <1>5, <1>1, <1>2, <1>4 DEF Line
<1> QED
    BY <1>1, <1>4, <1>7, <1>10, LinesAreTwo, <1>5, <1>2 DEF Target, Primary, OrderOf, Events, Event,
       ResultLines

LEMMA LineIs ==
    ASSUME QueueIsTyped, ResultsAnswerLines, WatcherIsAtALine, watcher.pc \in AtLine
    PROVE  /\ watcher.of \in Lines /\ watcher.next \in 1..Len(results[watcher.of])
           /\ watcher.next \in 1..Len(inbox[watcher.of]) /\ offsets[watcher.of] < watcher.next
           /\ Line \in ResultLines /\ Line.event \in Events /\ OrderOf \in Orders /\ Line.event[2] \in Nat
           /\ Line.event = Event(OrderOf, Line.event[2])
           /\ inbox[watcher.of][watcher.next] = Line.event
           /\ counted[OrderOf] > 0
           /\ Target \in Lines /\ Target # watcher.of
BY LineIsThere DEF AtLine, WatcherIsAtALine

(* Results that were there stay, whatever is answered.                     *)
ResultsGrow ==
    \A a \in Lines : /\ Len(results[a]) <= Len(results'[a])
                     /\ \A i \in 1..Len(results[a]) : results'[a][i] = results[a][i]
LinesGrow ==
    \A a \in Lines : /\ Len(inbox[a]) <= Len(inbox'[a])
                     /\ \A i \in 1..Len(inbox[a]) : inbox'[a][i] = inbox[a][i]

LEMMA WatchedLineStays ==
    ASSUME QueueIsTyped, ResultsAnswerLines, WatcherIsAtALine, watcher.pc \in AtLine, ResultsGrow,
           watcher'.of = watcher.of, watcher'.next = watcher.next
    PROVE  Line' = Line /\ OrderOf' = OrderOf
BY LineIs DEF ResultsGrow, Line, OrderOf

(* The watcher is between the offset and the end of the results.           *)
LEMMA ReadToIs ==
    ASSUME QueueIsTyped, ResultsAnswerLines, WatcherIsAtALine, NEW a \in Lines
    PROVE  ReadTo(a) \in Nat /\ offsets[a] <= ReadTo(a) /\ ReadTo(a) <= Len(results[a])
<1>3. CASE watcher.pc = "rests" \/ a # watcher.of
    BY <1>3, LinesOf DEF ReadTo, ResultsAnswerLines
<1>4. CASE watcher.pc # "rests" /\ a = watcher.of
    BY <1>4, LinesOf DEF WatcherIsAtALine, AtLine, ReadTo, QueueIsTyped, ResultsAnswerLines
<1> QED
    BY <1>3, <1>4

LEMMA AheadStays ==
    ASSUME LinesGrow, NEW e, Ahead(e),
           \A a \in Lines : \A i \in 1..Len(inbox[a]) : ReadTo(a) < i /\ inbox[a][i] = e => ReadTo(a)' < i,
           \A a \in Lines : Len(inbox[a]) \in Nat /\ Len(inbox[a])' \in Nat
    PROVE  Ahead(e)'
BY DEF Ahead, LinesGrow

LEMMA ReadToRests ==
    ASSUME watcher' = watcher, offsets' = offsets
    PROVE  \A a : ReadTo(a)' = ReadTo(a)
BY DEF ReadTo

(* What one line more does to an inbox.                                    *)
LEMMA PutsGrows ==
    ASSUME QueueIsTyped, NEW a \in Lines, NEW e \in Events, Puts(a, e)
    PROVE  /\ inbox' \in [Lines -> Seq(Events)]
           /\ LinesGrow
           /\ Len(inbox'[a]) = Len(inbox[a]) + 1 /\ inbox'[a][Len(inbox[a]) + 1] = e
           /\ \A b \in Lines : b # a => inbox'[b] = inbox[b]
           /\ \A b \in Lines : Len(inbox[b])' \in Nat
<1>1. inbox \in [Lines -> Seq(Events)] /\ inbox[a] \in Seq(Events)
    BY DEF QueueIsTyped
<1>2. PICK q : q = inbox[a]
    OBVIOUS
<1>6. \A b \in Lines : Len(inbox[b]) \in Nat
    BY LinesOf
<1>8. ASSUME NEW b \in Lines
      PROVE  Len(inbox[b]) <= Len(inbox'[b]) /\ \A i \in 1..Len(inbox[b]) : inbox'[b][i] = inbox[b][i]
    BY <1>2, <1>6, <1>1, AppendProperties DEF Puts
<1> QED
    BY <1>2, <1>8, <1>1, AppendProperties DEF LinesGrow, Puts

(* The lines go on being answered in their order.                          *)
LEMMA InboxGrows ==
    ASSUME QueueIsTyped, ResultsAnswerLines, NEW a \in Lines, NEW e \in Events, Puts(a, e), Len(inbox[a]) < MaxQueued,
           UNCHANGED <<taken, results, offsets, offsetsOnDisk>>, counted'[e[1]] > 0,
           \A o \in Orders : counted[o] > 0 => counted'[o] > 0
    PROVE  ResultsAnswerLines'
<1>1. /\ LinesGrow /\ Len(inbox'[a]) = Len(inbox[a]) + 1 /\ inbox'[a][Len(inbox[a]) + 1] = e
      /\ \A b \in Lines : b # a => inbox'[b] = inbox[b]
    BY PutsGrows
<1>2. SUFFICES ASSUME NEW b \in Lines
               PROVE  /\ Len(inbox'[b]) <= MaxQueued
                      /\ taken'[b] = Len(results'[b]) /\ taken'[b] <= Len(inbox'[b])
                      /\ \A i \in 1..Len(results'[b]) : results'[b][i].event = inbox'[b][i]
                      /\ offsets'[b] <= Len(results'[b])
                      /\ offsetsOnDisk'[b] = offsets'[b] \/ (offsetsOnDisk'[b] = NoOffset /\ offsets'[b] = 0)
                      /\ \A i \in 1..Len(inbox'[b]) : counted'[inbox'[b][i][1]] > 0
    BY DEF ResultsAnswerLines, NoOffset
<1>4. /\ Len(inbox[b]) \in Nat /\ Len(results[b]) \in Nat /\ MaxQueued \in Nat
      /\ \A i \in 1..Len(inbox[b]) : inbox[b][i] \in Events
    BY LinesOf, LinesAreTwo
<1>7. CASE b # a
    BY <1>1, <1>7, <1>4 DEF Events, ResultsAnswerLines
<1>8. CASE b = a
  <2>1. \A i \in 1..Len(inbox'[b]) : i \in 1..Len(inbox[b]) \/ inbox'[b][i] = e
      BY <1>1, <1>4, <1>8
  <2>2. \A i \in 1..Len(inbox'[b]) : counted'[inbox'[b][i][1]] > 0
      BY <2>1, <1>4, <1>1 DEF Events, LinesGrow, ResultsAnswerLines
  <2> QED
      BY <1>1, <1>4, <1>8, <2>2 DEF LinesGrow, ResultsAnswerLines
<1> QED
    BY <1>7, <1>8

-----------------------------------------------------------------------------
(* The chain of writes grows at its end; what is on disk does not change   *)
(* before the first of them ends.                                          *)

WritesGoOn ==
    /\ repliesOnDisk' = repliesOnDisk
    /\ \/ writing' = writing
       \/ \E w \in QueueWrites :
            /\ writing' = Append(writing, w)
            /\ IF w.file = "pending" THEN w.replies = replies' ELSE w.replies = {}

LEMMA WritesAre ==
    ASSUME QueueIsTyped
    PROVE  /\ writing \in Seq(QueueWrites) /\ Len(writing) \in Nat
           /\ \A i \in 1..Len(writing) : writing[i] \in QueueWrites
           /\ \A i \in 0..Len(writing) : Kept(i) \subseteq QueueEvents
<1>1. writing \in Seq(QueueWrites) /\ repliesOnDisk \subseteq QueueEvents
    BY DEF QueueIsTyped
<1>2. Len(writing) \in Nat /\ \A i \in 1..Len(writing) : writing[i] \in QueueWrites
    BY <1>1
<1> QED
    BY <1>1, <1>2 DEF Kept, QueueWrites

LEMMA EventsAre ==
    /\ \A e \in QueueEvents : e \in Events /\ e[1] \in Orders /\ e[2] \in 0..MaxHops /\ e = Event(e[1], e[2])
    /\ \A o \in Orders : \A n \in 0..MaxHops : Event(o, n) \in QueueEvents
    /\ \A e \in Events : e[1] \in Orders /\ e[2] \in Nat /\ e = Event(e[1], e[2])
    /\ \A o, n : Event(o, n)[1] = o /\ Event(o, n)[2] = n
    /\ \A o \in Orders : \A n \in Nat : Event(o, n) \in Events
BY LinesAreTwo DEF QueueEvents, Events, Event

(* The stages of the disk that were there stay; the new one has the        *)
(* replies of now.                                                         *)
LEMMA StagesGoOn ==
    ASSUME QueueIsTyped, WritesGoOn
    PROVE  /\ Len(writing') \in Nat /\ Len(writing) <= Len(writing')
           /\ \A i \in 0..Len(writing') :
                \/ /\ i \in 0..Len(writing) /\ Kept(i)' = Kept(i)
                   /\ i \in Stages' => i \in Stages
                   /\ WatcherWritesAfter(i) => WatcherWritesAfter(i)'
                   /\ \A o : (\E j \in 1..Len(writing') : j <= i /\ writing'[j].of = o) =>
                             \E j \in 1..Len(writing) : j <= i /\ writing[j].of = o
                \/ /\ i = Len(writing) + 1 /\ Len(writing') = Len(writing) + 1
                   /\ Kept(i)' \subseteq replies' /\ (i \in Stages' => Kept(i)' = replies')
BY DEF WritesGoOn, Kept, Stages, WatcherWritesAfter

(* What is kept of the replies stays right while their orders go on.       *)
LEMMA RepliesGoOn ==
    ASSUME QueueIsTyped, RepliesAreRight, WritesGoOn, repeats \subseteq repeats',
           \A e \in QueueEvents : IsAReply(e) => IsAReply(e)',
           \A e \in replies' : e \in replies \/ (IsAReply(e)' /\
                (e[1] \notin repeats' => \A f \in replies' : f[1] = e[1] => f = e))
    PROVE  RepliesAreRight'
<1>1. replies \subseteq QueueEvents
    BY DEF QueueIsTyped
<1>4. ASSUME NEW e \in replies', NEW f \in replies', e[1] = f[1], e[1] \notin repeats' PROVE e = f
    BY <1>4 DEF RepliesAreRight, AreReplies
<1>6. ASSUME NEW i \in 0..Len(writing') PROVE AreReplies(Kept(i))'
    BY WritesAre, <1>6, StagesGoOn, <1>1 DEF RepliesAreRight, AreReplies
<1> QED
    BY <1>6, <1>4, <1>1 DEF RepliesAreRight, AreReplies

(* An order the step has nothing to do with.                               *)
OrderRests(o) ==
    /\ submit'[o] = submit[o] /\ counted'[o] = counted[o] /\ posted'[o] = posted[o]
    /\ o \in working \cup unreached \cup repeats => o \in working' \cup unreached' \cup repeats'
    /\ o \in repeats => o \in repeats'

LEMMA OrderGoesOn ==
    ASSUME NEW o \in Orders, OrderIsRight(o), OrderRests(o), up' = up, o \in unreached => o \in unreached',
           o \in handled => o \in handled', o \in unread' => o \in unread, o \in batch' => o \in batch \cup unread
    PROVE  OrderIsRight(o)'
BY DEF OrderRests, OrderIsRight

LEMMA ReplyGoesOn ==
    ASSUME NEW e, IsAReply(e), OrderRests(e[1])
    PROVE  IsAReply(e)'
BY DEF IsAReply, OrderRests

(* Between two steps of the watcher nothing is answered, and no reply comes *)
(* but of an order that was not answered.                                  *)
LEMMA AnsweredGoesOn ==
    ASSUME QueueIsTyped, WritesGoOn, AnsweredHasNoReply, repeats \subseteq repeats',
           \A e \in QueueEvents : posted'[e[1]] > 0 /\ e[1] \notin repeats' => posted[e[1]] > 0,
           \A e \in replies' : e \in replies \/ e[1] \in repeats' \/ ~(posted'[e[1]] > 0),
           replies' \subseteq QueueEvents,
           watcher.pc \in {"drops", "waits"} => up' = up /\ watcher' = watcher /\ OrderOf' = OrderOf,
           watcher'.pc \in {"posts", "delegates", "remaps", "drops"} /\ OrderOf' \notin repeats' => Line.event' \in replies',
           writing' = writing \/ (up' /\ up)
    PROVE  AnsweredHasNoReply'
<1>2. ASSUME NEW e \in replies', e[1] \notin repeats', posted'[e[1]] > 0
      PROVE  watcher'.pc = "drops" /\ OrderOf' = e[1] /\ watcher.pc = "drops"
    BY <1>2 DEF AnsweredHasNoReply
<1>3. ASSUME NEW i \in 0..Len(writing'), NEW e \in Kept(i)', e[1] \notin repeats', posted'[e[1]] > 0
      PROVE  /\ up' /\ OrderOf' = e[1]
             /\ watcher'.pc = "drops" \/ (watcher'.pc = "waits" /\ WatcherWritesAfter(i)')
    BY <1>3, WritesAre, StagesGoOn DEF AnsweredHasNoReply
<1> QED
    BY <1>2, <1>3 DEF AnsweredHasNoReply

(* An order whose answer is to come keeps its reply and the line ahead.    *)
LEMMA DueGoesOn ==
    ASSUME QueueIsTyped, WritesGoOn, DueIsAhead, NEW o \in Orders, Due(o)', Due(o),
           \A e \in replies : e[1] = o => e \in replies',
           \A e : e[1] = o /\ Ahead(e) /\ (e \in replies \/ (submit[o] = "remembers" /\ e = Event(o, 0))) => Ahead(e)',
           submit'[o] = submit[o] \/ (submit[o] \notin {"remembers", "persists"} /\ submit'[o] \notin {"remembers", "persists"}),
           watcher.pc = "remapped" => watcher'.pc = "remapped" /\ Line' = Line /\ OrderOf' = OrderOf
    PROVE  InMemory(o)' /\ \A i \in Stages' : IsWrittenBy(o, i)' => OnDisk(o, i)'
<1>1. InMemory(o) /\ \A i \in Stages : IsWrittenBy(o, i) => OnDisk(o, i)
    BY DEF DueIsAhead
<1>3. ASSUME NEW i \in Stages', IsWrittenBy(o, i)' PROVE OnDisk(o, i)'
    BY <1>3, <1>1, StagesGoOn DEF Stages, IsWrittenBy, OnDisk, IsMoving, InMemory
<1> QED
    BY <1>3, EventsAre, <1>1 DEF InMemory

-----------------------------------------------------------------------------
(* The handling of an order, outside of its writes and its line.           *)

Writes == {"forgets", "persists", "remembers"}

LEMMA HandlingMoves ==
    ASSUME QueueInv,
           UNCHANGED <<inbox, taken, results, replies, repliesOnDisk, offsets, offsetsOnDisk, writing, broken, watcher,
                       up, posted, counted, repeats, unreached>>,
           working \subseteq working', working' \subseteq Orders, submit' \in [Orders -> SubmitPCs],
           unread' \subseteq GithubOrders, batch' \subseteq GithubOrders, handled' \subseteq GithubOrders,
           OrdersAreRight',
           \A o \in Orders : submit'[o] = submit[o] \/ (submit[o] \notin Writes /\ submit'[o] \notin Writes)
    PROVE  QueueInv'
<1>2. QueueIsTyped'
    BY QueueParts DEF QueueIsTyped
<1>4. /\ LinesGrow /\ ResultsGrow /\ WritesGoOn /\ Line' = Line /\ OrderOf' = OrderOf /\ Delegated' = Delegated
      /\ \A a \in Lines : Len(inbox[a]) \in Nat /\ Len(inbox[a])' \in Nat
      /\ \A a : ReadTo(a)' = ReadTo(a)
    BY LinesOf, ReadToRests, QueueParts DEF LinesGrow, ResultsGrow, WritesGoOn, Line, OrderOf,
       Delegated
<1>8. RepliesAreRight'
    BY EventsAre, <1>4, RepliesGoOn, QueueParts DEF Writes, IsAReply
<1>9. AnsweredHasNoReply'
    BY <1>4, AnsweredGoesOn, QueueParts DEF QueueIsTyped, AnsweredHasNoReply
<1>10. DueIsAhead'
    BY <1>4, DueGoesOn, AheadStays, QueueParts DEF DueIsAhead, Due, Writes
<1> QED
    BY <1>2, <1>8, <1>9, <1>10, <1>4, AheadStays, QueueParts DEF QueueInv, WritesAreAwaited, Writes,
       WatcherIsAtALine, MayDelegate, ResultsAnswerLines

LEMMA OnMessageIsRight ==
    ASSUME QueueInv, NEW o \in Orders, onMessage(o)
    PROVE  QueueInv'
BY QueueParts, LinesAreTwo, HandlingMoves DEF onMessage, OrderAt, StepTo, QueueIsTyped, SubmitPCs,
   OrdersAreRight, OrderIsRight, Writes

LEMMA PollsInboxIsRight ==
    ASSUME QueueInv, PollsInbox
    PROVE  QueueInv'
BY QueueParts, OrderGoesOn, HandlingMoves DEF PollsInbox, OrderRests, OrdersAreRight, QueueIsTyped

(* Handling a notification whose order was handled, which nobody allowed   *)
(* asked for, or which it takes up.                                        *)
LEMMA HandlesIsRight ==
    ASSUME QueueInv, NEW o \in Orders, Handles(o)
    PROVE  QueueInv'
<1>1. QueueIsTyped /\ OrdersAreRight
    BY QueueParts
<1>6. /\ submit' \in [Orders -> SubmitPCs] /\ submit'[o] \in {submit[o], "reacts"}
      /\ \A q \in Orders : q # o => submit'[q] = submit[q]
      /\ handled \subseteq handled' /\ handled' \subseteq GithubOrders /\ unread' \subseteq unread
    BY <1>1 DEF SubmitPCs, Handles, StepTo, QueueIsTyped
<1>7. ASSUME NEW q \in Orders, q # o PROVE OrderIsRight(q)'
    BY <1>1, <1>6, <1>7, OrderGoesOn DEF OrderRests, OrdersAreRight, Handles
<1> QED
    BY <1>6, HandlingMoves, <1>7, <1>1 DEF Writes, OrdersAreRight, OrderIsRight, QueueIsTyped,
       Handles, StepTo, Handling

LEMMA AddsReactionIsRight ==
    ASSUME QueueInv, NEW o \in Orders, AddsReaction(o)
    PROVE  QueueInv'
<1>4. /\ unread \subseteq GithubOrders /\ batch \subseteq GithubOrders /\ handled \subseteq GithubOrders /\ working \subseteq Orders
      /\ submit \in [Orders -> SubmitPCs]
    BY QueueParts DEF QueueIsTyped
<1>6. ASSUME NEW q \in Orders, q # o PROVE OrderIsRight(q)'
    BY <1>6, OrderGoesOn, <1>4, QueueParts DEF OrderRests, OrdersAreRight, SubmitPCs, AddsReaction,
       StepTo, OrderAt
<1> QED
    BY HandlingMoves, <1>4, <1>6, LinesAreTwo, QueueParts DEF Writes, OrdersAreRight, OrderIsRight,
       SubmitPCs, AddsReaction, StepTo, OrderAt

LEMMA AnnotateIsRight ==
    ASSUME QueueInv, NEW o \in Orders, annotate(o)
    PROVE  QueueInv'
BY QueueParts, HandlingMoves DEF annotate, OrderAt, StepTo, QueueIsTyped, SubmitPCs, OrdersAreRight,
   OrderIsRight, Writes

LEMMA MarksOffsetIsRight ==
    ASSUME QueueInv, NEW o \in Orders, MarksOffset(o)
    PROVE  QueueInv'
BY QueueParts, HandlingMoves DEF MarksOffset, OrderAt, StepTo, QueueIsTyped, SubmitPCs,
   OrdersAreRight, OrderIsRight, Writes

-----------------------------------------------------------------------------
(* What an order does to its line, to its reply and to the chain.          *)

(* An actor that waits for no write may write what the replies are now.    *)
LEMMA WriteIsAdded ==
    ASSUME QueueIsTyped, WritesAreAwaited, NEW w \in QueueWrites, writing' = Append(writing, w),
           \A i \in 1..Len(writing) : writing[i].of # w.of,
           \A o \in Orders : submit[o] \in {"forgets", "persists"} => submit'[o] = submit[o],
           watcher.pc \in {"waits", "remapped", "saves"} => watcher' = watcher,
           w.of \in Orders => submit'[w.of] \in {"forgets", "persists"} /\ w.file = "pending",
           w.of = "watcher" => \/ w.file = "pending" /\ watcher'.pc \in {"waits", "remapped"}
                               \/ /\ w.file = "offset" /\ watcher'.pc = "saves"
                                  /\ w.agent = watcher'.of /\ w.offset = watcher'.upto
    PROVE  writing' \in Seq(QueueWrites) /\ WritesAreAwaited'
BY WritesAre DEF WritesAreAwaited

LEMMA PersistsPending ==
    ASSUME QueueIsTyped, NEW who \in QueueWriters, replies' \subseteq QueueEvents, persistPending(who), repliesOnDisk' = repliesOnDisk
    PROVE  /\ WritesGoOn
           /\ \E w \in QueueWrites : /\ writing' = Append(writing, w) /\ w.of = who /\ w.file = "pending"
                                     /\ w.replies = replies'
BY LinesAreTwo DEF QueueWrites, persistPending, WritesGoOn

(* Who waits for no write has none under way.                              *)
LEMMA NoWriteOf ==
    ASSUME WritesAreAwaited, QueueIsTyped
    PROVE  /\ \A o \in Orders : submit[o] \notin {"forgets", "persists"} => \A i \in 1..Len(writing) : writing[i].of # o
           /\ watcher.pc \notin {"waits", "remapped", "saves"} => \A i \in 1..Len(writing) : writing[i].of # "watcher"
BY WritesAre DEF QueueWrites, WritesAreAwaited

(* What every step keeps of the lines when it leaves them alone.           *)
LEMMA LinesRest ==
    ASSUME QueueIsTyped, ResultsAnswerLines, WatcherIsAtALine,
           UNCHANGED <<inbox, taken, results, offsets, offsetsOnDisk, watcher, counted>>,
           \A o \in Orders : posted[o] > 0 => posted'[o] > 0
    PROVE  /\ ResultsAnswerLines' /\ WatcherIsAtALine' /\ LinesGrow /\ ResultsGrow
           /\ Line' = Line /\ OrderOf' = OrderOf /\ \A a : ReadTo(a)' = ReadTo(a) /\ \A e : Ahead(e) => Ahead(e)'
<1>2. /\ LinesGrow /\ ResultsGrow /\ Line' = Line /\ OrderOf' = OrderOf /\ Delegated' = Delegated
      /\ \A a \in Lines : Len(inbox[a]) \in Nat /\ Len(inbox[a])' \in Nat
      /\ \A a : ReadTo(a)' = ReadTo(a)
    BY LinesOf, ReadToRests DEF LinesGrow, ResultsGrow, Line, OrderOf, Delegated
<1> QED
    BY <1>2, LineIs, AheadStays DEF WatcherIsAtALine, MayDelegate, AtLine, ResultsAnswerLines

LEMMA CountedOnce ==
    ASSUME NEW f \in [Orders -> 0..2], NEW o \in Orders
    PROVE  LET g == [f EXCEPT ![o] = Once(@)] IN
           /\ g \in [Orders -> 0..2] /\ g[o] > 0 /\ (f[o] = 0 => g[o] = 1)
           /\ \A q \in Orders : q # o => g[q] = f[q]
           /\ \A q \in Orders : f[q] > 0 => g[q] > 0
BY DEF Once

LEMMA DeliverAckDirectlyIsRight ==
    ASSUME QueueInv, NEW o \in Orders, deliverAckDirectly(o),
           replies' = replies \ {Event(o, 0)}, persistPending(o), submit' = [submit EXCEPT ![o] = "forgets"],
           working' = working \ {o},
           posted' = IF counted[o] > 0 THEN [posted EXCEPT ![o] = Once(@)] ELSE posted
    PROVE  QueueInv'
<1>2. /\ UNCHANGED <<unread, batch, handled, inbox, taken, results, repliesOnDisk, offsets, offsetsOnDisk, broken,
                     watcher, up, counted, repeats, unreached>>
      /\ submit[o] = "acks" /\ up
    BY DEF deliverAckDirectly, OrderAt
<1>3. /\ submit' \in [Orders -> SubmitPCs] /\ submit'[o] = "forgets" /\ \A q \in Orders : q # o => submit'[q] = submit[q]
      /\ posted' \in [Orders -> 0..2] /\ (counted[o] > 0 => posted'[o] > 0) /\ \A q \in Orders : q # o => posted'[q] = posted[q]
      /\ \A q \in Orders : posted[q] > 0 => posted'[q] > 0
      /\ counted[o] = 0 => posted' = posted
      /\ counted[o] \in 0..2
  <2>1. submit \in [Orders -> SubmitPCs] /\ posted \in [Orders -> 0..2] /\ counted \in [Orders -> 0..2]
      BY QueueParts DEF QueueIsTyped
  <2>3. CASE counted[o] > 0
      BY <2>1, <2>3, CountedOnce DEF SubmitPCs
  <2>4. CASE ~(counted[o] > 0)
      BY <2>1, <2>4 DEF SubmitPCs
  <2> QED
      BY <2>3, <2>4
<1>6. replies' \subseteq replies /\ replies' \subseteq QueueEvents /\ o \in QueueWriters
    BY QueueParts DEF QueueIsTyped, QueueWriters
<1>7. PICK w \in QueueWrites : writing' = Append(writing, w) /\ w.of = o /\ w.file = "pending" /\ w.replies = replies'
    BY <1>2, <1>6, PersistsPending, QueueParts
<1>9. writing' \in Seq(QueueWrites) /\ WritesAreAwaited'
    BY LinesAreTwo, <1>2, NoWriteOf, <1>3, <1>7, WriteIsAdded, QueueParts
<1>10. QueueIsTyped'
    BY <1>2, <1>3, <1>6, <1>9, QueueParts DEF QueueIsTyped
<1>11. /\ ResultsAnswerLines' /\ WatcherIsAtALine' /\ LinesGrow /\ ResultsGrow
       /\ Line' = Line /\ OrderOf' = OrderOf /\ \A e : Ahead(e) => Ahead(e)'
    BY <1>2, <1>3, LinesRest, QueueParts
<1>12. OrdersAreRight'
    BY <1>2, <1>3, QueueParts DEF OrdersAreRight, OrderIsRight
<1>13. RepliesAreRight'
    BY <1>2, <1>3, RepliesGoOn, <1>6, PersistsPending, QueueParts DEF IsAReply
<1>14. AnsweredHasNoReply'
  <2>1. ASSUME NEW e \in QueueEvents, posted'[e[1]] > 0, e[1] \notin repeats' PROVE posted[e[1]] > 0
      BY <1>2, <1>3, <2>1, EventsAre, QueueParts DEF OrderIsRight, OrdersAreRight
  <2>2. ASSUME watcher'.pc \in {"posts", "delegates", "remaps", "drops"}, OrderOf' \notin repeats' PROVE Line.event' \in replies'
      BY <1>2, <1>11, <2>2, LineIs, EventsAre, QueueParts DEF AnsweredHasNoReply, AtLine,
         OrderIsRight, OrdersAreRight
  <2> QED
      BY <1>2, <1>6, <1>11, <2>1, <2>2, AnsweredGoesOn, PersistsPending, QueueParts
<1>15. DueIsAhead'
    BY <1>2, <1>3, EventsAre, <1>11, DueGoesOn, <1>6, PersistsPending, QueueParts DEF DueIsAhead,
       Due
<1> QED
    BY <1>9, <1>10, <1>11, <1>12, <1>13, <1>14, <1>15 DEF QueueInv

(* A reaction that failed leaves the order to be queued.                   *)
LEMMA AckFailsIsRight ==
    ASSUME QueueInv, NEW o \in Orders, deliverAckDirectly(o),
           submit' = [submit EXCEPT ![o] = "appends"], UNCHANGED <<working, posted, replies, writing>>
    PROVE  QueueInv'
BY QueueParts, HandlingMoves DEF deliverAckDirectly, OrderAt, QueueIsTyped, SubmitPCs,
   OrdersAreRight, OrderIsRight, Writes

LEMMA AppendsOrderIsRight ==
    ASSUME QueueInv, NEW o \in Orders, AppendsOrder(o)
    PROVE  QueueInv'
<1>1. /\ QueueIsTyped /\ ResultsAnswerLines /\ WatcherIsAtALine /\ WritesAreAwaited
      /\ OrdersAreRight /\ RepliesAreRight /\ AnsweredHasNoReply /\ DueIsAhead
    BY QueueParts
<1>2. /\ UNCHANGED <<unread, batch, handled, working, taken, results, replies, repliesOnDisk, offsets, offsetsOnDisk,
                     writing, broken, watcher, up, posted, repeats, unreached>>
      /\ submit[o] = "appends" /\ up /\ Puts(Primary, Event(o, 0)) /\ counted' = [counted EXCEPT ![o] = Once(@)]
      /\ submit' = [submit EXCEPT ![o] = "remembers"] /\ Len(inbox[Primary]) < MaxQueued
    BY DEF AppendsOrder, OrderAt, StepTo
<1>3. /\ submit' \in [Orders -> SubmitPCs] /\ submit'[o] = "remembers" /\ \A q \in Orders : q # o => submit'[q] = submit[q]
      /\ counted' \in [Orders -> 0..2] /\ counted'[o] > 0 /\ (counted[o] = 0 => counted'[o] = 1)
      /\ \A q \in Orders : q # o => counted'[q] = counted[q]
      /\ \A q \in Orders : counted[q] > 0 => counted'[q] > 0
  <2>1. submit \in [Orders -> SubmitPCs] /\ counted \in [Orders -> 0..2]
      BY <1>1 DEF QueueIsTyped
  <2>2. submit' \in [Orders -> SubmitPCs] /\ submit'[o] = "remembers" /\ \A q \in Orders : q # o => submit'[q] = submit[q]
      BY <1>2, <2>1 DEF SubmitPCs
  <2> QED
      BY <1>2, <2>1, <2>2, CountedOnce
<1>4. OrderIsRight(o) /\ counted[o] \in 0..2
    BY <1>1 DEF OrdersAreRight, QueueIsTyped
<1>5. counted[o] > 0 => o \in repeats
    BY <1>2, <1>4 DEF OrderIsRight
<1>6. /\ inbox' \in [Lines -> Seq(Events)] /\ LinesGrow
      /\ Len(inbox'[Primary]) = Len(inbox[Primary]) + 1 /\ inbox'[Primary][Len(inbox[Primary]) + 1] = Event(o, 0)
      /\ \A b \in Lines : b # Primary => inbox'[b] = inbox[b]
      /\ \A b \in Lines : Len(inbox[b])' \in Nat
    BY <1>1, <1>2, EventsAre, LinesAreTwo, PutsGrows
<1>7. \A a \in Lines : Len(inbox[a]) \in Nat /\ Len(results[a]) \in Nat
    BY <1>1, LinesOf
<1>8. QueueIsTyped'
    BY <1>1, <1>2, <1>3, <1>6 DEF QueueIsTyped
<1>9. ResultsAnswerLines'
    BY <1>1, <1>2, <1>3, <1>4, <1>6, InboxGrows, EventsAre, LinesAreTwo
<1>10. ResultsGrow /\ WritesGoOn /\ Line' = Line /\ OrderOf' = OrderOf /\ Delegated' = Delegated
       /\ \A a : ReadTo(a)' = ReadTo(a)
    BY <1>2, <1>7, ReadToRests DEF ResultsGrow, WritesGoOn, Line, OrderOf, Delegated
<1>11. \A e : Ahead(e) => Ahead(e)'
    BY <1>6, <1>7, <1>10, AheadStays
<1>12. WatcherIsAtALine'
    BY <1>1, <1>2, <1>10, <1>11 DEF WatcherIsAtALine, MayDelegate
<1>13. WritesAreAwaited'
  <2>1. \A i \in 1..Len(writing) : writing[i].of # o
      BY <1>1, <1>2, NoWriteOf
  <2>2. \A i \in 1..Len(writing) : writing[i].of \in Orders => submit'[writing[i].of] = submit[writing[i].of]
      BY <1>3, <2>1
  <2> QED
      BY <1>1, <1>2, <2>2 DEF WritesAreAwaited
<1>14. OrdersAreRight'
  <2>1. ASSUME NEW q \in Orders, q # o PROVE OrderIsRight(q)'
      BY <1>1, <1>2, <1>3, <2>1, OrderGoesOn DEF OrderRests, OrdersAreRight
  <2>2. OrderIsRight(o)'
      BY <1>2, <1>3, <1>4, <1>5 DEF OrderIsRight
  <2> QED
      BY <2>1, <2>2 DEF OrdersAreRight
<1>15. RepliesAreRight'
  <2>1. ASSUME NEW e \in QueueEvents, IsAReply(e) PROVE IsAReply(e)'
    <3>1. CASE e[1] = o
        BY <1>2, <1>3, <1>5, <2>1, <3>1 DEF IsAReply
    <3>2. CASE e[1] # o
        BY <1>2, <1>3, <2>1, <3>2, EventsAre DEF IsAReply
    <3> QED
        BY <3>1, <3>2
  <2> QED
      BY <1>1, <1>2, <1>10, <2>1, RepliesGoOn
<1>16. AnsweredHasNoReply'
  <2>1. replies \subseteq QueueEvents
      BY <1>1 DEF QueueIsTyped
  <2>2. watcher.pc \in {"posts", "delegates", "remaps", "drops"} /\ OrderOf \notin repeats => Line.event \in replies
      BY <1>1 DEF AnsweredHasNoReply
  <2> QED
      BY <1>1, <1>2, <1>10, <2>1, <2>2, AnsweredGoesOn
<1>17. DueIsAhead'
  <2>1. SUFFICES ASSUME NEW q \in Orders, Due(q)'
                 PROVE  InMemory(q)' /\ \A i \in Stages' : IsWrittenBy(q, i)' => OnDisk(q, i)'
      BY DEF DueIsAhead
  <2>2. CASE q = o
    <3>1. Ahead(Event(o, 0))'
      <4>1. ReadTo(Primary)' < Len(inbox[Primary]) + 1
        <5>1. PICK p \in Lines : p = Primary
            BY LinesAreTwo
        <5>2. ReadTo(p) \in Nat /\ ReadTo(p) <= Len(results[p])
            BY <1>1, ReadToIs
        <5>3. Len(results[p]) \in Nat /\ Len(inbox[p]) \in Nat
            BY <1>1, LinesOf
        <5>4. Len(results[p]) <= Len(inbox[p])
            BY <1>1 DEF ResultsAnswerLines
        <5>5. ReadTo(p)' = ReadTo(p)
            BY <1>7, <1>10
        <5>6. ReadTo(p)' < Len(inbox[p]) + 1
            BY <5>2, <5>3, <5>4, <5>5
        <5> QED
            BY <5>1, <5>6
      <4>2. PICK i : i = Len(inbox[Primary]) + 1
          OBVIOUS
      <4>3. i \in 1..Len(inbox'[Primary]) /\ inbox'[Primary][i] = Event(o, 0) /\ ReadTo(Primary)' < i
          BY <1>6, <1>7, <4>1, <4>2, LinesAreTwo
      <4>4. Primary \in Lines
          BY LinesAreTwo
      <4> QED
          BY <4>3, <4>4 DEF Ahead, Lines
    <3>2. InMemory(q)'
        BY <1>3, <2>2, <3>1 DEF InMemory
    <3> QED
        BY <1>3, <2>2, <3>2 DEF IsWrittenBy
  <2>3. CASE q # o
    <3>1. Due(q)
        BY <1>2, <1>3, <2>1, <2>3 DEF Due
    <3> QED
        BY <1>1, <1>2, <1>3, <1>10, <1>11, <2>1, <2>3, <3>1, DueGoesOn
  <2> QED
      BY <2>2, <2>3
<1> QED
    BY <1>8, <1>9, <1>12, <1>13, <1>14, <1>15, <1>16, <1>17 DEF QueueInv

LEMMA RemembersIsRight ==
    ASSUME QueueInv, NEW o \in Orders, Remembers(o)
    PROVE  QueueInv'
<1>1. /\ QueueIsTyped /\ ResultsAnswerLines /\ WatcherIsAtALine /\ WritesAreAwaited
      /\ OrdersAreRight /\ RepliesAreRight /\ AnsweredHasNoReply /\ DueIsAhead
    BY QueueParts
<1>2. /\ UNCHANGED <<unread, batch, handled, working, inbox, taken, results, repliesOnDisk, offsets, offsetsOnDisk, broken,
                     watcher, up, posted, counted, repeats, unreached>>
      /\ submit[o] = "remembers" /\ up /\ replies' = replies \cup {Event(o, 0)} /\ persistPending(o)
      /\ submit' = [submit EXCEPT ![o] = "persists"]
    BY DEF Remembers, OrderAt, StepTo
<1>3. submit' \in [Orders -> SubmitPCs] /\ submit'[o] = "persists" /\ \A q \in Orders : q # o => submit'[q] = submit[q]
    BY <1>1, <1>2 DEF QueueIsTyped, SubmitPCs
<1>4. OrderIsRight(o)
    BY <1>1 DEF OrdersAreRight
<1>5. /\ counted[o] > 0 /\ o \in working \cup unreached \cup repeats
      /\ o \notin repeats => posted[o] = 0 /\ \A e \in replies : e[1] # o
    BY <1>1, <1>2, <1>4 DEF OrderIsRight, RepliesAreRight, AreReplies, IsAReply
<1>6. replies' \subseteq QueueEvents /\ o \in QueueWriters /\ Event(o, 0)[1] = o
    BY <1>1, <1>2, EventsAre, LinesAreTwo DEF QueueIsTyped, QueueWriters
<1>7. PICK w \in QueueWrites : writing' = Append(writing, w) /\ w.of = o /\ w.file = "pending" /\ w.replies = replies'
    BY <1>1, <1>2, <1>6, PersistsPending
<1>8. WritesGoOn
    BY <1>1, <1>2, <1>6, PersistsPending
<1>9. writing' \in Seq(QueueWrites) /\ WritesAreAwaited'
  <2>1. o # "watcher"
      BY LinesAreTwo
  <2>2. \A i \in 1..Len(writing) : writing[i].of # o
      BY <1>1, <1>2, NoWriteOf
  <2>3. \A q \in Orders : submit[q] \in {"forgets", "persists"} => submit'[q] = submit[q]
      BY <1>2, <1>3
  <2> QED
      BY <1>1, <1>2, <1>3, <1>7, <2>1, <2>2, <2>3, WriteIsAdded
<1>10. QueueIsTyped'
    BY <1>1, <1>2, <1>3, <1>6, <1>9 DEF QueueIsTyped
<1>11. /\ ResultsAnswerLines' /\ WatcherIsAtALine' /\ LinesGrow /\ ResultsGrow
       /\ Line' = Line /\ OrderOf' = OrderOf /\ \A e : Ahead(e) => Ahead(e)'
    BY <1>1, <1>2, LinesRest
<1>12. OrdersAreRight'
  <2>1. ASSUME NEW q \in Orders, q # o PROVE OrderIsRight(q)'
      BY <1>1, <1>2, <1>3, <2>1, OrderGoesOn DEF OrderRests, OrdersAreRight
  <2>2. OrderIsRight(o)'
      BY <1>2, <1>3, <1>4, <1>5 DEF OrderIsRight
  <2> QED
      BY <2>1, <2>2 DEF OrdersAreRight
<1>13. RepliesAreRight'
  <2>1. ASSUME NEW e \in QueueEvents, IsAReply(e) PROVE IsAReply(e)'
    <3>1. CASE e[1] = o
        BY <1>2, <1>3, <2>1, <3>1 DEF IsAReply
    <3>2. CASE e[1] # o
        BY <1>2, <1>3, <2>1, <3>2, EventsAre DEF IsAReply
    <3> QED
        BY <3>1, <3>2
  <2>2. IsAReply(Event(o, 0))'
      BY <1>2, <1>3, <1>5, <1>6 DEF IsAReply
  <2>3. ASSUME NEW e \in replies' PROVE e \in replies \/ (IsAReply(e)' /\
                (e[1] \notin repeats' => \A f \in replies' : f[1] = e[1] => f = e))
      BY <1>2, <1>5, <1>6, <2>2
  <2> QED
      BY <1>1, <1>2, <1>8, <2>1, <2>3, RepliesGoOn
<1>14. AnsweredHasNoReply'
  <2>1. \A e \in replies' : e \in replies \/ e[1] \in repeats' \/ ~(posted'[e[1]] > 0)
      BY <1>2, <1>5, <1>6
  <2>2. watcher.pc \in {"posts", "delegates", "remaps", "drops"} /\ OrderOf \notin repeats => Line.event \in replies
      BY <1>1 DEF AnsweredHasNoReply
  <2> QED
      BY <1>1, <1>2, <1>6, <1>8, <1>11, <2>1, <2>2, AnsweredGoesOn
<1>15. DueIsAhead'
  <2>1. SUFFICES ASSUME NEW q \in Orders, Due(q)'
                 PROVE  InMemory(q)' /\ \A i \in Stages' : IsWrittenBy(q, i)' => OnDisk(q, i)'
      BY DEF DueIsAhead
  <2>2. Due(q)
      BY <1>2, <2>1 DEF Due
  <2>3. CASE q = o
    <3>1. InMemory(o)
        BY <1>1, <2>2, <2>3 DEF DueIsAhead
    <3>2. \E e \in replies' : e[1] = o /\ Ahead(e)'
        BY <1>2, <1>6, <1>11, <3>1 DEF InMemory
    <3>3. InMemory(q)'
        BY <2>3, <3>2 DEF InMemory
    <3>4. ASSUME NEW i \in Stages', IsWrittenBy(q, i)' PROVE OnDisk(q, i)'
      <4>1. \E j \in 1..Len(writing') : j <= i /\ writing'[j].of = o
          BY <1>3, <2>3, <3>4 DEF IsWrittenBy
      <4>2. \A j \in 1..Len(writing) : writing[j].of # o
          BY <1>1, <1>2, NoWriteOf
      <4>3. i \in 0..Len(writing')
          BY <3>4 DEF Stages
      <4>4. Kept(i)' = replies'
          BY <1>1, <1>8, <3>4, <4>1, <4>2, <4>3, StagesGoOn
      <4> QED
          BY <2>3, <3>2, <4>4 DEF OnDisk
    <3> QED
        BY <3>3, <3>4
  <2>4. CASE q # o
      BY <1>1, <1>2, <1>3, <1>8, <1>11, <2>1, <2>2, <2>4, DueGoesOn
  <2> QED
      BY <2>3, <2>4
<1> QED
    BY <1>9, <1>10, <1>11, <1>12, <1>13, <1>14, <1>15 DEF QueueInv

(* The agent reads a line and answers it.                                  *)
LEMMA AgentAnswersIsRight ==
    ASSUME QueueInv, NEW a \in Lines, AgentAnswers(a)
    PROVE  QueueInv'
<1>3. PICK kind \in ResultKinds : results' = [results EXCEPT ![a] = Append(@, [event |-> inbox[a][taken[a] + 1], kind |-> kind])]
    BY DEF AgentAnswers, ResultKinds
<1>4. /\ inbox[a] \in Seq(Events) /\ results[a] \in Seq(ResultLines) /\ Len(inbox[a]) \in Nat /\ Len(results[a]) \in Nat
      /\ taken[a] \in Nat /\ taken[a] < Len(inbox[a]) /\ taken[a] = Len(results[a])
      /\ \A i \in 1..Len(inbox[a]) : inbox[a][i] \in Events
    BY LinesOf, QueueParts DEF ResultsAnswerLines, AgentAnswers
<1>5. PICK was : was = results[a]
    OBVIOUS
<1>6. PICK r : r = [event |-> inbox[a][taken[a] + 1], kind |-> kind]
    OBVIOUS
<1>7. r \in ResultLines /\ r.event = inbox[a][Len(results[a]) + 1]
    BY <1>4, <1>6 DEF ResultLines
<1>8. /\ Append(was, r) \in Seq(ResultLines) /\ Len(Append(was, r)) = Len(was) + 1 /\ Append(was, r)[Len(was) + 1] = r
      /\ \A i \in 1..Len(was) : Append(was, r)[i] = was[i]
    BY <1>4, <1>5, <1>7, AppendProperties
<1>9. results' = [results EXCEPT ![a] = Append(was, r)] /\ taken' = [taken EXCEPT ![a] = @ + 1]
    BY <1>3, <1>5, <1>6 DEF AgentAnswers
<1>10. /\ results' \in [Lines -> Seq(ResultLines)] /\ results'[a] = Append(was, r) /\ taken' \in [Lines -> Nat]
       /\ taken'[a] = taken[a] + 1 /\ \A b \in Lines : b # a => results'[b] = results[b] /\ taken'[b] = taken[b]
    BY <1>4, <1>8, <1>9, QueueParts DEF QueueIsTyped
<1>11. QueueIsTyped'
    BY <1>10, QueueParts DEF QueueIsTyped, AgentAnswers
<1>12. ResultsGrow
  <2>3. ASSUME NEW b \in Lines
        PROVE  /\ Len(results[b]) <= Len(results'[b])
               /\ \A i \in 1..Len(results[b]) : results'[b][i] = results[b][i]
    <3>1. CASE b = a
        BY <3>1, <1>4, <1>5, <1>8, <1>10
    <3>2. CASE b # a
        BY <1>10, <3>2, LinesOf, QueueParts
    <3> QED
        BY <3>1, <3>2
  <2> QED
      BY <2>3 DEF ResultsGrow
<1>13. ResultsAnswerLines'
  <2>1. SUFFICES ASSUME NEW b \in Lines
                 PROVE  /\ Len(inbox'[b]) <= MaxQueued
                        /\ taken'[b] = Len(results'[b]) /\ taken'[b] <= Len(inbox'[b])
                        /\ \A i \in 1..Len(results'[b]) : results'[b][i].event = inbox'[b][i]
                        /\ offsets'[b] <= Len(results'[b])
                        /\ offsetsOnDisk'[b] = offsets'[b] \/ (offsetsOnDisk'[b] = NoOffset /\ offsets'[b] = 0)
                        /\ \A i \in 1..Len(inbox'[b]) : counted'[inbox'[b][i][1]] > 0
      BY DEF ResultsAnswerLines, NoOffset
  <2>2. /\ Len(inbox[b]) <= MaxQueued /\ taken[b] = Len(results[b]) /\ taken[b] <= Len(inbox[b])
        /\ \A i \in 1..Len(results[b]) : results[b][i].event = inbox[b][i]
        /\ offsets[b] <= Len(results[b]) /\ offsets[b] \in Nat
        /\ offsetsOnDisk[b] = offsets[b] \/ (offsetsOnDisk[b] = NoOffset /\ offsets[b] = 0)
        /\ \A i \in 1..Len(inbox[b]) : counted[inbox[b][i][1]] > 0
      BY LinesOf, QueueParts DEF ResultsAnswerLines
  <2>3. CASE b = a
    <3>2. ASSUME NEW i \in 1..Len(results'[b]) PROVE results'[b][i].event = inbox[b][i]
        BY <2>3, <1>5, <1>10, <2>2, <1>7
    <3> QED
        BY <1>4, <2>2, <2>3, <3>2, <1>5, <1>8, <1>10 DEF AgentAnswers
  <2>4. CASE b # a
      BY <1>10, <2>2, <2>4 DEF AgentAnswers
  <2> QED
      BY <2>3, <2>4
<1>14. LinesGrow /\ WritesGoOn /\ (\A b : ReadTo(b)' = ReadTo(b))
       /\ \A b \in Lines : Len(inbox[b]) \in Nat /\ Len(inbox[b])' \in Nat /\ Len(results[b]) \in Nat /\ Len(results[b])' \in Nat
    BY <1>11, <1>10, LinesOf, ReadToRests, QueueParts DEF LinesGrow, WritesGoOn, AgentAnswers
<1>17. WatcherIsAtALine'
  <2>1. watcher.of \in Lines /\ watcher.upto \in Nat
      BY QueueParts DEF QueueIsTyped
  <2> QED
      BY <1>14, <2>1, <1>12, WatchedLineStays, AheadStays, QueueParts DEF WatcherIsAtALine,
         MayDelegate, AtLine, ResultsGrow, Delegated, AgentAnswers
<1>19. RepliesAreRight'
    BY <1>14, RepliesGoOn, QueueParts DEF IsAReply, AgentAnswers
<1>20. AnsweredHasNoReply'
    BY <1>14, AnsweredGoesOn, <1>12, WatchedLineStays, QueueParts DEF QueueIsTyped,
       AnsweredHasNoReply, AtLine, Delegated, AgentAnswers
<1>21. DueIsAhead'
    BY <1>14, DueGoesOn, <1>12, WatchedLineStays, AheadStays, QueueParts DEF DueIsAhead, Due,
       AtLine, Delegated, AgentAnswers
<1> QED
    BY <1>11, <1>13, <1>17, <1>19, <1>20, <1>21, QueueParts DEF QueueInv, WritesAreAwaited,
       OrdersAreRight, OrderIsRight, AgentAnswers

-----------------------------------------------------------------------------
(* The watcher, where it writes nothing.                                   *)

Watchers == [pc : WatcherPCs, of : Lines, next : Nat \ {0}, upto : Nat]

LEMMA WatcherMoves ==
    ASSUME QueueInv,
           UNCHANGED <<submit, unread, batch, handled, taken, results, replies, repliesOnDisk, offsets, offsetsOnDisk,
                       writing, broken, up, posted, counted, repeats>>,
           watcher.pc \notin {"waits", "remapped", "saves", "drops"},
           watcher' \in Watchers, inbox' \in [Lines -> Seq(Events)],
           working' \subseteq Orders, unreached' \subseteq Orders,
           unreached \subseteq unreached', working \subseteq working' \cup unreached',
           ResultsAnswerLines', WatcherIsAtALine',
           watcher'.pc \in {"posts", "delegates", "remaps", "drops"} /\ OrderOf' \notin repeats' => Line.event' \in replies',
           \A e \in QueueEvents : /\ Ahead(e) /\ e[1] \notin unreached' /\ posted[e[1]] = 0
                                  /\ e \in replies \/ (submit[e[1]] = "remembers" /\ e = Event(e[1], 0))
                                  => Ahead(e)'
    PROVE  QueueInv'
<1>1. /\ QueueIsTyped /\ WritesAreAwaited
      /\ OrdersAreRight /\ RepliesAreRight /\ AnsweredHasNoReply /\ DueIsAhead
    BY QueueParts
<1>7. RepliesAreRight'
    BY ReplyGoesOn, EventsAre, <1>1, RepliesGoOn DEF WritesGoOn, OrderRests
<1>9. DueIsAhead'
  <2>1. SUFFICES ASSUME NEW o \in Orders, Due(o)'
                 PROVE  InMemory(o)' /\ \A i \in Stages' : IsWrittenBy(o, i)' => OnDisk(o, i)'
      BY DEF DueIsAhead
  <2>3. replies \subseteq QueueEvents /\ Event(o, 0) \in QueueEvents /\ Event(o, 0)[1] = o
      BY <1>1, EventsAre, LinesAreTwo DEF QueueIsTyped
  <2> QED
      BY <1>1, <2>1, DueGoesOn, <2>3 DEF Due, WritesGoOn
<1> QED
    BY <1>7, <1>9, <1>1, AnsweredGoesOn, OrderGoesOn DEF QueueInv, QueueIsTyped, WritesGoOn,
       OrdersAreRight, OrderRests, WritesAreAwaited, Watchers

LEMMA WatcherAt ==
    ASSUME NEW w \in Watchers, NEW to \in WatcherPCs, NEW n
    PROVE  /\ [w EXCEPT !.pc = to] = [pc |-> to, of |-> w.of, next |-> w.next, upto |-> w.upto]
           /\ [w EXCEPT !.pc = to, !.next = n] = [pc |-> to, of |-> w.of, next |-> n, upto |-> w.upto]
<1>3. PICK v : v = [w EXCEPT !.pc = to]
    OBVIOUS
<1>4. v = [pc |-> to, of |-> w.of, next |-> w.next, upto |-> w.upto]
    BY <1>3 DEF Watchers
<1>5. [v EXCEPT !.next = n] = [pc |-> to, of |-> w.of, next |-> n, upto |-> w.upto]
    BY <1>4
<1> QED
    BY <1>3, <1>5 DEF Watchers

LEMMA WatcherFields ==
    ASSUME NEW w \in Watchers
    PROVE  w.pc \in WatcherPCs /\ w.of \in Lines /\ w.next \in Nat \ {0} /\ w.upto \in Nat
BY DEF Watchers

(* Where the watcher is, when it stays at its line.                        *)
LEMMA WatcherTurns ==
    ASSUME watcher \in Watchers, NEW to \in WatcherPCs, WatcherTo(to)
    PROVE  /\ watcher' \in Watchers /\ watcher'.pc = to /\ watcher'.of = watcher.of
           /\ watcher'.next = watcher.next /\ watcher'.upto = watcher.upto
BY DEF WatcherTo, Watchers

LEMMA MayDelegateStays ==
    ASSUME Line' = Line, MayDelegate(Line.event)
    PROVE  MayDelegate(Line.event)'
OBVIOUS

(* The watcher goes on to the next line.                                   *)
LEMMA SkipsIsRight ==
    ASSUME QueueIsTyped, ResultsAnswerLines, WatcherIsAtALine, watcher.pc # "rests", watcher.next <= watcher.upto,
           watcher' = Skips, UNCHANGED <<offsets, results>>
    PROVE  /\ watcher' \in Watchers /\ watcher'.pc = "reads" /\ WatcherIsAtALine'
           /\ \A a \in Lines : ReadTo(a)' = IF a = watcher.of THEN watcher.next ELSE ReadTo(a)
<1>2. PICK w \in Watchers : w = watcher
    BY DEF QueueIsTyped, Watchers
<1>4. /\ watcher' \in Watchers /\ watcher'.pc = "reads" /\ watcher'.next = w.next + 1
      /\ watcher'.of = w.of /\ watcher'.upto = w.upto /\ w.next \in Nat /\ w.next > 0 /\ w.upto \in Nat /\ w.of \in Lines
  <2>1. w.next \in Nat /\ w.next > 0 /\ w.upto \in Nat /\ w.of \in Lines
      BY WatcherFields
  <2>2. PICK n : n = w.next + 1
      OBVIOUS
  <2>3. n \in Nat \ {0} /\ "reads" \in WatcherPCs
      BY <2>1, <2>2 DEF WatcherPCs
  <2> QED
      BY <2>1, <2>2, <2>3, WatcherAt, <1>2 DEF Watchers, Skips
<1>8. ASSUME NEW a \in Lines PROVE ReadTo(a)' = IF a = watcher.of THEN watcher.next ELSE ReadTo(a)
    BY <1>2, <1>4 DEF ReadTo
<1> QED
    BY <1>4, <1>8, <1>2, LinesOf DEF WatcherIsAtALine, AtLine

(* The lines that are there, when the watcher only moves along them.       *)
LEMMA LinesAreKept ==
    ASSUME QueueIsTyped, ResultsAnswerLines, UNCHANGED <<inbox, taken, results, offsets, offsetsOnDisk, counted>>
    PROVE  /\ ResultsAnswerLines' /\ LinesGrow /\ ResultsGrow /\ inbox' \in [Lines -> Seq(Events)]
           /\ \A a \in Lines : Len(inbox[a]) \in Nat /\ Len(inbox[a])' \in Nat /\ Len(results[a]) \in Nat
BY DEF ResultsAnswerLines, QueueIsTyped, LinesGrow, ResultsGrow

(* What is ahead stays so, but on the line that the watcher skips.         *)
LEMMA AheadBeyond ==
    ASSUME QueueIsTyped, LinesGrow, \A a \in Lines : Len(inbox[a]) \in Nat /\ Len(inbox[a])' \in Nat,
           \A a \in Lines : ReadTo(a)' = IF a = watcher.of THEN watcher.next ELSE ReadTo(a),
           watcher.of \in Lines, ReadTo(watcher.of) = watcher.next - 1, watcher.next \in Nat, watcher.next > 0,
           NEW e, Ahead(e), inbox[watcher.of][watcher.next] # e
    PROVE  Ahead(e)'
BY AheadStays

LEMMA HandleResultLineIsRight ==
    ASSUME QueueInv, handleResultLine
    PROVE  QueueInv'
<1>2. /\ UNCHANGED <<submit, unread, batch, handled, working, inbox, taken, results, replies, repliesOnDisk, offsets,
                     offsetsOnDisk, writing, broken, up, posted, counted, repeats>>
      /\ watcher.pc = "reads" /\ watcher.next <= watcher.upto
    BY DEF handleResultLine, Watches
<1>4. /\ watcher \in Watchers /\ working \subseteq Orders /\ unreached \subseteq Orders
      /\ watcher.next \in Nat /\ watcher.next > 0 /\ watcher.upto \in Nat
    BY QueueParts DEF QueueIsTyped, Watchers
<1>6. /\ ResultsAnswerLines' /\ LinesGrow /\ ResultsGrow /\ inbox' \in [Lines -> Seq(Events)]
      /\ \A a \in Lines : Len(inbox[a]) \in Nat /\ Len(inbox[a])' \in Nat /\ Len(results[a]) \in Nat
    BY <1>2, LinesAreKept, QueueParts
<1>7. CASE Line.event \notin replies
  <2>2. /\ watcher' \in Watchers /\ watcher'.pc = "reads" /\ WatcherIsAtALine'
        /\ \A a \in Lines : ReadTo(a)' = IF a = watcher.of THEN watcher.next ELSE ReadTo(a)
      BY <1>2, SkipsIsRight, <1>7, QueueParts DEF handleResultLine
  <2>4. ASSUME NEW e \in QueueEvents, Ahead(e), e[1] \notin unreached',
               e \in replies \/ (submit[e[1]] = "remembers" /\ e = Event(e[1], 0))
        PROVE  Ahead(e)'
    <3>1. e # Line.event
        BY <1>7, <2>4, EventsAre DEF OrderOf, handleResultLine
    <3> QED
        BY <1>4, <1>6, <2>2, <2>4, <3>1, AheadBeyond, <1>2, LineIsThere, QueueParts DEF ReadTo
  <2> QED
      BY <1>2, <1>4, <1>6, <2>2, <2>4, WatcherMoves, LineIsThere, QueueParts DEF handleResultLine
<1>8. CASE Line.event \in replies
  <2>1. PICK to \in {"delegates", "posts"} : WatcherTo(to) /\ (to = "delegates" => MayDelegate(Line.event))
      BY <1>8 DEF handleResultLine, WatcherTo
  <2>6. \A e : Ahead(e) => Ahead(e)'
      BY <1>6, AheadStays, <1>2, <2>1, <1>4, WatcherTurns DEF ReadTo, WatcherPCs, AtLine
  <2> QED
      BY <1>2, <1>4, <1>6, <1>8, <2>1, <2>6, WatcherMoves, WatcherTurns, LineIsThere, QueueParts DEF
         WatcherIsAtALine, Line, OrderOf, WatcherPCs, AtLine, handleResultLine
<1> QED
    BY <1>7, <1>8

LEMMA PostFailsIsRight ==
    ASSUME QueueInv, PostFails
    PROVE  QueueInv'
<1>4. /\ working \subseteq Orders /\ unreached \subseteq Orders /\ watcher.next \in Nat /\ watcher.next > 0
      /\ watcher.next <= watcher.upto
    BY QueueParts DEF QueueIsTyped, WatcherIsAtALine, AtLine, PostFails, Watches, Clears
<1>8. ASSUME NEW e \in QueueEvents, Ahead(e), e[1] \notin unreached' PROVE Ahead(e)'
    BY <1>8, AheadBeyond, <1>4, SkipsIsRight, LinesAreKept, LineIs, QueueParts DEF OrderOf, ReadTo,
       AtLine, PostFails, Watches, Clears
<1> QED
    BY <1>8, WatcherMoves, <1>4, SkipsIsRight, LinesAreKept, LineIs, QueueParts DEF AtLine,
       PostFails, Watches, Clears

LEMMA SendDebriefIsRight ==
    ASSUME QueueInv, sendDebrief
    PROVE  QueueInv'
<1>1. /\ QueueIsTyped /\ ResultsAnswerLines /\ WatcherIsAtALine
    BY QueueParts
<1>5. /\ working \subseteq Orders /\ unreached \subseteq Orders /\ watcher.next \in Nat /\ watcher.next > 0
      /\ watcher.next <= watcher.upto /\ posted[OrderOf] > 0
    BY <1>1 DEF QueueIsTyped, WatcherIsAtALine, AtLine, sendDebrief, Watches
<1>6. /\ ResultsAnswerLines' /\ LinesGrow /\ inbox' \in [Lines -> Seq(Events)]
      /\ \A a \in Lines : Len(inbox[a]) \in Nat /\ Len(inbox[a])' \in Nat
  <2>1. CASE inbox' = inbox
      BY <1>1, <2>1, LinesAreKept DEF sendDebrief, Watches
  <2>2. CASE Len(inbox[Target]) < MaxQueued /\ Puts(Target, Outcome(Line.event))
    <3>1. PICK e : e = Outcome(Line.event)
        OBVIOUS
    <3>2. e \in Events /\ e[1] = OrderOf
        BY <3>1, LinesAreTwo, <1>1, LineIs DEF Outcome, Events, OrderOf, AtLine, sendDebrief,
           Watches
    <3>3. PICK a \in Lines : a = Target
        BY <1>1, LineIs DEF AtLine, sendDebrief, Watches
    <3>4. Puts(a, e) /\ Len(inbox[a]) < MaxQueued
        BY <2>2, <3>1, <3>3
    <3> QED
        BY <1>1, <3>2, <3>4, PutsGrows, InboxGrows, LinesOf, LineIs DEF AtLine, sendDebrief, Watches
  <2> QED
      BY <2>1, <2>2 DEF sendDebrief
<1>9. ASSUME NEW e \in QueueEvents, Ahead(e), posted[e[1]] = 0 PROVE Ahead(e)'
    BY <1>5, <1>9, <1>1, <1>6, AheadBeyond, SkipsIsRight, LineIs DEF OrderOf, ReadTo, AtLine,
       sendDebrief, Watches
<1> QED
    BY <1>5, <1>6, <1>9, WatcherMoves, <1>1, SkipsIsRight DEF sendDebrief, Watches

LEMMA AppendsTaskIsRight ==
    ASSUME QueueInv, AppendsTask
    PROVE  QueueInv'
<1>1. /\ QueueIsTyped /\ ResultsAnswerLines /\ WatcherIsAtALine /\ AnsweredHasNoReply
    BY QueueParts
<1>4. working \subseteq Orders /\ unreached \subseteq Orders /\ watcher \in Watchers
    BY <1>1 DEF QueueIsTyped, Watchers
<1>6. PICK e : e = Delegated
    OBVIOUS
<1>8. PICK t \in Lines : t = Target
    BY <1>1, LineIs DEF AtLine, AppendsTask, Watches
<1>10. \A b \in Lines : Len(inbox[b]) \in Nat /\ Len(results[b]) \in Nat
    BY <1>1, LinesOf
<1>11. ResultsAnswerLines'
    BY <1>1, InboxGrows, <1>6, <1>8, EventsAre, LineIs DEF Delegated, AtLine, AppendsTask, Watches
<1>12. /\ LinesGrow /\ inbox' \in [Lines -> Seq(Events)] /\ \A b \in Lines : Len(inbox[b])' \in Nat
       /\ Len(inbox'[t]) = Len(inbox[t]) + 1 /\ inbox'[t][Len(inbox[t]) + 1] = e
    BY <1>1, PutsGrows, <1>6, <1>8, EventsAre, LineIs DEF Delegated, AtLine, AppendsTask, Watches
<1>13. \A a \in Lines : ReadTo(a)' = ReadTo(a)
    BY <1>4, WatcherTurns DEF ReadTo, WatcherPCs, AtLine, AppendsTask, Watches
<1>14. \A x : Ahead(x) => Ahead(x)'
    BY <1>10, <1>12, <1>13, AheadStays
<1>15. Line' = Line /\ OrderOf' = OrderOf /\ Delegated' = Delegated
    BY <1>4, WatcherTurns DEF Line, OrderOf, Delegated, WatcherPCs, AtLine, AppendsTask, Watches
<1>16. Ahead(Delegated)'
  <2>1. ReadTo(t) <= Len(results[t]) /\ ReadTo(t) \in Nat
      BY <1>1, ReadToIs
  <2>3. PICK i : i = Len(inbox[t]) + 1
      OBVIOUS
  <2> QED
      BY <1>6, <1>15, <1>10, <1>12, <1>13, <2>1, <2>3, <1>1 DEF Ahead, Lines, ResultsAnswerLines
<1>17. WatcherIsAtALine'
    BY <1>1, <1>15, <1>16, <1>4, WatcherTurns DEF WatcherIsAtALine, AtLine, WatcherPCs, AppendsTask,
       Watches
<1>18. OrderOf' \notin repeats' => Line.event' \in replies'
    BY <1>1, <1>15 DEF AnsweredHasNoReply, AppendsTask, Watches
<1> QED
    BY <1>4, <1>11, <1>12, <1>14, <1>17, <1>18, WatcherMoves, WatcherTurns DEF WatcherPCs, AtLine,
       AppendsTask, Watches

LEMMA NoticesIsRight ==
    ASSUME QueueInv, Notices
    PROVE  QueueInv'
BY QueueParts, LinesAreKept, SkipsIsRight, AheadStays, WatcherMoves DEF Notices, Watches,
   QueueIsTyped, WatcherIsAtALine, AtLine, ReadTo

LEMMA DrainResultsIsRight ==
    ASSUME QueueInv, NEW a \in Lines, drainResults(a)
    PROVE  QueueInv'
<1>3. working \subseteq Orders /\ unreached \subseteq Orders /\ offsets[a] \in Nat /\ Len(results[a]) \in Nat
    BY LinesOf, QueueParts DEF QueueIsTyped
<1> QED
    BY <1>3, WatcherMoves, AheadStays, LinesAreKept, QueueParts DEF ReadTo, WatcherIsAtALine,
       AtLine, Watchers, WatcherPCs, drainResults, Watches

(* The answer is posted: its order's reply is one that the watcher drops.  *)
LEMMA PostIsRight ==
    ASSUME QueueInv, Post
    PROVE  QueueInv'
<1>3. PICK o \in Orders : o = OrderOf
    BY LineIs, QueueParts DEF AtLine, Post, Watches, Clears
<1>4. /\ counted[o] > 0 /\ watcher.of \in Lines /\ offsets[watcher.of] < watcher.next
      /\ watcher.next \in Nat /\ watcher.upto \in Nat
    BY <1>3, LineIs, QueueParts DEF AtLine, QueueIsTyped, Post, Watches, Clears
<1>5. /\ posted' \in [Orders -> 0..2] /\ posted'[o] > 0 /\ (posted[o] = 0 => posted'[o] = 1)
      /\ \A q \in Orders : q # o => posted'[q] = posted[q]
      /\ \A q \in Orders : posted[q] > 0 => posted'[q] > 0
    BY <1>3, CountedOnce, QueueParts DEF QueueIsTyped, Post, Watches, Clears
<1>6. /\ watcher' \in Watchers /\ watcher'.pc = "drops" /\ watcher'.of = watcher.of /\ watcher'.next = watcher.next
      /\ watcher'.upto = watcher.upto
    BY WatcherTurns, QueueParts DEF WatcherPCs, AtLine, Watchers, QueueIsTyped, Post, Watches,
       Clears
<1>7. Line' = Line /\ OrderOf' = o
    BY <1>3, <1>6 DEF Line, OrderOf, Post, Watches, Clears
<1>8. /\ ResultsAnswerLines' /\ LinesGrow /\ \A a \in Lines : Len(inbox[a]) \in Nat /\ Len(inbox[a])' \in Nat
    BY LinesAreKept, QueueParts DEF Post, Watches, Clears
<1>11. QueueIsTyped'
    BY <1>5, <1>6, QueueParts DEF QueueIsTyped, Watchers, Post, Watches, Clears
<1>12. WatcherIsAtALine'
    BY <1>6, <1>5, <1>7, QueueParts DEF WatcherIsAtALine, AtLine, Post, Watches, Clears
<1>13. WritesAreAwaited'
    BY QueueParts DEF WritesAreAwaited, Post, Watches, Clears
<1>14. o \notin repeats => Line.event \in replies /\ posted[o] = 0 /\ submit[o] # "remembers"
  <2>2. ASSUME o \notin repeats PROVE ~(posted[o] > 0) /\ submit[o] # "remembers"
      BY <1>3, <2>2, QueueParts DEF AnsweredHasNoReply, OrderOf, RepliesAreRight, AreReplies,
         IsAReply, Post, Watches, Clears
  <2>3. posted[o] \in 0..2
      BY QueueParts DEF QueueIsTyped
  <2> QED
      BY <2>2, <2>3, <1>3, QueueParts DEF AnsweredHasNoReply, Post, Watches, Clears
<1>15. OrdersAreRight'
    BY <1>3, <1>5, <1>4, <1>14, QueueParts DEF OrdersAreRight, OrderIsRight, Post, Watches, Clears
<1>17. RepliesAreRight'
    BY <1>5, <1>3, RepliesGoOn, QueueParts DEF IsAReply, WritesGoOn, Post, Watches, Clears
<1>18. AnsweredHasNoReply'
    BY <1>5, <1>7, <1>14, <1>6, QueueParts DEF Kept, AnsweredHasNoReply, Post, Watches, Clears
<1>19. DueIsAhead'
    BY <1>5, DueGoesOn, <1>8, AheadStays, <1>6, QueueParts DEF DueIsAhead, Due, WritesGoOn, ReadTo,
       Post, Watches, Clears
<1> QED
    BY <1>8, <1>11, <1>12, <1>13, <1>15, <1>17, <1>18, <1>19 DEF QueueInv

-----------------------------------------------------------------------------
(* The watcher, where it writes.                                           *)

(* What the watcher's write leaves of the orders and their lines.          *)
LEMMA WatcherWrites ==
    ASSUME QueueInv, NEW w \in QueueWrites, w.of = "watcher", writing' = Append(writing, w),
           UNCHANGED <<submit, unread, batch, handled, working, inbox, taken, results, repliesOnDisk, offsets,
                       offsetsOnDisk, broken, up, posted, counted, repeats, unreached>>,
           replies' \subseteq QueueEvents, watcher.pc \in {"drops", "remaps", "reads"}, watcher' \in Watchers,
           \/ w.file = "pending" /\ watcher'.pc \in {"waits", "remapped"}
           \/ w.file = "offset" /\ watcher'.pc = "saves" /\ w.agent = watcher'.of /\ w.offset = watcher'.upto
    PROVE  /\ QueueIsTyped' /\ ResultsAnswerLines' /\ WritesAreAwaited' /\ OrdersAreRight' /\ LinesGrow /\ ResultsGrow
           /\ \A a \in Lines : Len(inbox[a]) \in Nat /\ Len(inbox[a])' \in Nat
           /\ \A e \in QueueEvents : IsAReply(e) => IsAReply(e)'
           /\ \A i \in 0..Len(writing) : WatcherWritesAfter(i)'
<1>5. writing' \in Seq(QueueWrites) /\ WritesAreAwaited'
    BY WriteIsAdded, NoWriteOf, LinesAreTwo, QueueParts
<1>8. OrdersAreRight'
    BY OrderGoesOn, QueueParts DEF OrdersAreRight, OrderRests
<1>10. ASSUME NEW i \in 0..Len(writing) PROVE WatcherWritesAfter(i)'
    BY DEF WatcherWritesAfter
<1> QED
    BY <1>5, <1>8, <1>10, ReplyGoesOn, EventsAre, LinesAreKept, QueueParts DEF OrderRests,
       QueueIsTyped, Watchers

LEMMA DropsIsRight ==
    ASSUME QueueInv, Drops
    PROVE  QueueInv'
<1>3. PICK o \in Orders : o = OrderOf
    BY LineIs, QueueParts DEF AtLine, Drops, Watches
<1>4. /\ watcher.of \in Lines /\ offsets[watcher.of] < watcher.next
      /\ watcher.next \in Nat /\ watcher.upto \in Nat /\ posted[o] > 0
    BY <1>3, LineIs, QueueParts DEF AtLine, QueueIsTyped, WatcherIsAtALine, Drops, Watches
<1>5. /\ watcher' \in Watchers /\ watcher'.pc = "waits" /\ watcher'.of = watcher.of /\ watcher'.next = watcher.next
      /\ watcher'.upto = watcher.upto
    BY WatcherTurns, QueueParts DEF WatcherPCs, AtLine, Watchers, QueueIsTyped, Drops, Watches
<1>7. replies' \subseteq replies /\ replies' \subseteq QueueEvents /\ replies \subseteq QueueEvents /\ "watcher" \in QueueWriters
    BY QueueParts DEF QueueIsTyped, QueueWriters, Drops, Watches
<1>8. PICK w \in QueueWrites : writing' = Append(writing, w) /\ w.of = "watcher" /\ w.file = "pending" /\ w.replies = replies'
    BY <1>7, PersistsPending, QueueParts DEF Drops, Watches
<1>10. /\ QueueIsTyped' /\ ResultsAnswerLines' /\ WritesAreAwaited' /\ OrdersAreRight' /\ LinesGrow
       /\ \A a \in Lines : Len(inbox[a]) \in Nat /\ Len(inbox[a])' \in Nat
       /\ \A e \in QueueEvents : IsAReply(e) => IsAReply(e)'
       /\ \A i \in 0..Len(writing) : WatcherWritesAfter(i)'
    BY <1>5, <1>7, <1>8, WatcherWrites DEF Drops, Watches
<1>12. \A e : Ahead(e) => Ahead(e)'
    BY <1>10, AheadStays, <1>5 DEF ReadTo, Drops, Watches
<1>13. WatcherIsAtALine'
    BY <1>5, <1>4, <1>3, QueueParts DEF WatcherIsAtALine, AtLine, Line, OrderOf, Drops, Watches
<1>14. RepliesAreRight'
    BY <1>7, <1>10, RepliesGoOn, PersistsPending, QueueParts DEF Drops, Watches
<1>15. AnsweredHasNoReply'
    BY <1>10, StagesGoOn, <1>5, <1>7, PersistsPending, <1>3, QueueParts DEF AnsweredHasNoReply,
       RepliesAreRight, AreReplies, OrderOf, Line, Drops, Watches
<1>16. DueIsAhead'
    BY <1>4, <1>3, <1>12, DueGoesOn, <1>7, PersistsPending, QueueParts DEF DueIsAhead, Due, OrderOf,
       Drops, Watches
<1> QED
    BY <1>10, <1>13, <1>14, <1>15, <1>16 DEF QueueInv

LEMMA SavesIsRight ==
    ASSUME QueueInv, Saves
    PROVE  QueueInv'
<1>3. /\ watcher.of \in Lines /\ watcher.next \in Nat /\ watcher.upto \in Nat /\ watcher \in Watchers
      /\ offsets[watcher.of] < watcher.next /\ watcher.next <= watcher.upto + 1 /\ watcher.upto <= Len(results[watcher.of])
    BY QueueParts DEF QueueIsTyped, WatcherIsAtALine, Watchers, Saves, Watches
<1>5. PICK w : w = [of |-> "watcher", file |-> "offset", agent |-> watcher.of, replies |-> {}, offset |-> watcher.upto]
    OBVIOUS
<1>8. WritesGoOn
    BY <1>5, <1>3, WatcherTurns DEF WritesGoOn, saveOffset, QueueWrites, QueueWriters, WatcherPCs,
       Saves, Watches
<1>10. /\ QueueIsTyped' /\ ResultsAnswerLines' /\ WritesAreAwaited' /\ OrdersAreRight' /\ LinesGrow
       /\ \A a \in Lines : Len(inbox[a]) \in Nat /\ Len(inbox[a])' \in Nat
       /\ \A e \in QueueEvents : IsAReply(e) => IsAReply(e)'
    BY WatcherWrites, <1>5, <1>3, WatcherTurns, QueueParts DEF QueueIsTyped, saveOffset,
       QueueWrites, QueueWriters, WatcherPCs, Saves, Watches
<1>13. WatcherIsAtALine'
    BY <1>3, WatcherTurns DEF WatcherIsAtALine, AtLine, WatcherPCs, Saves, Watches
<1>15. AnsweredHasNoReply'
    BY <1>8, AnsweredGoesOn, <1>3, WatcherTurns, QueueParts DEF QueueIsTyped, WatcherPCs, Saves,
       Watches
<1>16. DueIsAhead'
    BY <1>8, DueGoesOn, <1>10, AheadStays, <1>3, WatcherTurns, QueueParts DEF DueIsAhead, Due,
       ReadTo, WatcherPCs, Saves, Watches
<1> QED
    BY <1>10, <1>13, <1>15, <1>16, <1>8, RepliesGoOn, QueueParts DEF QueueInv, Saves, Watches

(* The reply moves to the event of the delegation, whose line is ahead; on *)
(* disk it is still that of the line until the write ends.                 *)
LEMMA RemapsIsRight ==
    ASSUME QueueInv, Remaps
    PROVE  QueueInv'
<1>1. /\ QueueIsTyped /\ ResultsAnswerLines /\ WatcherIsAtALine
      /\ RepliesAreRight /\ AnsweredHasNoReply /\ DueIsAhead
    BY QueueParts
<1>2. /\ UNCHANGED <<submit, unread, batch, handled, working, inbox, taken, results, repliesOnDisk, offsets,
                     offsetsOnDisk, broken, up, posted, counted, repeats, unreached>>
      /\ watcher.pc = "remaps" /\ WatcherTo("remapped") /\ replies' = (replies \ {Line.event}) \cup {Delegated}
      /\ persistPending("watcher") /\ up
    BY DEF Remaps, Watches
<1>3. PICK o \in Orders : o = OrderOf
    BY <1>1, <1>2, LineIs DEF AtLine
<1>4. /\ watcher.of \in Lines /\ offsets[watcher.of] < watcher.next /\ watcher.next \in 1..Len(inbox[watcher.of])
      /\ watcher.next \in Nat /\ watcher.next > 0 /\ watcher.upto \in Nat /\ counted[o] > 0
      /\ inbox[watcher.of][watcher.next] = Line.event /\ Line.event[2] \in Nat /\ Line.event = Event(o, Line.event[2])
    BY <1>1, <1>2, <1>3, LineIs DEF AtLine, QueueIsTyped
<1>5. /\ watcher' \in Watchers /\ watcher'.pc = "remapped" /\ watcher'.of = watcher.of /\ watcher'.next = watcher.next
      /\ watcher'.upto = watcher.upto
    BY <1>1, <1>2, WatcherTurns DEF WatcherPCs, AtLine, Watchers, QueueIsTyped
<1>7. PICK d : d = Delegated
    OBVIOUS
<1>8. d \in QueueEvents /\ d[1] = o /\ d # Line.event /\ Ahead(d)
    BY <1>1, <1>2, <1>4, <1>3, <1>7, EventsAre DEF WatcherIsAtALine, MayDelegate, Delegated
<1>11. PICK w \in QueueWrites : writing' = Append(writing, w) /\ w.of = "watcher" /\ w.file = "pending" /\ w.replies = replies'
    BY <1>1, <1>2, PersistsPending, <1>8, <1>7 DEF QueueIsTyped, QueueWriters
<1>12. WritesGoOn
    BY <1>1, <1>2, PersistsPending, <1>8, <1>7 DEF QueueIsTyped, QueueWriters
<1>13. /\ QueueIsTyped' /\ ResultsAnswerLines' /\ WritesAreAwaited' /\ OrdersAreRight' /\ LinesGrow
       /\ \A a \in Lines : Len(inbox[a]) \in Nat /\ Len(inbox[a])' \in Nat
       /\ \A e \in QueueEvents : IsAReply(e) => IsAReply(e)'
       /\ \A i \in 0..Len(writing) : WatcherWritesAfter(i)'
    BY <1>2, <1>5, <1>11, WatcherWrites, <1>1, <1>8, <1>7 DEF QueueIsTyped, QueueWriters
<1>16. ASSUME NEW e, Ahead(e), e # Line.event PROVE Ahead(e)'
    BY <1>1, <1>4, <1>13, <1>16, AheadBeyond, <1>2, <1>5 DEF ReadTo
<1>19. RepliesAreRight'
  <2>1. IsAReply(d)'
      BY <1>2, <1>4, <1>8, <1>1, <1>3 DEF IsAReply, RepliesAreRight, AreReplies, OrderOf,
         AnsweredHasNoReply
  <2>2. ASSUME o \notin repeats, NEW f \in replies', f[1] = o PROVE f = d
      BY <1>1, <1>3, <2>2, <1>2, <1>7 DEF RepliesAreRight, AreReplies, OrderOf, AnsweredHasNoReply
  <2> QED
      BY <1>1, <1>2, <1>8, <1>12, <1>13, <2>1, <2>2, RepliesGoOn, <1>7
<1>20. AnsweredHasNoReply'
  <2>2. \A e \in replies' : e \in replies \/ e[1] \in repeats' \/ ~(posted'[e[1]] > 0)
      BY <1>2, <1>8, <1>1, <1>3, <1>7 DEF AnsweredHasNoReply, OrderOf
  <2> QED
      BY <1>1, <1>2, <1>12, <2>2, AnsweredGoesOn, <1>5, <1>8, <1>7 DEF QueueIsTyped, QueueWriters
<1>21. DueIsAhead'
  <2>1. SUFFICES ASSUME NEW q \in Orders, Due(q)'
                 PROVE  InMemory(q)' /\ \A i \in Stages' : IsWrittenBy(q, i)' => OnDisk(q, i)'
      BY DEF DueIsAhead
  <2>3. CASE q # o
    <3>2. \A e \in replies : e[1] = q => e \in replies'
        BY <1>3, <2>3, <1>2, <1>7 DEF OrderOf
    <3>3. \A e : e[1] = q /\ Ahead(e) => Ahead(e)'
        BY <1>16, <1>3, <2>3 DEF OrderOf
    <3> QED
        BY <1>1, <1>2, <1>12, <2>1, <3>2, <3>3, DueGoesOn DEF Due
  <2>4. CASE q = o
    <3>3. ASSUME NEW i \in Stages', IsWrittenBy(q, i)' PROVE OnDisk(q, i)'
      <4>2. CASE /\ i \in 0..Len(writing) /\ Kept(i)' = Kept(i) /\ i \in Stages
                 /\ \A x : (\E j \in 1..Len(writing') : j <= i /\ writing'[j].of = x) =>
                           \E j \in 1..Len(writing) : j <= i /\ writing[j].of = x
        <5>3. PICK e \in Kept(i) \cap replies : e[1] = q /\ Ahead(e)
            BY <1>2, <1>1, <4>2, <3>3, <2>1 DEF OnDisk, IsMoving, DueIsAhead, IsWrittenBy, Due
        <5>4. CASE e = Line.event
            BY <5>4, <1>5, <1>13, <2>4, <4>2, <1>2, <1>3 DEF OnDisk, IsMoving, Line, OrderOf
        <5>5. CASE e # Line.event
            BY <1>16, <4>2, <5>3, <5>5, <1>2, <1>7 DEF OnDisk
        <5> QED
            BY <5>4, <5>5
      <4>3. CASE Kept(i)' = replies'
          BY <4>3, <1>8, <1>16, <2>4, <1>2, <1>7 DEF OnDisk
      <4> QED
          BY <1>1, <1>12, <3>3, <4>2, <4>3, StagesGoOn DEF Stages
    <3> QED
        BY <3>3, <1>8, <1>16, <2>4, <1>2, <1>7 DEF InMemory
  <2> QED
      BY <2>3, <2>4
<1> QED
    BY <1>13, <1>19, <1>20, <1>21, <1>1, <1>2, <1>5 DEF QueueInv, WatcherIsAtALine, AtLine

-----------------------------------------------------------------------------
(* The first of the writes ends, or is rejected.                           *)

LEMMA WritesPop ==
    ASSUME QueueIsTyped, writing # <<>>, writing' = Tail(writing)
    PROVE  /\ Len(writing) \in Nat /\ Len(writing) > 0 /\ writing' \in Seq(QueueWrites) /\ Len(writing') = Len(writing) - 1
           /\ Head(writing) = writing[1] /\ writing[1] \in QueueWrites
           /\ \A i \in 1..Len(writing') : i + 1 \in 1..Len(writing) /\ writing'[i] = writing[i + 1]
           /\ \A i \in 1..Len(writing') : Kept(i)' = Kept(i + 1) /\ (i \in Stages' => i + 1 \in Stages)
           /\ \A i \in 0..Len(writing') : WatcherWritesAfter(i + 1) => WatcherWritesAfter(i)'
           /\ \A i \in 0..Len(writing') : \A o :
                 (\E j \in 1..Len(writing') : j <= i /\ writing'[j].of = o) =>
                 \E j \in 1..Len(writing) : j <= i + 1 /\ writing[j].of = o
BY WritesAre DEF Kept, Stages, WatcherWritesAfter

(* Where the order goes on whose write it was; the others rest.            *)
LEMMA SubmitGoesOn ==
    ASSUME QueueIsTyped, NEW who \in QueueWriters, NEW rejected \in BOOLEAN, submit' = SubmitAfter(who, rejected)
    PROVE  /\ submit' \in [Orders -> SubmitPCs]
           /\ \A o \in Orders : o # who => submit'[o] = submit[o]
           /\ who \in Orders => /\ submit'[who] \in {"ended", "unseen", "marks"}
                                /\ submit'[who] = "ended" => who \in SlackOrders
                                /\ submit'[who] = "marks" => who \in GithubOrders
                                /\ submit'[who] = "unseen" => rejected
BY LinesAreTwo DEF QueueIsTyped, SubmitAfter, SubmitPCs

(* The remaining writes are awaited, once the one that ended is not.       *)
LEMMA PopIsAwaited ==
    ASSUME QueueIsTyped, WritesAreAwaited, writing # <<>>, writing' = Tail(writing),
           \A o \in Orders : o # writing[1].of => submit'[o] = submit[o],
           writing[1].of # "watcher" => watcher' = watcher
    PROVE  WritesAreAwaited' /\ \A i \in 1..Len(writing') : writing'[i].of # writing[1].of
BY DEF WritesAreAwaited

(* An order whose answer is to come still is written, in a stage that was  *)
(* there before.                                                           *)
LEMMA StillWritten ==
    ASSUME QueueIsTyped, WritesAreAwaited, writing # <<>>, writing' = Tail(writing), NEW o \in Orders,
           NEW i \in 0..Len(writing'), IsWrittenBy(o, i)', o # writing[1].of => submit'[o] = submit[o]
    PROVE  IsWrittenBy(o, i + 1)
<1>1. /\ Len(writing) \in Nat /\ Len(writing) > 0
      /\ (\E j \in 1..Len(writing') : j <= i /\ writing'[j].of = o) =>
         \E j \in 1..Len(writing) : j <= i + 1 /\ writing[j].of = o
    BY WritesPop
<1>2. CASE o = writing[1].of
  <2>1. submit[o] # "remembers"
      BY <1>1, <1>2 DEF WritesAreAwaited
  <2>2. 1 \in 1..Len(writing) /\ 1 <= i + 1
      BY <1>1
  <2> QED
      BY <1>2, <2>1, <2>2 DEF IsWrittenBy
<1>3. CASE o # writing[1].of
    BY <1>1, <1>3 DEF IsWrittenBy
<1> QED
    BY <1>2, <1>3

(* A write of the watcher that is not the first is still under way.        *)
LEMMA WatcherStillWrites ==
    ASSUME QueueIsTyped, WritesAreAwaited, writing # <<>>, writing' = Tail(writing),
           NEW i \in 0..Len(writing'), WatcherWritesAfter(i + 1)
    PROVE  WatcherWritesAfter(i)' /\ writing[1].of # "watcher"
<1>1. Len(writing) \in Nat /\ Len(writing) > 0 /\ WatcherWritesAfter(i)'
    BY WritesPop
<1>2. PICK j \in 1..Len(writing) : i + 1 < j /\ writing[j].of = "watcher"
    BY DEF WatcherWritesAfter
<1>3. j # 1 /\ 1 \in 1..Len(writing)
    BY <1>1, <1>2
<1>4. writing[1].of # writing[j].of
    BY <1>3 DEF WritesAreAwaited
<1> QED
    BY <1>1, <1>2, <1>4

LEMMA RestsIs == Rests \in Watchers /\ Rests.pc = "rests"
BY LinesAreTwo DEF WatcherPCs, Watchers, Rests

(* Where the watcher goes on whose write has ended.                        *)
LEMMA WatcherGoesOn ==
    ASSUME QueueIsTyped, ResultsAnswerLines, WatcherIsAtALine, WritesAreAwaited, writing # <<>>,
           watcher' = WatcherAfter(writing[1], FALSE), UNCHANGED <<results, posted>>,
           offsets' = IF writing[1].file = "offset" THEN [offsets EXCEPT ![writing[1].agent] = writing[1].offset] ELSE offsets,
           offsetsOnDisk' = IF writing[1].file = "offset" THEN [offsetsOnDisk EXCEPT ![writing[1].agent] = writing[1].offset]
                            ELSE offsetsOnDisk
    PROVE  /\ watcher' \in Watchers
           /\ offsets' \in [Lines -> Nat] /\ offsetsOnDisk' \in [Lines -> Nat]
           /\ \A a \in Lines : ReadTo(a)' = ReadTo(a)
           /\ \A a \in Lines : \/ offsets'[a] = offsets[a] /\ offsetsOnDisk'[a] = offsetsOnDisk[a]
                               \/ offsetsOnDisk'[a] = offsets'[a] /\ offsets'[a] <= Len(results[a])
           /\ watcher'.pc \in {"rests", "notices", "debriefs"} \/ watcher' = watcher
           /\ watcher'.pc \in {"notices", "debriefs"} => /\ watcher'.of = watcher.of /\ watcher'.next = watcher.next
                                                         /\ watcher'.upto = watcher.upto
           /\ watcher'.pc \in {"notices", "debriefs"} /\ watcher' # watcher => watcher.pc \in {"remapped", "waits"}
           /\ watcher'.pc = "debriefs" /\ watcher' # watcher => watcher.pc = "waits"
           /\ writing[1].of # "watcher" => watcher' = watcher
           /\ writing[1].of = "watcher" => watcher.pc \in {"waits", "remapped", "saves"}
           /\ writing[1].file = "offset" => watcher.pc = "saves" /\ writing[1].of = "watcher"
<1>1. PICK w \in QueueWrites : w = writing[1] /\ 1 \in 1..Len(writing)
    BY WritesAre
<1>5. CASE w.of # "watcher"
    BY <1>1, <1>5, ReadToRests, LinesAreTwo DEF WatcherAfter, QueueIsTyped, Watchers, QueueWrites,
       QueueWriters, WritesAreAwaited
<1>6. CASE w.of = "watcher" /\ w.file = "pending"
  <2>3. PICK to \in {"notices", "debriefs"} : to = IF watcher.pc = "remapped" THEN "notices" ELSE "debriefs"
      OBVIOUS
  <2>6. /\ watcher' \in Watchers /\ watcher'.pc = to /\ watcher'.of = watcher.of /\ watcher'.next = watcher.next
        /\ watcher'.upto = watcher.upto
      BY WatcherTurns, <1>1, <1>6, <2>3 DEF WatcherPCs, AtLine, WatcherAfter, WatcherTo,
         QueueIsTyped, Watchers
  <2> QED
      BY <1>1, <1>6, <2>3, <2>6 DEF ReadTo, QueueIsTyped, Watchers, WritesAreAwaited
<1>7. CASE w.of = "watcher" /\ w.file = "offset"
  <2>3. watcher' \in Watchers /\ watcher'.pc = "rests"
      BY RestsIs, <1>1, <1>7 DEF WatcherAfter
  <2>4. watcher.of \in Lines /\ watcher.upto \in Nat /\ watcher.next \in Nat
      BY DEF QueueIsTyped
  <2>7. /\ offsets' \in [Lines -> Nat] /\ offsetsOnDisk' \in [Lines -> Nat]
        /\ offsets'[watcher.of] = watcher.upto /\ offsetsOnDisk'[watcher.of] = watcher.upto
        /\ \A a \in Lines : a # watcher.of => offsets'[a] = offsets[a] /\ offsetsOnDisk'[a] = offsetsOnDisk[a]
      BY <2>4, <1>1, <1>7 DEF QueueIsTyped, Watchers, WritesAreAwaited
  <2>8. \A a \in Lines : ReadTo(a)' = ReadTo(a)
      BY <2>3, <2>4, <2>7, <1>7, <1>1 DEF ReadTo, WatcherIsAtALine, WritesAreAwaited
  <2> QED
      BY <1>1, <1>7, <2>3, <2>7, <2>8 DEF WatcherIsAtALine, WritesAreAwaited
<1> QED
    BY <1>5, <1>6, <1>7, LinesAreTwo DEF QueueWrites, QueueWriters

LEMMA WriteEndsIsRight ==
    ASSUME QueueInv, WriteEnds
    PROVE  QueueInv'
<1>1. /\ QueueIsTyped /\ ResultsAnswerLines /\ WatcherIsAtALine /\ WritesAreAwaited
      /\ OrdersAreRight /\ RepliesAreRight /\ AnsweredHasNoReply /\ DueIsAhead
    BY QueueParts
<1>2. /\ UNCHANGED <<unread, batch, handled, working, inbox, taken, results, replies, broken, up, posted, counted, repeats,
                     unreached>>
      /\ writing # <<>> /\ writing' = Tail(writing) /\ up
    BY DEF WriteEnds
<1>4. PICK w \in QueueWrites : w = writing[1]
    BY <1>1, <1>2, WritesPop
<1>5. /\ repliesOnDisk' = IF w.file = "pending" THEN w.replies ELSE repliesOnDisk
      /\ offsets' = IF writing[1].file = "offset" THEN [offsets EXCEPT ![writing[1].agent] = writing[1].offset] ELSE offsets
      /\ offsetsOnDisk' = IF writing[1].file = "offset" THEN [offsetsOnDisk EXCEPT ![writing[1].agent] = writing[1].offset]
                          ELSE offsetsOnDisk
      /\ submit' = SubmitAfter(w.of, FALSE) /\ watcher' = WatcherAfter(writing[1], FALSE)
    BY <1>4, <1>1, <1>2, WritesPop DEF WriteEnds
<1>6. /\ watcher' \in Watchers /\ offsets' \in [Lines -> Nat] /\ offsetsOnDisk' \in [Lines -> Nat]
      /\ \A a \in Lines : ReadTo(a)' = ReadTo(a)
      /\ \A a \in Lines : \/ offsets'[a] = offsets[a] /\ offsetsOnDisk'[a] = offsetsOnDisk[a]
                          \/ offsetsOnDisk'[a] = offsets'[a] /\ offsets'[a] <= Len(results[a])
      /\ watcher'.pc \in {"rests", "notices", "debriefs"} \/ watcher' = watcher
      /\ watcher'.pc \in {"notices", "debriefs"} => /\ watcher'.of = watcher.of /\ watcher'.next = watcher.next
                                                    /\ watcher'.upto = watcher.upto
      /\ watcher'.pc \in {"notices", "debriefs"} /\ watcher' # watcher => watcher.pc \in {"remapped", "waits"}
      /\ watcher'.pc = "debriefs" /\ watcher' # watcher => watcher.pc = "waits"
      /\ w.of # "watcher" => watcher' = watcher
      /\ w.of = "watcher" => watcher.pc \in {"waits", "remapped", "saves"}
      /\ w.file = "offset" => watcher.pc = "saves" /\ w.of = "watcher"
    BY <1>1, <1>2, <1>4, <1>5, WatcherGoesOn
<1>7. /\ submit' \in [Orders -> SubmitPCs]
      /\ \A o \in Orders : o # w.of => submit'[o] = submit[o]
      /\ w.of \in Orders => /\ submit'[w.of] \in {"ended", "marks"}
                            /\ submit'[w.of] = "ended" => w.of \in SlackOrders
                            /\ submit'[w.of] = "marks" => w.of \in GithubOrders
    BY <1>1, <1>5, SubmitGoesOn DEF QueueWrites
<1>9. \A o \in Orders : submit'[o] = "remembers" => submit[o] = "remembers"
    BY <1>7
<1>10. QueueIsTyped'
    BY <1>1, <1>5, <1>2, <1>6, <1>7, WritesPop DEF QueueWrites, QueueIsTyped, Watchers
<1>11. ResultsAnswerLines'
    BY <1>1, <1>6, <1>2 DEF ResultsAnswerLines
<1>12. \/ Line' = Line /\ OrderOf' = OrderOf
       \/ watcher'.pc = "rests"
    BY <1>2, <1>6 DEF Line, OrderOf
<1>14. \A e : Ahead(e) => Ahead(e)'
    BY <1>6, AheadStays, <1>1, <1>2, LinesOf DEF LinesGrow
<1>15. WatcherIsAtALine'
  <2>1. CASE watcher'.pc = "rests"
      BY <2>1 DEF WatcherIsAtALine, AtLine
  <2>2. CASE watcher' = watcher /\ watcher.pc # "rests"
    <3>1. offsets'[watcher.of] = offsets[watcher.of]
        BY <1>6, <1>4, <1>5, <2>2, RestsIs DEF WatcherAfter
    <3> QED
        BY <1>1, <1>2, <2>2, <3>1, <1>14, MayDelegateStays DEF WatcherIsAtALine, Ahead, Line,
           OrderOf, Delegated
  <2>3. CASE watcher'.pc \in {"notices", "debriefs"} /\ watcher' # watcher
      BY <1>6, <2>3, <1>4, <1>5, <1>1, <1>2, <1>12 DEF WatcherIsAtALine, AtLine
  <2> QED
      BY <1>6, <2>1, <2>2, <2>3
<1>16. WritesAreAwaited'
    BY <1>1, <1>2, <1>4, <1>6, <1>7, PopIsAwaited
<1>17. OrdersAreRight'
    BY <1>2, <1>7, <1>1, LinesAreTwo DEF OrdersAreRight, OrderIsRight
<1>18. ASSUME NEW i \in 0..Len(writing')
       PROVE  \/ /\ Kept(i)' = Kept(i + 1) /\ i + 1 \in 0..Len(writing) /\ (i \in Stages' => i + 1 \in Stages)
              \/ Kept(i)' = Kept(0) /\ i = 0 /\ watcher.pc = "saves" /\ w.of = "watcher"
    BY <1>5, <1>4, <1>6, <1>1, <1>2, WritesPop DEF Kept, Stages, QueueWrites
<1>19. RepliesAreRight'
  <2>4. ASSUME NEW i \in 0..Len(writing') PROVE AreReplies(Kept(i))'
      BY <1>18, <1>1, WritesAre, <1>2, <1>9, EventsAre DEF RepliesAreRight, AreReplies, IsAReply
  <2> QED
      BY <2>4, <1>1, <1>2, <1>9, EventsAre DEF RepliesAreRight, AreReplies, QueueIsTyped, IsAReply
<1>21. AnsweredHasNoReply'
    BY <1>6, <1>12, <1>1, <1>2, <1>18, <1>4, WatcherStillWrites DEF AnsweredHasNoReply
<1>22. DueIsAhead'
  <2>1. SUFFICES ASSUME NEW o \in Orders, Due(o)'
                 PROVE  InMemory(o)' /\ \A i \in Stages' : IsWrittenBy(o, i)' => OnDisk(o, i)'
      BY DEF DueIsAhead
  <2>5. ASSUME NEW i \in Stages', IsWrittenBy(o, i)' PROVE OnDisk(o, i)'
    <3>2. ASSUME NEW e, e \in Kept(i)', e \in replies, e[1] = o, Ahead(e) PROVE OnDisk(o, i)'
        BY <1>2, <1>14, <3>2 DEF OnDisk
    <3>3. CASE /\ Kept(i)' = Kept(i + 1) /\ i + 1 \in 0..Len(writing) /\ i + 1 \in Stages
      <4>1. IsWrittenBy(o, i + 1)
          BY <1>1, <1>2, <1>4, <1>7, <2>5, StillWritten DEF Stages
      <4>3. CASE IsMoving(o, i + 1)
          BY <4>3, <1>1, <1>2, <1>4, WatcherStillWrites, <1>6, <3>3, <2>5 DEF IsMoving, Line,
             OrderOf, OnDisk, Stages
      <4> QED
          BY <3>2, <3>3, <4>3, <4>1, <1>1, <1>2, <2>1 DEF OnDisk, DueIsAhead, Due
    <3>4. CASE Kept(i)' = Kept(0) /\ i = 0 /\ watcher.pc = "saves" /\ w.of = "watcher"
        BY <2>5, <3>4, LinesAreTwo, <1>7, <3>2, <1>1, <1>2, <2>1 DEF IsWrittenBy, Stages, IsMoving,
           OnDisk, DueIsAhead, Due
    <3> QED
        BY <1>18, <2>5, <3>3, <3>4 DEF Stages
  <2> QED
      BY <2>5, <1>2, <1>14, <1>7, <1>1, <2>1, <1>4, WritesPop DEF InMemory, DueIsAhead, Due,
         WritesAreAwaited
<1> QED
    BY <1>10, <1>11, <1>15, <1>16, <1>17, <1>19, <1>21, <1>22 DEF QueueInv

(* What a crash, or a write that fails, may cut short.                     *)
LEMMA CutShortIs ==
    ASSUME QueueIsTyped, ResultsAnswerLines, WatcherIsAtALine
    PROVE  /\ CutShort \subseteq Orders
           /\ \A o \in Orders : submit[o] \in {"forgets", "remembers", "persists", "marks"} => o \in CutShort
           /\ handled \cap unread \subseteq CutShort
           /\ watcher.pc \in {"drops", "waits"} => OrderOf \in CutShort
BY LinesAreTwo, LineIs DEF QueueIsTyped, AtLine, CutShort

(* Nothing that is answered has a reply left, when what the watcher was    *)
(* answering is cut short.                                                 *)
LEMMA CutShortIsAnswered ==
    ASSUME QueueIsTyped, ResultsAnswerLines, WatcherIsAtALine, AnsweredHasNoReply, repeats' = repeats \cup CutShort,
           NEW e, e[1] \notin repeats', posted[e[1]] > 0, e \in replies \/ \E i \in 0..Len(writing) : e \in Kept(i)
    PROVE  FALSE
BY CutShortIs DEF AnsweredHasNoReply

LEMMA WriteIsRejectedIsRight ==
    ASSUME QueueInv, WriteIsRejected
    PROVE  QueueInv'
<1>2. /\ UNCHANGED <<unread, batch, handled, working, inbox, taken, results, replies, repliesOnDisk, offsets, offsetsOnDisk,
                     up, posted, counted>>
      /\ writing # <<>> /\ writing' = Tail(writing) /\ up /\ broken' = TRUE /\ repeats' = repeats \cup CutShort
      /\ unreached' = unreached \cup {e[1] : e \in replies \ repliesOnDisk}
    BY DEF WriteIsRejected
<1>4. PICK w \in QueueWrites : w = writing[1]
    BY <1>2, WritesPop, QueueParts
<1>6. watcher' = IF w.of # "watcher" THEN watcher ELSE Rests
    BY <1>4, <1>2, WritesPop, QueueParts DEF WatcherAfter, WriteIsRejected
<1>7. /\ submit' \in [Orders -> SubmitPCs]
      /\ \A o \in Orders : o # w.of => submit'[o] = submit[o]
      /\ w.of \in Orders => /\ submit'[w.of] \in {"ended", "unseen", "marks"}
                            /\ submit'[w.of] = "ended" => w.of \in SlackOrders
                            /\ submit'[w.of] = "marks" => w.of \in GithubOrders
    BY SubmitGoesOn, <1>4, <1>2, WritesPop, QueueParts DEF QueueWrites, WriteIsRejected
<1>8. w.of \in Orders => submit[w.of] \in {"forgets", "persists"}
    BY <1>4, <1>2, WritesPop, QueueParts DEF WritesAreAwaited
<1>11. QueueIsTyped'
  <2>2. unreached' \subseteq Orders
      BY <1>2, EventsAre, QueueParts DEF QueueIsTyped
  <2> QED
      BY <1>2, <1>7, <2>2, <1>6, RestsIs, CutShortIs, WritesPop, QueueParts DEF QueueIsTyped,
         Watchers
<1>12. /\ ResultsAnswerLines' /\ LinesGrow /\ \A a \in Lines : Len(inbox[a]) \in Nat /\ Len(inbox[a])' \in Nat
    BY <1>2, LinesAreKept, QueueParts
<1>13. \A a \in Lines : ReadTo(a)' <= ReadTo(a) /\ ReadTo(a)' \in Nat
    BY ReadToIs, LinesOf, <1>2, RestsIs, <1>6, QueueParts DEF ReadTo
<1>14. ASSUME NEW e, Ahead(e) PROVE Ahead(e)'
    BY ReadToIs, <1>12, <1>13, <1>14, AheadStays, QueueParts
<1>16. WatcherIsAtALine'
  <2>1. CASE watcher' = Rests
      BY <2>1, RestsIs DEF WatcherIsAtALine, AtLine
  <2>2. CASE watcher' = watcher
      BY <1>2, <2>2, <1>14, QueueParts DEF Line, OrderOf, Delegated, WatcherIsAtALine
  <2> QED
      BY <1>6, <2>1, <2>2
<1>17. WritesAreAwaited'
    BY <1>2, <1>4, <1>6, <1>7, PopIsAwaited, QueueParts
<1>18. OrdersAreRight'
    BY <1>2, <1>7, LinesAreTwo, <1>8, CutShortIs, QueueParts DEF OrdersAreRight, OrderIsRight
<1>19. ASSUME NEW i \in 0..Len(writing')
       PROVE  \/ /\ Kept(i)' = Kept(i + 1) /\ i + 1 \in 0..Len(writing) /\ (i \in Stages' => i + 1 \in Stages)
              \/ Kept(i)' = repliesOnDisk /\ Kept(i)' = Kept(0)
    BY <1>2, WritesPop, QueueParts DEF Kept
<1>20. ASSUME NEW i \in 0..Len(writing') PROVE \E k \in 0..Len(writing) : Kept(i)' = Kept(k)
    BY <1>19
<1>21. RepliesAreRight'
  <2>4. ASSUME NEW i \in 0..Len(writing') PROVE AreReplies(Kept(i))'
      BY <1>20, WritesAre, <1>2, EventsAre, <1>7, QueueParts DEF RepliesAreRight, AreReplies,
         IsAReply
  <2> QED
      BY <2>4, <1>2, EventsAre, <1>7, QueueParts DEF RepliesAreRight, AreReplies, QueueIsTyped,
         IsAReply
<1>22. AnsweredHasNoReply'
    BY <1>6, RestsIs, <1>2, CutShortIsAnswered, <1>20, QueueParts DEF AnsweredHasNoReply, Line,
       OrderOf
<1>23. DueIsAhead'
  <2>1. SUFFICES ASSUME NEW o \in Orders, Due(o)'
                 PROVE  InMemory(o)' /\ \A i \in Stages' : IsWrittenBy(o, i)' => OnDisk(o, i)'
      BY DEF DueIsAhead
  <2>5. ASSUME NEW i \in Stages', IsWrittenBy(o, i)' PROVE OnDisk(o, i)'
    <3>2. CASE Kept(i)' = repliesOnDisk
        BY <2>5, <1>2, <3>2, <1>14, <1>7, <1>8, <2>1, QueueParts DEF InMemory, IsWrittenBy, OnDisk,
           DueIsAhead, Due
    <3>3. CASE Kept(i)' = Kept(i + 1) /\ i + 1 \in 0..Len(writing) /\ i + 1 \in Stages
      <4>1. IsWrittenBy(o, i + 1)
          BY <1>2, <1>4, <1>7, <2>5, StillWritten, QueueParts DEF Stages
      <4>3. CASE IsMoving(o, i + 1)
        <5>2. WatcherWritesAfter(i)' /\ w.of # "watcher"
            BY <1>2, <1>4, WatcherStillWrites, <4>3, <2>5, QueueParts DEF IsMoving, Stages
        <5> QED
            BY <3>3, <5>2, <1>6, <4>3, <1>2 DEF OnDisk, IsMoving, Line, OrderOf
      <4>4. CASE \E e \in Kept(i + 1) \cap replies : e[1] = o /\ Ahead(e)
          BY <1>2, <1>14, <3>3, <4>4 DEF OnDisk
      <4> QED
          BY <4>3, <4>4, <3>3, <4>1, <1>2, <2>1, QueueParts DEF OnDisk, DueIsAhead, Due
    <3> QED
        BY <1>19, <2>5, <3>2, <3>3 DEF Stages
  <2> QED
      BY <2>5, <1>2, <1>14, <1>7, <1>8, <2>1, QueueParts DEF InMemory, DueIsAhead, Due
<1> QED
    BY <1>11, <1>12, <1>16, <1>17, <1>18, <1>21, <1>22, <1>23 DEF QueueInv

-----------------------------------------------------------------------------
(* The process ends, and starts with what is on disk.                      *)

LEMMA ProcessEndsIsRight ==
    ASSUME QueueInv, ProcessEnds
    PROVE  QueueInv'
<1>7. OrdersAreRight'
    BY CutShortIs, QueueParts DEF OrdersAreRight, OrderIsRight, ProcessEnds
<1>9. RepliesAreRight'
    BY RepliesGoOn, QueueParts DEF IsAReply, WritesGoOn, ProcessEnds
<1>10. AnsweredHasNoReply'
    BY CutShortIsAnswered, LinesRest, QueueParts DEF AnsweredHasNoReply, Kept, ProcessEnds
<1>11. DueIsAhead'
    BY DueGoesOn, LinesRest, QueueParts DEF DueIsAhead, Due, WritesGoOn, ProcessEnds
<1> QED
    BY <1>7, <1>9, <1>10, <1>11, LinesRest, CutShortIs, QueueParts DEF QueueInv, WritesAreAwaited,
       QueueIsTyped, ProcessEnds

(* The reply that is on disk is one that a line past the read offset       *)
(* answers.                                                                *)
LEMMA StoredIsAhead ==
    ASSUME QueueInv, NEW o \in Orders, Due(o), submit[o] \notin {"remembers", "persists"}
    PROVE  \E e \in repliesOnDisk : /\ e[1] = o
                                    /\ \E a \in Lines : \E i \in 1..Len(inbox[a]) : offsets[a] < i /\ inbox[a][i] = e
BY QueueParts, WritesAre, LineIs, LinesOf, ReadToIs DEF IsWrittenBy, Stages, Kept, DueIsAhead,
   IsMoving, AtLine, OrderOf, Ahead, OnDisk

LEMMA ProcessStartsIsRight ==
    ASSUME QueueInv, ProcessStarts
    PROVE  QueueInv'
<1>2. /\ UNCHANGED <<unread, working, inbox, taken, results, repliesOnDisk, posted, counted, repeats>>
      /\ ~up /\ up' = TRUE /\ replies' = repliesOnDisk /\ offsets' = [a \in Lines |-> loadOffset(a)]
      /\ offsetsOnDisk' = [a \in Lines |-> IF Len(results[a]) > 0 THEN loadOffset(a) ELSE offsetsOnDisk[a]]
      /\ batch' = {} /\ handled' = {} /\ writing' = <<>> /\ broken' = FALSE /\ watcher' = Rests
    BY DEF ProcessStarts
<1>3. /\ submit' = [o \in Orders |-> CASE submit[o] = "unseen" -> "unseen"
                                       [] o \in GithubOrders -> "unseen"
                                       [] OTHER -> "ended"]
      /\ unreached' = unreached \cup {e[1] : e \in {x \in repliesOnDisk : \E a \in Lines :
                        offsetsOnDisk[a] = NoOffset /\ \E i \in 1..Len(results[a]) : results[a][i].event = x}}
    BY DEF ProcessStarts
<1>5. writing' \in Seq(QueueWrites) /\ Len(writing') = 0
    BY <1>2
<1>7. unreached' \subseteq Orders /\ unreached \subseteq unreached'
    BY <1>3, EventsAre, QueueParts DEF QueueIsTyped
<1>8. QueueIsTyped'
    BY <1>2, RestsIs, <1>5, <1>7, LinesOf, <1>3, QueueParts DEF QueueIsTyped, Watchers,
       ResultsAnswerLines, loadOffset, SubmitPCs
<1>9. ResultsAnswerLines'
    BY <1>2, QueueParts DEF loadOffset, ResultsAnswerLines
<1>10. watcher'.pc = "rests"
    BY <1>2, RestsIs
<1>13. OrdersAreRight'
    BY <1>2, <1>3, QueueParts DEF OrdersAreRight, QueueIsTyped, OrderIsRight, SubmitPCs
<1>14. AreReplies(repliesOnDisk) /\ repliesOnDisk \subseteq QueueEvents
    BY QueueParts DEF Kept, RepliesAreRight, QueueIsTyped
<1>16. RepliesAreRight'
    BY <1>2, <1>7, EventsAre, <1>14, <1>5, <1>3 DEF IsAReply, AreReplies, RepliesAreRight, Kept,
       SubmitPCs
<1>17. AnsweredHasNoReply'
    BY <1>2, <1>10, QueueParts DEF Kept, AnsweredHasNoReply
<1>18. DueIsAhead'
  <2>1. SUFFICES ASSUME NEW o \in Orders, Due(o)'
                 PROVE  InMemory(o)' /\ \A i \in Stages' : IsWrittenBy(o, i)' => OnDisk(o, i)'
      BY DEF DueIsAhead
  <2>4. PICK e \in repliesOnDisk :
            e[1] = o /\ \E a \in Lines : \E i \in 1..Len(inbox[a]) : offsets[a] < i /\ inbox[a][i] = e
      BY StoredIsAhead, <1>2, <1>7, <2>1, QueueParts DEF OrdersAreRight, OrderIsRight, Due
  <2>5. PICK a \in Lines : \E i \in 1..Len(inbox[a]) : offsets[a] < i /\ inbox[a][i] = e
      BY <2>4
  <2>6. PICK i \in 1..Len(inbox[a]) : offsets[a] < i /\ inbox[a][i] = e
      BY <2>5
  <2>7. loadOffset(a) < i
    <3>1. CASE offsetsOnDisk[a] # NoOffset
        BY <2>6, <3>1, LinesOf, QueueParts DEF ResultsAnswerLines, loadOffset
    <3>2. CASE offsetsOnDisk[a] = NoOffset
      <4>1. ~(i \in 1..Len(results[a]))
          BY <2>6, <1>3, <2>4, <3>2, <1>2, <1>7, <2>1, QueueParts DEF ResultsAnswerLines, Due
      <4> QED
          BY <2>6, <3>2, <4>1, LinesOf, QueueParts DEF ResultsAnswerLines, loadOffset
    <3> QED
        BY <3>1, <3>2
  <2>10. ASSUME NEW j \in Stages' PROVE OnDisk(o, j)'
      BY <2>10, <1>2, <2>4, <1>10, <2>6, <2>7, <1>5 DEF Stages, OnDisk, ReadTo, Ahead, Kept
  <2> QED
      BY <2>10, <1>2, <2>4, <1>10, <2>6, <2>7 DEF InMemory, ReadTo, Ahead
<1> QED
    BY <1>8, <1>9, <1>13, <1>16, <1>17, <1>18, <1>5, <1>10 DEF QueueInv, WritesAreAwaited,
       WatcherIsAtALine, AtLine

-----------------------------------------------------------------------------
(* The queue's specification.                                              *)

LEMMA QueueStarts ==
    ASSUME QueueInit
    PROVE  QueueInv
<1>1. PICK arriving \in Arrivals :
        submit = [o \in Orders |-> IF o \in arriving THEN "unseen" ELSE "ended"] /\ unread = arriving \cap GithubOrders
    BY DEF QueueInit
<1>2. /\ batch = {} /\ handled = {} /\ working = {} /\ replies = {} /\ repliesOnDisk = {} /\ repeats = {} /\ unreached = {}
      /\ inbox = [a \in Lines |-> <<>>] /\ taken = [a \in Lines |-> 0] /\ results = [a \in Lines |-> <<>>]
      /\ offsets = [a \in Lines |-> 0] /\ writing = <<>> /\ broken = FALSE /\ watcher = Rests /\ up = TRUE
      /\ posted = [o \in Orders |-> 0] /\ counted = [o \in Orders |-> 0]
      /\ \E x \in {0, NoOffset} : offsetsOnDisk = [a \in Lines |-> x]
    BY DEF QueueInit
<1>4. <<>> \in Seq(Events) /\ <<>> \in Seq(ResultLines) /\ <<>> \in Seq(QueueWrites)
    OBVIOUS
<1>5. offsetsOnDisk \in [Lines -> Nat] /\ \A a \in Lines : offsetsOnDisk[a] \in {0, NoOffset}
    BY <1>2, LinesAreTwo
<1>6. QueueIsTyped
  <2>3. taken \in [Lines -> Nat] /\ offsets \in [Lines -> Nat] /\ posted \in [Orders -> 0..2] /\ counted \in [Orders -> 0..2]
      BY <1>2
  <2> QED
      BY <1>2, <1>5, <2>3, <1>4, RestsIs, <1>1 DEF QueueIsTyped, Watchers, SubmitPCs
<1>8. ResultsAnswerLines
    BY <1>5, LinesAreTwo, <1>2 DEF ResultsAnswerLines
<1>15. RepliesAreRight
    BY <1>2 DEF RepliesAreRight, AreReplies, Kept
<1>16. AnsweredHasNoReply
    BY <1>2, RestsIs DEF AnsweredHasNoReply, Kept
<1> QED
    BY <1>6, <1>8, <1>15, <1>16, <1>2, RestsIs, <1>1 DEF QueueInv, DueIsAhead, Due, OrderIsRight,
       OrdersAreRight, WritesAreAwaited, WatcherIsAtALine, AtLine, SubmitPCs

LEMMA QueueRests ==
    ASSUME QueueInv, UNCHANGED queueVars
    PROVE  QueueInv'
BY QueueParts, OrderGoesOn, HandlingMoves DEF queueVars, OrderRests, OrdersAreRight, QueueIsTyped

LEMMA QueueSteps ==
    ASSUME QueueInv, [QueueNext]_queueVars
    PROVE  QueueInv'
<1>1. ASSUME NEW o \in Orders, deliverAckDirectly(o) PROVE QueueInv'
    BY <1>1, DeliverAckDirectlyIsRight, AckFailsIsRight DEF deliverAckDirectly, Clears, StepTo
<1>2. ASSUME NEW o \in Orders,
             onMessage(o) \/ Handles(o) \/ AddsReaction(o) \/ annotate(o) \/ AppendsOrder(o) \/ Remembers(o) \/ MarksOffset(o)
      PROVE  QueueInv'
    BY <1>2, OnMessageIsRight, HandlesIsRight, AddsReactionIsRight, AnnotateIsRight, AppendsOrderIsRight,
       RemembersIsRight, MarksOffsetIsRight
<1>3. CASE PollsInbox \/ WriteEnds \/ WriteIsRejected
    BY <1>3, PollsInboxIsRight, WriteEndsIsRight, WriteIsRejectedIsRight
<1>4. ASSUME NEW a \in Lines, AgentAnswers(a) \/ drainResults(a) PROVE QueueInv'
    BY <1>4, AgentAnswersIsRight, DrainResultsIsRight
<1>5. CASE handleResultLine \/ Post \/ PostFails \/ Drops \/ sendDebrief
    BY <1>5, HandleResultLineIsRight, PostIsRight, PostFailsIsRight, DropsIsRight, SendDebriefIsRight
<1>6. CASE AppendsTask \/ Remaps \/ Notices \/ Saves
    BY <1>6, AppendsTaskIsRight, RemapsIsRight, NoticesIsRight, SavesIsRight
<1>7. CASE ProcessEnds \/ ProcessStarts
    BY <1>7, ProcessEndsIsRight, ProcessStartsIsRight
<1>8. CASE UNCHANGED queueVars
    BY <1>8, QueueRests
<1> QED
    BY <1>1, <1>2, <1>3, <1>4, <1>5, <1>6, <1>7, <1>8 DEF QueueNext

(* The invariant says of every order what the run checks.                  *)
LEMMA QueuedBy ==
    ASSUME QueueInv
    PROVE  QueuedIsAnsweredOnce
<1>2. QueueTypeOK
  <2>1. /\ submit \in [Orders -> SubmitPCs]
        /\ unread \subseteq GithubOrders /\ batch \subseteq GithubOrders /\ handled \subseteq GithubOrders
        /\ working \subseteq Orders /\ repeats \subseteq Orders /\ unreached \subseteq Orders
        /\ replies \subseteq QueueEvents /\ repliesOnDisk \subseteq QueueEvents
        /\ watcher.pc \in WatcherPCs /\ watcher.of \in Lines /\ up \in BOOLEAN /\ broken \in BOOLEAN
      BY QueueParts DEF QueueIsTyped
  <2> QED
      BY <2>1, WritesAre, QueueParts DEF QueueTypeOK, WatcherPCs, AtLine, QueueWrites, QueueWriters,
         ResultsAnswerLines
<1>3. AcceptedIsOnItsWay
  <2>1. SUFFICES ASSUME NEW o \in Orders, counted[o] > 0, posted[o] = 0, o \notin unreached,
                        submit[o] \notin {"remembers", "persists"}
                 PROVE  \E e \in repliesOnDisk : e[1] = o /\ Carried(e, Known(offsetsOnDisk))
      BY DEF AcceptedIsOnItsWay
  <2>3. PICK e \in repliesOnDisk :
            e[1] = o /\ \E a \in Lines : \E i \in 1..Len(inbox[a]) : offsets[a] < i /\ inbox[a][i] = e
      BY <2>1, StoredIsAhead DEF Due
  <2>4. PICK a \in Lines : \E i \in 1..Len(inbox[a]) : offsets[a] < i /\ inbox[a][i] = e
      BY <2>3
  <2>5. PICK i \in 1..Len(inbox[a]) : offsets[a] < i /\ inbox[a][i] = e
      BY <2>4
  <2>6. Len(inbox[a]) \in Nat /\ Len(results[a]) \in Nat /\ offsets[a] \in Nat /\ taken[a] = Len(results[a])
      BY LinesOf, QueueParts DEF ResultsAnswerLines
  <2>7. CASE i > taken[a]
      BY <2>6, <2>7, <2>3, <2>5 DEF Carried
  <2>8. CASE ~(i > taken[a])
    <3>3. i \in 1..Len(results[a]) /\ i \in (Known(offsetsOnDisk)[a] + 1)..Len(results[a])
        BY <2>5, <2>6, <2>8, LinesAreTwo, QueueParts DEF Known, ResultsAnswerLines
    <3> QED
        BY <2>3, <3>3, <2>5, QueueParts DEF Carried, ResultsAnswerLines
  <2> QED
      BY <2>7, <2>8
<1>4. AnsweredOnce /\ QueuedOnce
  <2>1. posted \in [Orders -> 0..2] /\ counted \in [Orders -> 0..2]
      BY QueueParts DEF QueueIsTyped
  <2>2. ASSUME NEW o \in Orders, o \notin repeats PROVE ~(posted[o] > 1) /\ ~(counted[o] > 1)
      BY <2>1, <2>2, QueueParts DEF OrdersAreRight, OrderIsRight
  <2> QED
      BY <2>2 DEF AnsweredOnce, QueuedOnce
<1> QED
    BY <1>2, <1>3, <1>4, QueueParts DEF QueuedIsAnsweredOnce, WorkingWhilePending, RepliesAreRight,
       AreReplies, IsAReply

(* An order that the bridge put into an inbox is on its way until it is    *)
(* answered: a reply that is on disk, and a line or a result past the      *)
(* stored offset, across restarts, delegations and results that are read   *)
(* again.  It is queued once and answered once, and shows as working while *)
(* its reply is pending (integrations/src/agent/queue.ts).                 *)
THEOREM QueueStaysAnsweredOnce == QueueSpec => []QueuedIsAnsweredOnce
<1>1. QueueInit => QueueInv
    BY QueueStarts
<1>2. QueueInv /\ [QueueNext]_queueVars => QueueInv'
    BY QueueSteps
<1>3. QueueInv => QueuedIsAnsweredOnce
    BY QueuedBy
<1> QED
    BY <1>1, <1>2, <1>3, PTL DEF QueueSpec

=============================================================================
