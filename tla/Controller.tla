----------------------------- MODULE Controller -----------------------------
(***************************************************************************)
(* The keyed reconciliation scheduler of agentctl/src/controller.rs, which *)
(* agentd runs twice: once for agents and once for sessions.               *)
(*                                                                         *)
(* A durable store holds one desired state per key, abstracted to a        *)
(* version number that every write raises; version 0 is a key that does    *)
(* not exist yet.  A pass over a key reads the key's version once and then *)
(* works on what it read.  Everything else is the scheduler: the bounded   *)
(* wakeup channel, the map of pending keys with the responses to answer,   *)
(* the set of running passes and the periodic repair scan.                 *)
(*                                                                         *)
(* The controller is one task.  Between two awaits it runs undisturbed, so *)
(* a handler and the start_pending that follows it are one step, and a     *)
(* pass completes only in a poll that found the channel empty, because the *)
(* select in run is biased towards the channel.                            *)
(***************************************************************************)
EXTENDS Integers, Sequences, FiniteSets

CONSTANTS
    Keys,            \* the resource keys, ordered (BTreeMap order)
    Requests,        \* the calls of Wakeup::reconcile, each made at most once
    NoRequest,       \* the absent response of a hint (None)
    NoKey,           \* the key of a call that has not been made
    QueueCapacity,   \* WAKEUP_QUEUE_CAPACITY
    MaxConcurrent,   \* MAX_CONCURRENT_RECONCILES
    MaxVersion,      \* bound: writes per key
    MaxRestarts      \* bound: daemon restarts

ASSUME KeysAreOrdered == Keys \subseteq Int /\ IsFiniteSet(Keys)
ASSUME CapacitiesArePositive ==
    /\ QueueCapacity \in Nat \ {0}
    /\ MaxConcurrent \in Nat \ {0}
    /\ MaxVersion \in Nat
    /\ MaxRestarts \in Nat

ASSUME NullValues == NoRequest \notin Requests /\ NoKey \notin Keys

Unread == -1

VARIABLES
    desired,    \* the store: version of each key's desired state
    queue,      \* the wakeup channel: requests in flight, oldest first
    blocked,    \* callers of reconcile waiting for channel capacity, in order
    pending,    \* keys of the pending map
    waiters,    \* responses held for each pending key
    running,    \* keys with a pass in reconciliations
    answering,  \* responses the running pass of a key will answer
    read,       \* version the running pass of a key has read, or Unread
    covered,    \* newest version a completed pass of a key has read
    loop,       \* where run is: "select" or "scanning" (awaiting list_keys)
    request,    \* per call: its state and key
    asked,      \* history: the key's version when the call was made
    seen,       \* history: the version read by the pass that answered the call
    restarts    \* bound counter

schedule == <<pending, waiters, running, answering, read>>
history == <<asked, seen>>
vars == <<desired, queue, blocked, pending, waiters, running, answering, read,
          covered, loop, request, asked, seen, restarts>>

Message == [key : Keys, response : Requests \cup {NoRequest}]
RequestState == [state : {"new", "blocked", "waiting", "answered", "cancelled"},
                 key : Keys \cup {NoKey}]

TypeOK ==
    /\ desired \in [Keys -> Nat]
    /\ queue \in Seq(Message)
    /\ Len(queue) <= QueueCapacity
    /\ blocked \in Seq(Requests)
    /\ pending \in SUBSET Keys
    /\ waiters \in [Keys -> SUBSET Requests]
    /\ running \in SUBSET Keys
    /\ answering \in [Keys -> SUBSET Requests]
    /\ read \in [Keys -> Nat \cup {Unread}]
    /\ covered \in [Keys -> Nat]
    /\ loop \in {"select", "scanning"}
    /\ request \in [Requests -> RequestState]
    /\ asked \in [Requests -> Nat]
    /\ seen \in [Requests -> Nat \cup {Unread}]
    /\ restarts \in Nat

-----------------------------------------------------------------------------
(* The store starts empty and run begins by scanning it.                   *)
Init ==
    /\ desired = [k \in Keys |-> 0]
    /\ queue = <<>>
    /\ blocked = <<>>
    /\ pending = {}
    /\ waiters = [k \in Keys |-> {}]
    /\ running = {}
    /\ answering = [k \in Keys |-> {}]
    /\ read = [k \in Keys |-> Unread]
    /\ covered = [k \in Keys |-> 0]
    /\ loop = "scanning"
    /\ request = [r \in Requests |-> [state |-> "new", key |-> NoKey]]
    /\ asked = [r \in Requests |-> 0]
    /\ seen = [r \in Requests |-> Unread]
    /\ restarts = 0

-----------------------------------------------------------------------------
(* The channel.  A permit freed by the controller goes to the callers      *)
(* already waiting for one, so a new message fits only if it fits behind   *)
(* all of them.                                                            *)
HasCapacity == Len(queue) + Len(blocked) < QueueCapacity

(* Wakeup::notify: a hint that is dropped when the channel is full.        *)
Notify(k) ==
    queue' = IF HasCapacity
             THEN Append(queue, [key |-> k, response |-> NoRequest])
             ELSE queue

(* A service stores new desired state and hints the controller.            *)
Write(k) ==
    /\ desired[k] < MaxVersion
    /\ desired' = [desired EXCEPT ![k] = @ + 1]
    /\ Notify(k)
    /\ UNCHANGED <<blocked, schedule, covered, loop, request, history, restarts>>

(* Wakeup::reconcile: the call sends its response channel along and waits, *)
(* first for capacity and then for the answer.                             *)
Reconcile(r, k) ==
    /\ request[r].state = "new"
    /\ asked' = [asked EXCEPT ![r] = desired[k]]
    /\ \/ /\ HasCapacity
          /\ queue' = Append(queue, [key |-> k, response |-> r])
          /\ request' = [request EXCEPT ![r] = [state |-> "waiting", key |-> k]]
          /\ UNCHANGED blocked
       \/ /\ ~HasCapacity
          /\ blocked' = Append(blocked, r)
          /\ request' = [request EXCEPT ![r] = [state |-> "blocked", key |-> k]]
          /\ UNCHANGED queue
    /\ UNCHANGED <<desired, schedule, covered, loop, seen, restarts>>

(* Definitions named X_Mistake are mutants of X: what X would be with a    *)
(* plausible mistake in the code.  No specification uses them.             *)

(* Mutant: a waiting caller is let in without capacity.                    *)
Admit_WithoutCapacity ==
    /\ blocked # <<>>
    /\ queue' = Append(queue, [key |-> request[Head(blocked)].key, response |-> Head(blocked)])
    /\ request' = [request EXCEPT ![Head(blocked)].state = "waiting"]
    /\ blocked' = Tail(blocked)
    /\ UNCHANGED <<desired, schedule, covered, loop, history, restarts>>

(* The channel has room for the caller that has waited longest.            *)
Admit ==
    /\ blocked # <<>>
    /\ Len(queue) < QueueCapacity
    /\ LET r == Head(blocked)
       IN  /\ queue' = Append(queue, [key |-> request[r].key, response |-> r])
           /\ request' = [request EXCEPT ![r].state = "waiting"]
    /\ blocked' = Tail(blocked)
    /\ UNCHANGED <<desired, schedule, covered, loop, history, restarts>>

(* The caller goes away.  A waiting caller leaves its response behind,     *)
(* whose send is then ignored; a blocked one leaves the line.              *)
Cancel(r) ==
    /\ request' = [request EXCEPT ![r].state = "cancelled"]
    /\ \/ /\ request[r].state = "waiting"
          /\ UNCHANGED blocked
       \/ /\ request[r].state = "blocked"
          /\ \E p \in DOMAIN blocked :
                /\ blocked[p] = r
                /\ blocked' = [i \in 1..(Len(blocked) - 1) |->
                                IF i < p THEN blocked[i] ELSE blocked[i + 1]]
    /\ UNCHANGED <<desired, queue, schedule, covered, loop, history, restarts>>

-----------------------------------------------------------------------------
(* Mutant: the limit is compared with <=.                                  *)
Started_OneTooMany(pend, run) ==
    LET startable == pend \ run
    IN  {k \in startable :
            Cardinality({j \in startable : j < k}) <= MaxConcurrent - Cardinality(run)}

(* start_pending: while a slot is free, start the smallest pending key     *)
(* that has no pass running.                                               *)
Started(pend, run) ==
    LET startable == pend \ run
    IN  {k \in startable :
            Cardinality({j \in startable : j < k}) < MaxConcurrent - Cardinality(run)}

StartPending(pend, wait, run, answ, rd) ==
    LET started == Started(pend, run)
    IN  /\ pending' = pend \ started
        /\ waiters' = [k \in Keys |-> IF k \in started THEN {} ELSE wait[k]]
        /\ running' = run \cup started
        /\ answering' = [k \in Keys |-> IF k \in started THEN wait[k] ELSE answ[k]]
        /\ read' = [k \in Keys |-> IF k \in started THEN Unread ELSE rd[k]]

Queued == {queue[i] : i \in DOMAIN queue}

(* Mutant: a request for a key whose pass is running joins that pass.      *)
Drain_JoinsRunningPass ==
    /\ loop = "select"
    /\ queue # <<>>
    /\ queue' = <<>>
    /\ LET fresh(k) == {r \in Requests : [key |-> k, response |-> r] \in Queued}
       IN  StartPending(
            pending \cup ({m.key : m \in Queued} \ running),
            [k \in Keys |-> IF k \in running THEN waiters[k] ELSE waiters[k] \cup fresh(k)],
            running,
            [k \in Keys |-> IF k \in running THEN answering[k] \cup fresh(k) ELSE answering[k]],
            read)
    /\ UNCHANGED <<desired, blocked, covered, loop, request, history, restarts>>

(* Mutant: inserting a request replaces the responses a pending key holds. *)
Drain_ReplacesResponses ==
    /\ loop = "select"
    /\ queue # <<>>
    /\ queue' = <<>>
    /\ StartPending(
            pending \cup {m.key : m \in Queued},
            [k \in Keys |->
                IF \E m \in Queued : m.key = k
                THEN {r \in Requests : [key |-> k, response |-> r] \in Queued}
                ELSE waiters[k]],
            running, answering, read)
    /\ UNCHANGED <<desired, blocked, covered, loop, request, history, restarts>>

(* Mutant: a request for a key whose pass is running is dropped.           *)
Drain_IgnoresRunningKeys ==
    /\ loop = "select"
    /\ queue # <<>>
    /\ queue' = <<>>
    /\ StartPending(
            pending \cup ({m.key : m \in Queued} \ running),
            [k \in Keys |-> IF k \in running THEN waiters[k] ELSE waiters[k] \cup
                {r \in Requests : [key |-> k, response |-> r] \in Queued}],
            running, answering, read)
    /\ UNCHANGED <<desired, blocked, covered, loop, request, history, restarts>>

(* recv and the try_recv loop: the whole channel moves to the pending map. *)
Drain ==
    /\ loop = "select"
    /\ queue # <<>>
    /\ queue' = <<>>
    /\ StartPending(
            pending \cup {m.key : m \in Queued},
            [k \in Keys |-> waiters[k] \cup
                {r \in Requests : [key |-> k, response |-> r] \in Queued}],
            running, answering, read)
    /\ UNCHANGED <<desired, blocked, covered, loop, request, history, restarts>>

(* The repair ticker fires; the loop awaits list_keys.                     *)
Tick ==
    /\ loop = "select"
    /\ queue = <<>>
    /\ loop' = "scanning"
    /\ UNCHANGED <<desired, queue, blocked, schedule, covered, request, history, restarts>>

(* Mutant: a scan does not start what it made pending.                     *)
EnqueueAll_StartsNothing ==
    /\ loop = "scanning"
    /\ loop' = "select"
    /\ pending' = pending \cup {k \in Keys : desired[k] > 0}
    /\ UNCHANGED <<desired, queue, blocked, waiters, running, answering, read,
                   covered, request, history, restarts>>

(* enqueue_all: every key the store lists becomes pending.                 *)
EnqueueAll ==
    /\ loop = "scanning"
    /\ loop' = "select"
    /\ StartPending(pending \cup {k \in Keys : desired[k] > 0},
                    waiters, running, answering, read)
    /\ UNCHANGED <<desired, queue, blocked, covered, request, history, restarts>>

(* list_keys failed: the error is reported and the scan changes nothing.   *)
ScanFails ==
    /\ loop = "scanning"
    /\ loop' = "select"
    /\ StartPending(pending, waiters, running, answering, read)
    /\ UNCHANGED <<desired, queue, blocked, covered, request, history, restarts>>

(* The running pass of k reads the store, which answers on a thread of its *)
(* own, also while the loop awaits list_keys.                              *)
PassReads(k) ==
    /\ k \in running
    /\ read[k] = Unread
    /\ read' = [read EXCEPT ![k] = desired[k]]
    /\ UNCHANGED <<desired, queue, blocked, pending, waiters, running, answering,
                   covered, loop, request, history, restarts>>

(* The pass of k ends and its responses are answered with its result.      *)
PassCompletes(k) ==
    /\ loop = "select"
    /\ queue = <<>>
    /\ k \in running
    /\ read[k] # Unread
    /\ covered' = [covered EXCEPT ![k] = IF read[k] > @ THEN read[k] ELSE @]
    /\ LET answered == {r \in answering[k] : request[r].state = "waiting"}
       IN  /\ request' = [r \in Requests |->
                 IF r \in answered THEN [request[r] EXCEPT !.state = "answered"]
                 ELSE request[r]]
           /\ seen' = [r \in Requests |-> IF r \in answered THEN read[k] ELSE seen[r]]
    /\ StartPending(pending, waiters, running \ {k},
                    [answering EXCEPT ![k] = {}], [read EXCEPT ![k] = Unread])
    /\ UNCHANGED <<desired, queue, blocked, loop, asked, restarts>>

(* The daemon stops and starts again: its callers, its channel and its     *)
(* schedule are gone, the store stays, and run begins with a scan.         *)
Restart ==
    /\ restarts < MaxRestarts
    /\ restarts' = restarts + 1
    /\ queue' = <<>>
    /\ blocked' = <<>>
    /\ pending' = {}
    /\ waiters' = [k \in Keys |-> {}]
    /\ running' = {}
    /\ answering' = [k \in Keys |-> {}]
    /\ read' = [k \in Keys |-> Unread]
    /\ loop' = "scanning"
    /\ request' = [r \in Requests |->
          IF request[r].state \in {"blocked", "waiting"}
          THEN [request[r] EXCEPT !.state = "cancelled"] ELSE request[r]]
    /\ UNCHANGED <<desired, covered, history>>

Next ==
    \/ \E k \in Keys : Write(k)
    \/ \E r \in Requests, k \in Keys : Reconcile(r, k)
    \/ Admit
    \/ \E r \in Requests : Cancel(r)
    \/ Drain
    \/ Tick
    \/ EnqueueAll
    \/ ScanFails
    \/ \E k \in Keys : PassReads(k)
    \/ \E k \in Keys : PassCompletes(k)
    \/ Restart

Spec == Init /\ [][Next]_vars

(***************************************************************************)
(* Fairness.  The runtime polls a ready task; the ticker fires for ever;   *)
(* listing the keys does not fail every time; every pass ends.  A pass can *)
(* complete only while the channel is empty and no scan runs, which comes  *)
(* and goes, so its completion needs strong fairness: MissedTickBehavior   *)
(* is Skip, hence between two ticks the passes are polled.                 *)
(***************************************************************************)
Fairness ==
    /\ WF_vars(Admit)
    /\ WF_vars(Drain)
    /\ SF_vars(Tick)
    /\ WF_vars(EnqueueAll \/ ScanFails)
    /\ SF_vars(EnqueueAll)
    /\ \A k \in Keys : WF_vars(PassReads(k)) /\ SF_vars(PassCompletes(k))

FairSpec == Spec /\ Fairness

-----------------------------------------------------------------------------
(* Where the response of a call can be.                                    *)
InQueue(r) == \E m \in Queued : m.response = r
InPending(r) == \E k \in pending : r \in waiters[k]
InRunning(r) == \E k \in running : r \in answering[k]

(* A caller of Wakeup::reconcile is answered only by a pass that read the  *)
(* store after the call was made: "waiters complete only after the pass    *)
(* that observed their request" (Controller).  A pass already running when *)
(* the call arrives must not answer it.                                    *)
WaiterSeesItsWrite ==
    \A r \in Requests : request[r].state = "answered" => seen[r] >= asked[r]

(* No response is lost or answered twice on its way from the channel       *)
(* through the pending map to a pass: the response of a caller that is     *)
(* still waiting is in exactly one of the three.                           *)
WaiterIsHeldOnce ==
    \A r \in Requests : request[r].state = "waiting" =>
        \/ InQueue(r) /\ ~InPending(r) /\ ~InRunning(r)
        \/ ~InQueue(r) /\ InPending(r) /\ ~InRunning(r)
        \/ ~InQueue(r) /\ ~InPending(r) /\ InRunning(r)

(* run never holds more than MAX_CONCURRENT_RECONCILES passes, and leaves  *)
(* a key pending only while it is busy or every slot is taken: after each  *)
(* handler start_pending has used all the capacity there was.              *)
SlotsAreUsedUp ==
    /\ Cardinality(running) <= MaxConcurrent
    /\ pending \ running # {} => Cardinality(running) = MaxConcurrent

(* At-least-once reconciliation: whatever is stored for a key is           *)
(* eventually read by a pass that completes, although hints may be dropped *)
(* by a full channel, lost in a restart, or arrive during a pass.          *)
EveryWriteIsCovered ==
    \A k \in Keys : \A v \in 1..MaxVersion :
        (desired[k] >= v) ~> (covered[k] >= v)

(* Every caller of Wakeup::reconcile gets its answer or goes away.         *)
EveryCallEnds ==
    \A r \in Requests :
        (request[r].state \in {"blocked", "waiting"})
            ~> (request[r].state \in {"answered", "cancelled"})

(* The controller owes its callers and the store an end: what is stored is *)
(* reconciled, and who waits is answered.                                  *)
ControllerIsLive == EveryWriteIsCovered /\ EveryCallEnds
=============================================================================
