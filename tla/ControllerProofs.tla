-------------------------- MODULE ControllerProofs --------------------------
(***************************************************************************)
(* Proofs about Controller, for any number of keys, calls, slots and       *)
(* restarts and any capacity of the channel.                               *)
(*                                                                         *)
(* The inductive invariant says where the response of a call can be and    *)
(* what is known of the call there: the message, the pending entry or the  *)
(* pass that holds the response has the key of the call; the version the   *)
(* call was made at is at most the stored one; and a pass that has read    *)
(* the store has read it after every call whose response it holds.         *)
(***************************************************************************)
EXTENDS Controller, FiniteSetTheorems, TLAPS

(* A response that has left its caller belongs to a call for the key k.    *)
Sent(r, k) ==
    /\ request[r].key = k
    /\ request[r].state \in {"waiting", "answered", "cancelled"}

ResponsesAreSent ==
    /\ \A m \in Queued : m.response # NoRequest => Sent(m.response, m.key)
    /\ \A k \in Keys : \A r \in waiters[k] : Sent(r, k)
    /\ \A k \in Keys : \A r \in answering[k] : Sent(r, k)

(* Callers wait for capacity once each.                                    *)
BlockedAreDistinct ==
    /\ \A i \in DOMAIN blocked : request[blocked[i]].state = "blocked"
    /\ \A i, j \in DOMAIN blocked : blocked[i] = blocked[j] => i = j

CallsAreOfThePast ==
    \A r \in Requests : request[r].state # "new" =>
        request[r].key \in Keys /\ asked[r] <= desired[request[r].key]

PassesReadAfterTheirCalls ==
    \A k \in Keys : \A r \in answering[k] : read[k] # Unread => asked[r] <= read[k]

ResponsesAreScheduled ==
    \A k \in Keys : /\ waiters[k] # {} => k \in pending
                    /\ answering[k] # {} => k \in running

(* WaiterIsHeldOnce, looking only where the call's key says.               *)
HeldOnceByKey ==
    \A r \in Requests : request[r].state = "waiting" =>
        LET k == request[r].key
        IN  \/ InQueue(r) /\ r \notin waiters[k] /\ r \notin answering[k]
            \/ ~InQueue(r) /\ r \in waiters[k] /\ r \notin answering[k]
            \/ ~InQueue(r) /\ r \notin waiters[k] /\ r \in answering[k]

IInv ==
    /\ TypeOK
    /\ ResponsesAreSent
    /\ BlockedAreDistinct
    /\ CallsAreOfThePast
    /\ PassesReadAfterTheirCalls
    /\ ResponsesAreScheduled
    /\ WaiterSeesItsWrite
    /\ HeldOnceByKey

-----------------------------------------------------------------------------
(* start_pending only starts keys that are pending and not running.        *)
LEMMA StartedIsStartable ==
    ASSUME NEW pend, NEW run
    PROVE  Started(pend, run) \subseteq pend \ run
BY DEF Started

(* start_pending keeps the types of the schedule.                          *)
LEMMA StartPendingTypes ==
    ASSUME NEW pend \in SUBSET Keys,
           NEW wait \in [Keys -> SUBSET Requests],
           NEW run \in SUBSET Keys,
           NEW answ \in [Keys -> SUBSET Requests],
           NEW rd \in [Keys -> Nat \cup {Unread}],
           StartPending(pend, wait, run, answ, rd)
    PROVE  /\ pending' \in SUBSET Keys
           /\ waiters' \in [Keys -> SUBSET Requests]
           /\ running' \in SUBSET Keys
           /\ answering' \in [Keys -> SUBSET Requests]
           /\ read' \in [Keys -> Nat \cup {Unread}]
<1>1. Started(pend, run) \subseteq pend \ run
    BY StartedIsStartable
<1> QED
    BY <1>1 DEF StartPending

(* A message of the channel is a key with a response or none.              *)
LEMMA QueuedMessages ==
    ASSUME TypeOK
    PROVE  Queued \subseteq Message
BY DEF TypeOK, Queued

(* Removing one element of a sequence leaves a shorter one.                *)
LEMMA RemoveAtType ==
    ASSUME NEW S, NEW s \in Seq(S), NEW p \in DOMAIN s
    PROVE  [i \in 1..(Len(s) - 1) |-> IF i < p THEN s[i] ELSE s[i + 1]] \in Seq(S)
<1> DEFINE t == [i \in 1..(Len(s) - 1) |-> IF i < p THEN s[i] ELSE s[i + 1]]
<1>1. Len(s) \in Nat /\ DOMAIN s = 1..Len(s) /\ \A i \in 1..Len(s) : s[i] \in S
    OBVIOUS
<1>2. Len(s) - 1 \in Nat
    BY <1>1
<1>3. t \in [1..(Len(s) - 1) -> S]
    BY <1>1
<1> QED
    BY <1>2, <1>3

(* A call that changes its state keeps its key.                            *)
LEMMA RequestStates ==
    ASSUME NEW q \in RequestState,
           NEW s \in {"new", "blocked", "waiting", "answered", "cancelled"}
    PROVE  /\ [q EXCEPT !.state = s] \in RequestState
           /\ [q EXCEPT !.state = s].state = s
           /\ [q EXCEPT !.state = s].key = q.key
BY DEF RequestState

(* Sending a message with a free permit keeps the channel's capacity.      *)
LEMMA SendTypes ==
    ASSUME TypeOK, NEW m \in Message, Len(queue) < QueueCapacity
    PROVE  /\ Append(queue, m) \in Seq(Message)
           /\ Len(Append(queue, m)) <= QueueCapacity
<1>1. queue \in Seq(Message) /\ Len(queue) \in Nat
    BY DEF TypeOK
<1>2. Append(queue, m) \in Seq(Message) /\ Len(Append(queue, m)) = Len(queue) + 1
    BY <1>1
<1> QED
    BY <1>1, <1>2, CapacitiesArePositive

(* A sender with a permit finds room in the channel.                       *)
LEMMA CapacityIsRoom ==
    ASSUME TypeOK, HasCapacity
    PROVE  Len(queue) < QueueCapacity
<1>1. Len(queue) \in Nat /\ Len(blocked) \in Nat
    BY DEF TypeOK
<1> QED
    BY <1>1, CapacitiesArePositive DEF HasCapacity

(* The types of the scheduler's state.                                     *)
LEMMA TypesAreKept ==
    IInv /\ [Next]_vars => TypeOK'
<1> SUFFICES ASSUME TypeOK, BlockedAreDistinct, CallsAreOfThePast, [Next]_vars
             PROVE  TypeOK'
    BY DEF IInv
<1> USE KeysAreOrdered, CapacitiesArePositive, NullValues
<1>1. ASSUME NEW k \in Keys, Write(k)
      PROVE  TypeOK'
    <2>1. [key |-> k, response |-> NoRequest] \in Message
        BY DEF Message
    <2>2. queue' \in Seq(Message) /\ Len(queue') <= QueueCapacity
        <3>1. CASE HasCapacity
            BY <1>1, <2>1, <3>1, SendTypes, CapacityIsRoom DEF Write, Notify
        <3>2. CASE ~HasCapacity
            BY <1>1, <3>2 DEF Write, Notify, TypeOK
        <3> QED
            BY <3>1, <3>2
    <2>3. desired' \in [Keys -> Nat]
        BY <1>1 DEF Write, TypeOK
    <2> QED
        BY <1>1, <2>2, <2>3 DEF Write, schedule, history, TypeOK
<1>2. ASSUME NEW r \in Requests, NEW k \in Keys, Reconcile(r, k)
      PROVE  TypeOK'
    <2>1. [key |-> k, response |-> r] \in Message
        BY DEF Message
    <2>2. queue' \in Seq(Message) /\ Len(queue') <= QueueCapacity
        <3>1. CASE HasCapacity
            BY <1>2, <2>1, <3>1, SendTypes, CapacityIsRoom DEF Reconcile
        <3>2. CASE ~HasCapacity
            BY <1>2, <3>2 DEF Reconcile, TypeOK
        <3> QED
            BY <3>1, <3>2
    <2>3. blocked' \in Seq(Requests)
        <3>1. blocked \in Seq(Requests) /\ Append(blocked, r) \in Seq(Requests)
            BY DEF TypeOK
        <3>2. blocked' = blocked \/ blocked' = Append(blocked, r)
            BY <1>2 DEF Reconcile
        <3> QED
            BY <3>1, <3>2
    <2>4. request' \in [Requests -> RequestState]
        <3>1. PICK q \in RequestState : request' = [request EXCEPT ![r] = q]
            BY <1>2 DEF Reconcile, RequestState
        <3> QED
            BY <3>1 DEF TypeOK
    <2>5. asked' \in [Requests -> Nat]
        BY <1>2 DEF Reconcile, TypeOK
    <2> QED
        BY <1>2, <2>2, <2>3, <2>4, <2>5 DEF Reconcile, schedule, TypeOK
<1>3. ASSUME Admit
      PROVE  TypeOK'
    <2>1. Head(blocked) \in Requests
        BY <1>3 DEF Admit, TypeOK
    <2>2. Tail(blocked) \in Seq(Requests)
        BY <1>3 DEF Admit, TypeOK
    <2>3. request[Head(blocked)].state = "blocked"
        BY <1>3 DEF Admit, TypeOK, BlockedAreDistinct
    <2>4. [key |-> request[Head(blocked)].key, response |-> Head(blocked)] \in Message
        BY <2>1, <2>3 DEF CallsAreOfThePast, Message
    <2>5. queue' \in Seq(Message) /\ Len(queue') <= QueueCapacity
        BY <1>3, <2>4, SendTypes DEF Admit
    <2>6. request' \in [Requests -> RequestState]
        BY <1>3, <2>1 DEF Admit, TypeOK, RequestState
    <2> QED
        BY <1>3, <2>2, <2>5, <2>6 DEF Admit, schedule, history, TypeOK
<1>4. ASSUME NEW r \in Requests, Cancel(r)
      PROVE  TypeOK'
    <2>1. blocked' \in Seq(Requests)
        <3>1. blocked \in Seq(Requests)
            BY DEF TypeOK
        <3>2. CASE UNCHANGED blocked
            BY <3>1, <3>2
        <3>3. ASSUME NEW p \in DOMAIN blocked,
                     blocked' = [i \in 1..(Len(blocked) - 1) |->
                                    IF i < p THEN blocked[i] ELSE blocked[i + 1]]
              PROVE  blocked' \in Seq(Requests)
            BY <3>1, <3>3, RemoveAtType
        <3> QED
            BY <1>4, <3>2, <3>3 DEF Cancel
    <2> QED
        BY ZenonT(60), <1>4, <2>1 DEF Cancel, schedule, history, TypeOK, RequestState
<1>5. ASSUME Drain
      PROVE  TypeOK'
    <2>1. Queued \subseteq Message
        BY QueuedMessages
    <2> DEFINE pend == pending \cup {m.key : m \in Queued}
               wait == [k \in Keys |-> waiters[k] \cup
                           {r \in Requests : [key |-> k, response |-> r] \in Queued}]
    <2>2. pend \in SUBSET Keys
        <3>1. \A m \in Queued : m.key \in Keys
            BY <2>1 DEF Message
        <3>2. {m.key : m \in Queued} \subseteq Keys
            BY <3>1
        <3>3. pending \subseteq Keys
            BY DEF TypeOK
        <3> QED
            BY <3>2, <3>3
    <2>3. wait \in [Keys -> SUBSET Requests]
        BY DEF TypeOK
    <2>4. StartPending(pend, wait, running, answering, read)
        BY <1>5 DEF Drain
    <2>5. /\ pending' \in SUBSET Keys
          /\ waiters' \in [Keys -> SUBSET Requests]
          /\ running' \in SUBSET Keys
          /\ answering' \in [Keys -> SUBSET Requests]
          /\ read' \in [Keys -> Nat \cup {Unread}]
        <3> HIDE DEF pend, wait
        <3> QED
            BY <2>2, <2>3, <2>4, StartPendingTypes DEF TypeOK
    <2>6. queue' \in Seq(Message) /\ Len(queue') <= QueueCapacity
        BY <1>5 DEF Drain
    <2> QED
        BY <1>5, <2>5, <2>6 DEF Drain, history, TypeOK
<1>6. ASSUME Tick
      PROVE  TypeOK'
    BY <1>6 DEF Tick, schedule, history, TypeOK
<1>7. ASSUME EnqueueAll
      PROVE  TypeOK'
    BY <1>7, StartPendingTypes DEF EnqueueAll, history, TypeOK
<1>8. ASSUME ScanFails
      PROVE  TypeOK'
    BY <1>8, StartPendingTypes DEF ScanFails, history, TypeOK
<1>9. ASSUME NEW k \in Keys, PassReads(k)
      PROVE  TypeOK'
    BY <1>9 DEF PassReads, history, TypeOK
<1>10. ASSUME NEW k \in Keys, PassCompletes(k)
       PROVE  TypeOK'
    <2>1. [answering EXCEPT ![k] = {}] \in [Keys -> SUBSET Requests]
        BY DEF TypeOK
    <2>2. [read EXCEPT ![k] = Unread] \in [Keys -> Nat \cup {Unread}]
        BY DEF TypeOK
    <2>3. /\ pending' \in SUBSET Keys
          /\ waiters' \in [Keys -> SUBSET Requests]
          /\ running' \in SUBSET Keys
          /\ answering' \in [Keys -> SUBSET Requests]
          /\ read' \in [Keys -> Nat \cup {Unread}]
        BY <1>10, <2>1, <2>2, StartPendingTypes DEF PassCompletes, TypeOK
    <2>4. request' \in [Requests -> RequestState]
        <3>1. \A r \in Requests :
                 request[r] \in RequestState
                     /\ [request[r] EXCEPT !.state = "answered"] \in RequestState
            BY RequestStates DEF TypeOK
        <3> QED
            BY <1>10, <3>1 DEF PassCompletes
    <2>5. seen' \in [Requests -> Nat \cup {Unread}]
        BY <1>10 DEF PassCompletes, TypeOK
    <2>6. covered' \in [Keys -> Nat]
        BY <1>10 DEF PassCompletes, TypeOK, Unread
    <2> QED
        BY <1>10, <2>3, <2>4, <2>5, <2>6 DEF PassCompletes, TypeOK
<1>11. ASSUME Restart
       PROVE  TypeOK'
    BY <1>11 DEF Restart, history, TypeOK, RequestState
<1>12. ASSUME UNCHANGED vars
       PROVE  TypeOK'
    BY <1>12 DEF vars, TypeOK
<1> QED
    BY <1>1, <1>2, <1>3, <1>4, <1>5, <1>6, <1>7, <1>8, <1>9, <1>10, <1>11, <1>12 DEF Next


-----------------------------------------------------------------------------
(* What a step of start_pending does to one key: nothing, or its responses *)
(* move from the pending map to a new pass, which has read nothing yet.    *)
LEMMA StartPendingMoves ==
    ASSUME NEW pend, NEW wait, NEW run, NEW answ, NEW rd,
           StartPending(pend, wait, run, answ, rd),
           NEW k \in Keys
    PROVE  \/ /\ waiters'[k] = wait[k] /\ answering'[k] = answ[k] /\ read'[k] = rd[k]
              /\ k \in pend => k \in pending'
              /\ k \in run => k \in running'
           \/ /\ waiters'[k] = {} /\ answering'[k] = wait[k] /\ read'[k] = Unread
              /\ k \notin run
              /\ k \in running'
<1>1. Started(pend, run) \subseteq pend \ run
    BY StartedIsStartable
<1> QED
    BY <1>1 DEF StartPending

(* What holds of the responses handed to start_pending holds after it.     *)
LEMMA StartPendingKeeps ==
    ASSUME NEW pend, NEW wait, NEW run, NEW answ, NEW rd,
           StartPending(pend, wait, run, answ, rd),
           \A k \in Keys : \A r \in wait[k] : Sent(r, k)',
           \A k \in Keys : \A r \in answ[k] : Sent(r, k)',
           \A k \in Keys : \A r \in answ[k] : rd[k] # Unread => asked'[r] <= rd[k],
           \A k \in Keys : wait[k] # {} => k \in pend,
           \A k \in Keys : answ[k] # {} => k \in run
    PROVE  /\ \A k \in Keys : \A r \in waiters'[k] : Sent(r, k)'
           /\ \A k \in Keys : \A r \in answering'[k] : Sent(r, k)'
           /\ PassesReadAfterTheirCalls'
           /\ ResponsesAreScheduled'
<1>1. ASSUME NEW k \in Keys
      PROVE  /\ \A r \in waiters'[k] : Sent(r, k)'
             /\ \A r \in answering'[k] : Sent(r, k)'
             /\ \A r \in answering'[k] : read'[k] # Unread => asked'[r] <= read'[k]
             /\ waiters'[k] # {} => k \in pending'
             /\ answering'[k] # {} => k \in running'
    BY StartPendingMoves
<1> QED
    BY <1>1 DEF PassesReadAfterTheirCalls, ResponsesAreScheduled

(* start_pending neither loses nor copies a response.                      *)
LEMMA StartPendingHolds ==
    ASSUME NEW pend, NEW wait, NEW run, NEW answ, NEW rd,
           StartPending(pend, wait, run, answ, rd),
           \A k \in Keys : answ[k] # {} => k \in run,
           NEW k \in Keys, NEW r,
           r \notin wait[k] \/ r \notin answ[k]
    PROVE  /\ r \notin waiters'[k] \/ r \notin answering'[k]
           /\ r \in waiters'[k] \cup answering'[k] <=> r \in wait[k] \cup answ[k]
BY StartPendingMoves

(* The messages of the channel after a send.                               *)
LEMMA SendAddsMessage ==
    ASSUME TypeOK, NEW m \in Message, queue' = Append(queue, m)
    PROVE  Queued' = Queued \cup {m}
<1>1. queue \in Seq(Message) /\ Len(queue) \in Nat /\ DOMAIN queue = 1..Len(queue)
    BY DEF TypeOK
<1>2. /\ DOMAIN queue' = 1..(Len(queue) + 1)
      /\ \A i \in 1..Len(queue) : queue'[i] = queue[i]
      /\ queue'[Len(queue) + 1] = m
    BY <1>1
<1>3. ASSUME NEW x \in Queued'
      PROVE  x \in Queued \cup {m}
    <2>1. PICK i \in 1..(Len(queue) + 1) : x = queue'[i]
        BY <1>2 DEF Queued
    <2>2. i \in 1..Len(queue) \/ i = Len(queue) + 1
        BY <1>1
    <2> QED
        BY <1>1, <1>2, <2>1, <2>2 DEF Queued
<1>4. ASSUME NEW x \in Queued \cup {m}
      PROVE  x \in Queued'
    <2>1. 1..Len(queue) \subseteq DOMAIN queue' /\ Len(queue) + 1 \in DOMAIN queue'
        BY <1>1, <1>2
    <2> QED
        BY <1>1, <1>2, <2>1 DEF Queued
<1> QED
    BY <1>3, <1>4

-----------------------------------------------------------------------------
(* A step that leaves the schedule, the calls and their history alone, and *)
(* no stored version lower, keeps everything but the messages' part.       *)
LEMMA ScheduleUntouched ==
    ASSUME IInv, UNCHANGED <<blocked, schedule, request, history>>,
           \A k \in Keys : desired[k] <= desired'[k],
           \A k \in Keys : desired'[k] \in Nat
    PROVE  /\ \A r, k : Sent(r, k) => Sent(r, k)'
           /\ \A k \in Keys : \A r \in waiters'[k] : Sent(r, k)'
           /\ \A k \in Keys : \A r \in answering'[k] : Sent(r, k)'
           /\ BlockedAreDistinct'
           /\ CallsAreOfThePast'
           /\ PassesReadAfterTheirCalls'
           /\ ResponsesAreScheduled'
           /\ WaiterSeesItsWrite'
<1> USE DEF schedule, history
<1>1. \A r, k : Sent(r, k) => Sent(r, k)'
    BY DEF Sent
<1>2. /\ \A k \in Keys : \A r \in waiters'[k] : Sent(r, k)'
      /\ \A k \in Keys : \A r \in answering'[k] : Sent(r, k)'
    BY <1>1 DEF IInv, ResponsesAreSent
<1>3. BlockedAreDistinct'
    BY DEF IInv, BlockedAreDistinct
<1>4. CallsAreOfThePast'
    <2> SUFFICES ASSUME NEW r \in Requests, request[r].state # "new"
                 PROVE  request[r].key \in Keys /\ asked[r] <= desired'[request[r].key]
        BY DEF CallsAreOfThePast
    <2>1. request[r].key \in Keys /\ asked[r] <= desired[request[r].key]
        BY DEF IInv, CallsAreOfThePast
    <2>2. asked[r] \in Nat /\ desired[request[r].key] \in Nat
        BY <2>1 DEF IInv, TypeOK
    <2> QED
        BY <2>1, <2>2
<1>5. PassesReadAfterTheirCalls' /\ ResponsesAreScheduled' /\ WaiterSeesItsWrite'
    BY DEF IInv, PassesReadAfterTheirCalls, ResponsesAreScheduled, WaiterSeesItsWrite
<1> QED
    BY <1>1, <1>2, <1>3, <1>4, <1>5

(* A write keeps the invariant: its hint carries no response.              *)
LEMMA WriteKeeps ==
    ASSUME IInv, TypeOK', NEW w \in Keys, Write(w)
    PROVE  IInv'
<1>1. UNCHANGED <<blocked, schedule, request, history>>
    BY DEF Write, history, schedule
<1>2. \A k \in Keys : desired[k] <= desired'[k] /\ desired'[k] \in Nat
    BY DEF IInv, TypeOK, Write
<1>3. \A m \in Queued' : m \in Queued \/ m.response = NoRequest
    <2>1. [key |-> w, response |-> NoRequest] \in Message
        BY DEF Message
    <2>2. CASE HasCapacity
        BY <2>1, <2>2, SendAddsMessage DEF IInv, Write, Notify
    <2>3. CASE ~HasCapacity
        BY <2>3 DEF Write, Notify, Queued
    <2> QED
        BY <2>2, <2>3
<1>4. Queued \subseteq Queued'
    <2>1. [key |-> w, response |-> NoRequest] \in Message
        BY DEF Message
    <2>2. CASE HasCapacity
        BY <2>1, <2>2, SendAddsMessage DEF IInv, Write, Notify
    <2>3. CASE ~HasCapacity
        BY <2>3 DEF Write, Notify, Queued
    <2> QED
        BY <2>2, <2>3
<1>5. ResponsesAreSent'
    BY <1>1, <1>2, <1>3, ScheduleUntouched DEF IInv, ResponsesAreSent
<1>6. HeldOnceByKey'
    <2>1. \A r \in Requests : InQueue(r)' <=> InQueue(r)
        BY <1>3, <1>4, NullValues DEF InQueue
    <2> QED
        BY <1>1, <2>1 DEF IInv, HeldOnceByKey, schedule
<1> QED
    BY <1>1, <1>2, <1>5, <1>6, ScheduleUntouched DEF IInv

(* The steps that only move the loop keep the invariant.                   *)
LEMMA StutterKeeps ==
    ASSUME IInv, TypeOK',
           UNCHANGED <<desired, queue, blocked, schedule, request, history>>
    PROVE  IInv'
<1>1. \A k \in Keys : desired[k] <= desired'[k] /\ desired'[k] \in Nat
    BY DEF IInv, TypeOK
<1>2. Queued' = Queued
    BY DEF Queued
<1>3. ResponsesAreSent'
    BY <1>1, <1>2, ScheduleUntouched DEF IInv, ResponsesAreSent
<1>4. HeldOnceByKey'
    BY <1>2 DEF IInv, HeldOnceByKey, InQueue, schedule
<1> QED
    BY <1>1, <1>3, <1>4, ScheduleUntouched DEF IInv

(* A new call keeps the invariant: nothing holds its response yet.         *)
LEMMA ReconcileKeeps ==
    ASSUME IInv, TypeOK', NEW c \in Requests, NEW d \in Keys, Reconcile(c, d)
    PROVE  IInv'
<1>1. /\ \A r \in Requests \ {c} : request'[r] = request[r] /\ asked'[r] = asked[r]
      /\ request[c].state = "new"
      /\ request'[c].key = d
      /\ asked'[c] = desired[d]
      /\ desired' = desired /\ seen' = seen
      /\ UNCHANGED schedule
    BY DEF IInv, TypeOK, Reconcile
<1>2. \A r, k : Sent(r, k) /\ r \in Requests => r # c /\ Sent(r, k)'
    BY <1>1 DEF Sent
<1>3. /\ \A k \in Keys : \A r \in waiters[k] : r # c /\ Sent(r, k)'
      /\ \A k \in Keys : \A r \in answering[k] : r # c /\ Sent(r, k)'
      /\ \A m \in Queued : m.response # NoRequest => m.response # c /\ Sent(m.response, m.key)'
    <2>1. \A k \in Keys : waiters[k] \subseteq Requests /\ answering[k] \subseteq Requests
        BY DEF IInv, TypeOK
    <2>2. \A m \in Queued : m.response # NoRequest => m.response \in Requests
        BY QueuedMessages DEF IInv, Message
    <2> QED
        BY <1>2, <2>1, <2>2 DEF IInv, ResponsesAreSent
<1>4. CallsAreOfThePast'
    <2> SUFFICES ASSUME NEW r \in Requests, request'[r].state # "new"
                 PROVE  request'[r].key \in Keys /\ asked'[r] <= desired'[request'[r].key]
        BY DEF CallsAreOfThePast
    <2>1. CASE r = c
        BY <1>1, <2>1 DEF IInv, TypeOK
    <2>2. CASE r # c
        BY <1>1, <2>2 DEF IInv, CallsAreOfThePast
    <2> QED
        BY <2>1, <2>2
<1>5. PassesReadAfterTheirCalls'
    <2>1. \A k \in Keys : answering[k] \subseteq Requests
        BY DEF IInv, TypeOK
    <2> QED
        BY <1>1, <1>3, <2>1 DEF IInv, PassesReadAfterTheirCalls, schedule
<1>6. ResponsesAreScheduled'
    BY <1>1 DEF IInv, ResponsesAreScheduled, schedule
<1>7. WaiterSeesItsWrite'
    <2>1. request'[c].state \in {"waiting", "blocked"}
        BY DEF IInv, TypeOK, Reconcile
    <2> QED
        BY <1>1, <2>1 DEF IInv, WaiterSeesItsWrite
<1>8. CASE HasCapacity
    <2>1. /\ queue' = Append(queue, [key |-> d, response |-> c])
          /\ request'[c] = [state |-> "waiting", key |-> d]
          /\ blocked' = blocked
        BY <1>8 DEF IInv, TypeOK, Reconcile
    <2>2. [key |-> d, response |-> c] \in Message
        BY DEF Message
    <2>3. Queued' = Queued \cup {[key |-> d, response |-> c]}
        BY <2>1, <2>2, SendAddsMessage DEF IInv
    <2>4. ResponsesAreSent'
        <3>1. Sent(c, d)'
            BY <2>1 DEF Sent
        <3> QED
            BY <1>1, <1>3, <2>3, <3>1 DEF ResponsesAreSent, schedule
    <2>5. BlockedAreDistinct'
        <3>1. \A i \in DOMAIN blocked : blocked[i] \in Requests /\ blocked[i] # c
            BY <1>1 DEF IInv, TypeOK, BlockedAreDistinct
        <3> QED
            BY <1>1, <2>1, <3>1 DEF IInv, BlockedAreDistinct
    <2>6. HeldOnceByKey'
        <3>1. \A r \in Requests \ {c} : InQueue(r)' <=> InQueue(r)
            BY <2>3 DEF InQueue
        <3>2. InQueue(c)' /\ c \notin waiters'[d] /\ c \notin answering'[d]
            <4>1. [key |-> d, response |-> c].response = c
                OBVIOUS
            <4>2. InQueue(c)'
                BY <2>3, <4>1 DEF InQueue
            <4> QED
                BY <1>1, <1>3, <4>2 DEF schedule
        <3> QED
            BY <1>1, <3>1, <3>2 DEF IInv, HeldOnceByKey, schedule
    <2> QED
        BY <1>4, <1>5, <1>6, <1>7, <2>4, <2>5, <2>6 DEF IInv
<1>9. CASE ~HasCapacity
    <2>1. /\ queue' = queue
          /\ request'[c] = [state |-> "blocked", key |-> d]
          /\ blocked' = Append(blocked, c)
        BY <1>9 DEF IInv, TypeOK, Reconcile
    <2>2. Queued' = Queued
        BY <2>1 DEF Queued
    <2>3. ResponsesAreSent'
        BY <1>1, <1>3, <2>2 DEF ResponsesAreSent, schedule
    <2>4. BlockedAreDistinct'
        <3>1. blocked \in Seq(Requests) /\ Len(blocked) \in Nat
              /\ DOMAIN blocked = 1..Len(blocked)
            BY DEF IInv, TypeOK
        <3>2. \A i \in 1..Len(blocked) : blocked[i] \in Requests /\ blocked[i] # c
            BY <1>1, <3>1 DEF IInv, BlockedAreDistinct
        <3>3. /\ DOMAIN blocked' = 1..(Len(blocked) + 1)
              /\ \A i \in 1..Len(blocked) : blocked'[i] = blocked[i]
              /\ blocked'[Len(blocked) + 1] = c
            BY <2>1, <3>1
        <3>4. \A i \in 1..(Len(blocked) + 1) :
                 i \in 1..Len(blocked) \/ i = Len(blocked) + 1
            BY <3>1
        <3>5. \A i \in 1..Len(blocked) : request'[blocked[i]].state = "blocked"
            BY <1>1, <3>1, <3>2 DEF IInv, BlockedAreDistinct
        <3>6. \A i, j \in 1..Len(blocked) : blocked[i] = blocked[j] => i = j
            BY <3>1 DEF IInv, BlockedAreDistinct
        <3>7. \A i \in DOMAIN blocked' : request'[blocked'[i]].state = "blocked"
            BY <2>1, <3>3, <3>4, <3>5
        <3>8. ASSUME NEW i \in DOMAIN blocked', NEW j \in DOMAIN blocked',
                     blocked'[i] = blocked'[j]
              PROVE  i = j
            BY <3>2, <3>3, <3>4, <3>6, <3>8
        <3> QED
            BY <3>7, <3>8 DEF BlockedAreDistinct
    <2>5. HeldOnceByKey'
        BY <1>1, <2>1, <2>2 DEF IInv, HeldOnceByKey, InQueue, schedule
    <2> QED
        BY <1>4, <1>5, <1>6, <1>7, <2>3, <2>4, <2>5 DEF IInv
<1> QED
    BY <1>8, <1>9

(* A caller that gets its capacity keeps the invariant.                    *)
LEMMA AdmitKeeps ==
    ASSUME IInv, TypeOK', Admit
    PROVE  IInv'
<1>a. PICK c : c = Head(blocked)
    OBVIOUS
<1>b. PICK d : d = request[c].key
    OBVIOUS
<1>1. /\ blocked \in Seq(Requests) /\ Len(blocked) \in Nat \ {0}
      /\ DOMAIN blocked = 1..Len(blocked)
      /\ c = blocked[1] /\ c \in Requests
    BY <1>a DEF IInv, TypeOK, Admit
<1>2. request[c].state = "blocked" /\ d \in Keys
    BY <1>b, <1>1 DEF IInv, BlockedAreDistinct, CallsAreOfThePast
<1>3. /\ \A r \in Requests \ {c} : request'[r] = request[r]
      /\ request'[c].state = "waiting" /\ request'[c].key = d
      /\ queue' = Append(queue, [key |-> d, response |-> c])
      /\ blocked' = Tail(blocked)
      /\ UNCHANGED <<desired, schedule, history>>
    <2>1. request[c] \in RequestState
        BY <1>1 DEF IInv, TypeOK
    <2>2. request' = [request EXCEPT ![c] = [request[c] EXCEPT !.state = "waiting"]]
        BY <1>a DEF Admit
    <2>3. /\ \A r \in Requests \ {c} : request'[r] = request[r]
          /\ request'[c] = [request[c] EXCEPT !.state = "waiting"]
        BY <1>1, <2>2 DEF IInv, TypeOK
    <2>4. request'[c].state = "waiting" /\ request'[c].key = request[c].key
        BY <2>1, <2>3, RequestStates
    <2> QED
        BY <1>a, <1>b, <2>3, <2>4 DEF Admit, history, schedule
<1>4. Queued' = Queued \cup {[key |-> d, response |-> c]}
    <2>1. [key |-> d, response |-> c] \in Message
        BY <1>1, <1>2 DEF Message
    <2> QED
        BY <1>3, <2>1, SendAddsMessage DEF IInv
<1>5. \A r, k : Sent(r, k) /\ r \in Requests => r # c /\ Sent(r, k)'
    BY <1>2, <1>3 DEF Sent
<1>6. /\ \A k \in Keys : \A r \in waiters[k] : r # c /\ Sent(r, k)'
      /\ \A k \in Keys : \A r \in answering[k] : r # c /\ Sent(r, k)'
      /\ \A m \in Queued : m.response # NoRequest => m.response # c /\ Sent(m.response, m.key)'
    <2>1. \A k \in Keys : waiters[k] \subseteq Requests /\ answering[k] \subseteq Requests
        BY DEF IInv, TypeOK
    <2>2. \A m \in Queued : m.response # NoRequest => m.response \in Requests
        BY QueuedMessages DEF IInv, Message
    <2> QED
        BY <1>5, <2>1, <2>2 DEF IInv, ResponsesAreSent
<1>7. ResponsesAreSent'
    <2>1. Sent(c, d)'
        BY <1>3 DEF Sent
    <2> QED
        BY <1>3, <1>4, <1>6, <2>1 DEF ResponsesAreSent, schedule
<1>8. BlockedAreDistinct'
    <2>1. /\ DOMAIN blocked' = 1..(Len(blocked) - 1)
          /\ \A i \in 1..(Len(blocked) - 1) : blocked'[i] = blocked[i + 1]
        BY <1>1, <1>3
    <2>2. \A i \in 1..(Len(blocked) - 1) :
             i + 1 \in DOMAIN blocked /\ i + 1 # 1 /\ 1 \in DOMAIN blocked
        BY <1>1
    <2>3. \A i \in 1..(Len(blocked) - 1) :
             /\ blocked'[i] \in Requests /\ blocked'[i] # c
             /\ request[blocked'[i]].state = "blocked"
        BY <1>1, <2>1, <2>2 DEF IInv, BlockedAreDistinct
    <2>4. \A i, j \in 1..(Len(blocked) - 1) : blocked'[i] = blocked'[j] => i + 1 = j + 1
        BY <2>1, <2>2 DEF IInv, BlockedAreDistinct
    <2>5. \A i, j \in DOMAIN blocked' : blocked'[i] = blocked'[j] => i = j
        BY <1>1, <2>1, <2>4
    <2> QED
        BY <1>3, <2>1, <2>3, <2>5 DEF BlockedAreDistinct
<1>9. CallsAreOfThePast'
    <2>1. d \in Keys /\ asked[c] <= desired[d]
        BY <1>b, <1>1, <1>2 DEF IInv, CallsAreOfThePast
    <2>2. \A r \in Requests \ {c} : request[r].state # "new" =>
             request[r].key \in Keys /\ asked[r] <= desired[request[r].key]
        BY DEF IInv, CallsAreOfThePast
    <2>3. asked' = asked /\ desired' = desired
        BY <1>3 DEF history
    <2> QED
        BY <1>3, <2>1, <2>2, <2>3 DEF CallsAreOfThePast
<1>10. PassesReadAfterTheirCalls' /\ ResponsesAreScheduled'
    BY <1>3 DEF IInv, PassesReadAfterTheirCalls, ResponsesAreScheduled, schedule, history
<1>11. WaiterSeesItsWrite'
    BY <1>3 DEF IInv, WaiterSeesItsWrite, history
<1>12. HeldOnceByKey'
    <2>1. \A r \in Requests \ {c} : InQueue(r)' <=> InQueue(r)
        BY <1>4 DEF InQueue
    <2>2. InQueue(c)' /\ c \notin waiters'[d] /\ c \notin answering'[d]
        <3>1. [key |-> d, response |-> c].response = c
            OBVIOUS
        <3>2. InQueue(c)'
            BY <1>4, <3>1 DEF InQueue
        <3> QED
            BY <1>2, <1>3, <1>6, <3>2 DEF schedule
    <2> QED
        BY <1>3, <2>1, <2>2 DEF IInv, HeldOnceByKey, schedule
<1> QED
    BY <1>7, <1>8, <1>9, <1>10, <1>11, <1>12 DEF IInv

(* A caller that goes away keeps the invariant: its response stays behind. *)
LEMMA CancelKeeps ==
    ASSUME IInv, TypeOK', NEW c \in Requests, Cancel(c)
    PROVE  IInv'
<1>1. /\ \A r \in Requests \ {c} : request'[r] = request[r]
      /\ request'[c].state = "cancelled" /\ request'[c].key = request[c].key
      /\ request[c].state \in {"waiting", "blocked"}
      /\ UNCHANGED <<desired, queue, schedule, history>>
    <2>1. request[c] \in RequestState
        BY DEF IInv, TypeOK
    <2>2. request' = [request EXCEPT ![c] = [request[c] EXCEPT !.state = "cancelled"]]
        BY DEF Cancel
    <2>3. /\ \A r \in Requests \ {c} : request'[r] = request[r]
          /\ request'[c] = [request[c] EXCEPT !.state = "cancelled"]
        BY <2>2 DEF IInv, TypeOK
    <2>4. request'[c].state = "cancelled" /\ request'[c].key = request[c].key
        BY <2>1, <2>3, RequestStates
    <2>5. /\ request[c].state \in {"waiting", "blocked"}
          /\ UNCHANGED <<desired, queue, schedule, history>>
        BY DEF Cancel, schedule, history
    <2> QED
        BY <2>3, <2>4, <2>5
<1>2. \A r \in Requests : \A k : Sent(r, k) => Sent(r, k)'
    BY <1>1 DEF Sent
<1>3. Queued' = Queued
    BY <1>1 DEF Queued
<1>4. ResponsesAreSent'
    <2>1. \A k \in Keys : waiters[k] \subseteq Requests /\ answering[k] \subseteq Requests
        BY DEF IInv, TypeOK
    <2>2. \A m \in Queued : m.response # NoRequest => m.response \in Requests
        BY QueuedMessages DEF IInv, Message
    <2> QED
        BY <1>1, <1>2, <1>3, <2>1, <2>2 DEF IInv, ResponsesAreSent, schedule
<1>5. BlockedAreDistinct'
    <2>1. blocked \in Seq(Requests) /\ Len(blocked) \in Nat /\ DOMAIN blocked = 1..Len(blocked)
        BY DEF IInv, TypeOK
    <2>2. CASE request[c].state = "waiting"
        <3>1. blocked' = blocked
            BY <2>2 DEF Cancel
        <3>2. \A i \in DOMAIN blocked : blocked[i] \in Requests \ {c}
            BY <2>1, <2>2 DEF IInv, BlockedAreDistinct
        <3> QED
            BY <1>1, <3>1, <3>2 DEF IInv, BlockedAreDistinct
    <2>3. CASE request[c].state = "blocked"
        <3>1. PICK p \in 1..Len(blocked) :
                /\ blocked[p] = c
                /\ blocked' = [i \in 1..(Len(blocked) - 1) |->
                                IF i < p THEN blocked[i] ELSE blocked[i + 1]]
            BY <2>1, <2>3 DEF Cancel
        <3> DEFINE old(i) == IF i < p THEN i ELSE i + 1
        <3>2. \A i \in 1..(Len(blocked) - 1) :
                 old(i) \in 1..Len(blocked) /\ old(i) # p /\ blocked'[i] = blocked[old(i)]
            BY <2>1, <3>1
        <3>3. \A i, j \in 1..(Len(blocked) - 1) : old(i) = old(j) => i = j
            BY <2>1
        <3>4. DOMAIN blocked' = 1..(Len(blocked) - 1)
            BY <3>1
        <3> HIDE DEF old
        <3>5. \A i \in DOMAIN blocked' : request'[blocked'[i]].state = "blocked"
            <4>1. \A i \in 1..(Len(blocked) - 1) :
                     blocked[old(i)] \in Requests \ {c} /\ request[blocked[old(i)]].state = "blocked"
                BY <2>1, <3>1, <3>2 DEF IInv, BlockedAreDistinct
            <4> QED
                BY <1>1, <3>2, <3>4, <4>1
        <3>6. \A i, j \in DOMAIN blocked' : blocked'[i] = blocked'[j] => i = j
            BY <2>1, <3>2, <3>3, <3>4 DEF IInv, BlockedAreDistinct
        <3> QED
            BY <3>5, <3>6 DEF BlockedAreDistinct
    <2> QED
        BY <1>1, <2>2, <2>3
<1>6. CallsAreOfThePast'
    BY <1>1 DEF IInv, CallsAreOfThePast, history
<1>7. PassesReadAfterTheirCalls' /\ ResponsesAreScheduled'
    BY <1>1 DEF IInv, PassesReadAfterTheirCalls, ResponsesAreScheduled, schedule, history
<1>8. WaiterSeesItsWrite'
    BY <1>1 DEF IInv, WaiterSeesItsWrite, history
<1>9. HeldOnceByKey'
    BY <1>1, <1>3 DEF IInv, HeldOnceByKey, InQueue, schedule
<1> QED
    BY <1>4, <1>5, <1>6, <1>7, <1>8, <1>9 DEF IInv

(* Handing the schedule to start_pending keeps the invariant if what is    *)
(* handed to it holds each waiting response once.                          *)
LEMMA StartingKeeps ==
    ASSUME IInv, TypeOK',
           NEW pend, NEW wait, NEW run, NEW answ, NEW rd,
           StartPending(pend, wait, run, answ, rd),
           \A k \in Keys : \A r \in wait[k] : Sent(r, k)',
           \A k \in Keys : \A r \in answ[k] : Sent(r, k)',
           \A k \in Keys : \A r \in answ[k] : rd[k] # Unread => asked'[r] <= rd[k],
           \A k \in Keys : wait[k] # {} => k \in pend,
           \A k \in Keys : answ[k] # {} => k \in run,
           \A m \in Queued' : m.response # NoRequest => Sent(m.response, m.key)',
           BlockedAreDistinct', CallsAreOfThePast', WaiterSeesItsWrite',
           \A r \in Requests : request'[r].state = "waiting" =>
               \/ InQueue(r)' /\ r \notin wait[request'[r].key] /\ r \notin answ[request'[r].key]
               \/ ~InQueue(r)' /\ r \in wait[request'[r].key] /\ r \notin answ[request'[r].key]
               \/ ~InQueue(r)' /\ r \notin wait[request'[r].key] /\ r \in answ[request'[r].key]
    PROVE  IInv'
<1>1. /\ \A k \in Keys : \A r \in waiters'[k] : Sent(r, k)'
      /\ \A k \in Keys : \A r \in answering'[k] : Sent(r, k)'
      /\ PassesReadAfterTheirCalls'
      /\ ResponsesAreScheduled'
    BY StartPendingKeeps
<1>2. ResponsesAreSent'
    BY <1>1 DEF ResponsesAreSent
<1>3. HeldOnceByKey'
    <2> SUFFICES ASSUME NEW r \in Requests, request'[r].state = "waiting",
                        NEW k, k = request'[r].key
                 PROVE  \/ InQueue(r)' /\ r \notin waiters'[k] /\ r \notin answering'[k]
                        \/ ~InQueue(r)' /\ r \in waiters'[k] /\ r \notin answering'[k]
                        \/ ~InQueue(r)' /\ r \notin waiters'[k] /\ r \in answering'[k]
        BY DEF HeldOnceByKey
    <2>1. k \in Keys
        BY DEF CallsAreOfThePast
    <2>2. r \notin wait[k] \/ r \notin answ[k]
        OBVIOUS
    <2>3. /\ r \notin waiters'[k] \/ r \notin answering'[k]
          /\ r \in waiters'[k] \cup answering'[k] <=> r \in wait[k] \cup answ[k]
        BY <2>1, <2>2, StartPendingHolds
    <2> QED
        BY <2>3
<1> QED
    BY <1>1, <1>2, <1>3 DEF IInv

(* Draining the channel keeps the invariant.                               *)
LEMMA DrainKeeps ==
    ASSUME IInv, TypeOK', Drain
    PROVE  IInv'
<1> DEFINE pend == pending \cup {m.key : m \in Queued}
           wait == [k \in Keys |-> waiters[k] \cup
                       {r \in Requests : [key |-> k, response |-> r] \in Queued}]
<1>1. UNCHANGED <<desired, blocked, request, asked, seen>>
    BY DEF Drain, history
<1>2. \A r, k : Sent(r, k)' <=> Sent(r, k)
    BY <1>1 DEF Sent
<1>3. StartPending(pend, wait, running, answering, read)
    BY DEF Drain
<1>4. Queued' = {}
    BY DEF Drain, Queued
<1>5. \A m \in Queued : m.response # NoRequest => Sent(m.response, m.key) /\ m.key \in Keys
    BY QueuedMessages DEF IInv, ResponsesAreSent, Message
<1>6. ASSUME NEW k \in Keys, NEW r \in wait[k]
      PROVE  Sent(r, k) /\ k \in pend
    <2>1. CASE r \in waiters[k]
        BY <2>1 DEF IInv, ResponsesAreSent, ResponsesAreScheduled
    <2>2. CASE r \in Requests /\ [key |-> k, response |-> r] \in Queued
        <3>1. /\ [key |-> k, response |-> r].key = k
              /\ [key |-> k, response |-> r].response = r
            OBVIOUS
        <3> QED
            BY <1>5, <2>2, <3>1, NullValues
    <2> QED
        BY <1>6, <2>1, <2>2
<1>7. ASSUME NEW r \in Requests, request'[r].state = "waiting"
      PROVE  LET k == request'[r].key
             IN  \/ r \in wait[k] /\ r \notin answering[k]
                 \/ r \notin wait[k] /\ r \in answering[k]
    <2>1. request[r].state = "waiting" /\ request'[r].key = request[r].key
        BY <1>1, <1>7
    <2>2. PICK k \in Keys : k = request[r].key
        BY <2>1 DEF IInv, CallsAreOfThePast
    <2>3. InQueue(r) <=> [key |-> k, response |-> r] \in Queued
        <3>1. ASSUME NEW m \in Queued, m.response = r
              PROVE  m = [key |-> k, response |-> r]
            <4>1. m \in Message /\ m.key = k
                BY <1>5, <2>2, <3>1, QueuedMessages, NullValues DEF IInv, Sent
            <4> QED
                BY <3>1, <4>1 DEF Message
        <3>2. [key |-> k, response |-> r].response = r
            OBVIOUS
        <3> QED
            BY <3>1, <3>2 DEF InQueue
    <2>4. \/ InQueue(r) /\ r \notin waiters[k] /\ r \notin answering[k]
          \/ ~InQueue(r) /\ r \in waiters[k] /\ r \notin answering[k]
          \/ ~InQueue(r) /\ r \notin waiters[k] /\ r \in answering[k]
        BY <2>1, <2>2 DEF IInv, HeldOnceByKey
    <2>5. r \in wait[k] <=> r \in waiters[k] \/ InQueue(r)
        BY <2>3
    <2> HIDE DEF wait
    <2> QED
        BY <2>1, <2>2, <2>4, <2>5
<1> HIDE DEF pend, wait
<1>8. \A k \in Keys : \A r \in answering[k] :
          /\ Sent(r, k) /\ k \in running
          /\ read[k] # Unread => asked[r] <= read[k]
    BY DEF IInv, ResponsesAreSent, ResponsesAreScheduled, PassesReadAfterTheirCalls
<1>9. BlockedAreDistinct' /\ CallsAreOfThePast' /\ WaiterSeesItsWrite'
    BY <1>1 DEF IInv, BlockedAreDistinct, CallsAreOfThePast, WaiterSeesItsWrite
<1>10. \A r \in Requests : ~InQueue(r)'
    BY <1>4 DEF InQueue
<1> QED
    BY <1>1, <1>2, <1>3, <1>4, <1>6, <1>7, <1>8, <1>9, <1>10, StartingKeeps

(* A repair scan, successful or not, keeps the invariant.                  *)
LEMMA ScanKeeps ==
    ASSUME IInv, TypeOK', EnqueueAll \/ ScanFails
    PROVE  IInv'
<1>1. PICK pend : pending \subseteq pend
                  /\ StartPending(pend, waiters, running, answering, read)
    BY DEF EnqueueAll, ScanFails
<1>2. UNCHANGED <<desired, queue, blocked, request, asked, seen>>
    BY DEF EnqueueAll, ScanFails, history
<1>3. \A r, k : Sent(r, k)' <=> Sent(r, k)
    BY <1>2 DEF Sent
<1>4. Queued' = Queued
    BY <1>2 DEF Queued
<1>5. \A k \in Keys : \A r \in waiters[k] : Sent(r, k) /\ k \in pend
    BY <1>1 DEF IInv, ResponsesAreSent, ResponsesAreScheduled
<1>6. \A k \in Keys : \A r \in answering[k] :
          /\ Sent(r, k) /\ k \in running
          /\ read[k] # Unread => asked[r] <= read[k]
    BY DEF IInv, ResponsesAreSent, ResponsesAreScheduled, PassesReadAfterTheirCalls
<1>7. BlockedAreDistinct' /\ CallsAreOfThePast' /\ WaiterSeesItsWrite'
    BY <1>2 DEF IInv, BlockedAreDistinct, CallsAreOfThePast, WaiterSeesItsWrite
<1>8. \A m \in Queued' : m.response # NoRequest => Sent(m.response, m.key)'
    BY <1>3, <1>4 DEF IInv, ResponsesAreSent
<1>9. \A r \in Requests : request'[r].state = "waiting" =>
          LET k == request'[r].key
          IN  \/ InQueue(r)' /\ r \notin waiters[k] /\ r \notin answering[k]
              \/ ~InQueue(r)' /\ r \in waiters[k] /\ r \notin answering[k]
              \/ ~InQueue(r)' /\ r \notin waiters[k] /\ r \in answering[k]
    BY <1>2, <1>4 DEF IInv, HeldOnceByKey, InQueue
<1> QED
    BY <1>1, <1>2, <1>3, <1>5, <1>6, <1>7, <1>8, <1>9, StartingKeeps

(* A pass that reads the store reads it after its calls were made.         *)
LEMMA PassReadsKeeps ==
    ASSUME IInv, TypeOK', NEW d \in Keys, PassReads(d)
    PROVE  IInv'
<1>1. /\ UNCHANGED <<desired, queue, blocked, pending, waiters, running, answering,
                     request, asked, seen>>
      /\ read' = [read EXCEPT ![d] = desired[d]]
    BY DEF PassReads, history
<1>2. \A r, k : Sent(r, k)' <=> Sent(r, k)
    BY <1>1 DEF Sent
<1>3. Queued' = Queued
    BY <1>1 DEF Queued
<1>4. ResponsesAreSent'
    BY <1>1, <1>2, <1>3 DEF IInv, ResponsesAreSent
<1>5. BlockedAreDistinct' /\ CallsAreOfThePast' /\ ResponsesAreScheduled' /\ WaiterSeesItsWrite'
    BY <1>1 DEF IInv, BlockedAreDistinct, CallsAreOfThePast, ResponsesAreScheduled,
                WaiterSeesItsWrite
<1>6. PassesReadAfterTheirCalls'
    <2> SUFFICES ASSUME NEW k \in Keys, NEW r \in answering[k], read'[k] # Unread
                 PROVE  asked[r] <= read'[k]
        BY <1>1 DEF PassesReadAfterTheirCalls
    <2>1. r \in Requests /\ Sent(r, k)
        BY DEF IInv, TypeOK, ResponsesAreSent
    <2>2. asked[r] <= desired[k]
        BY <2>1 DEF IInv, CallsAreOfThePast, Sent
    <2>3. CASE k = d
        BY <1>1, <2>2, <2>3 DEF IInv, TypeOK
    <2>4. CASE k # d
        BY <1>1, <2>4 DEF IInv, TypeOK, PassesReadAfterTheirCalls
    <2> QED
        BY <2>3, <2>4
<1>7. HeldOnceByKey'
    BY <1>1, <1>3 DEF IInv, HeldOnceByKey, InQueue
<1> QED
    BY <1>4, <1>5, <1>6, <1>7 DEF IInv

(* A pass that completes answers its responses and holds none after that.  *)
LEMMA PassCompletesKeeps ==
    ASSUME IInv, TypeOK', NEW d \in Keys, PassCompletes(d)
    PROVE  IInv'
<1> DEFINE answered == {r \in answering[d] : request[r].state = "waiting"}
           run == running \ {d}
           answ == [answering EXCEPT ![d] = {}]
           rd == [read EXCEPT ![d] = Unread]
<1>1. /\ UNCHANGED <<desired, queue, blocked, asked>>
      /\ StartPending(pending, waiters, run, answ, rd)
      /\ request' = [r \in Requests |->
            IF r \in answered THEN [request[r] EXCEPT !.state = "answered"] ELSE request[r]]
      /\ seen' = [r \in Requests |-> IF r \in answered THEN read[d] ELSE seen[r]]
      /\ read[d] # Unread
    BY DEF PassCompletes
<1>2. answered \subseteq Requests
    BY DEF IInv, TypeOK
<1>3. \A r \in answered :
          request'[r].state = "answered" /\ request'[r].key = request[r].key
    <2> SUFFICES ASSUME NEW r \in answered
                 PROVE  request'[r].state = "answered" /\ request'[r].key = request[r].key
        OBVIOUS
    <2>1. request[r] \in RequestState
        BY <1>2 DEF IInv, TypeOK
    <2>2. request'[r] = [request[r] EXCEPT !.state = "answered"]
        BY <1>1, <1>2
    <2>3. /\ [request[r] EXCEPT !.state = "answered"].state = "answered"
          /\ [request[r] EXCEPT !.state = "answered"].key = request[r].key
        BY <2>1, RequestStates
    <2> QED
        BY <2>2, <2>3
<1>4. \A r \in Requests \ answered : request'[r] = request[r] /\ seen'[r] = seen[r]
    BY <1>1
<1>5. \A r \in answered : seen'[r] = read[d]
    BY <1>1, <1>2
<1>6. \A r \in Requests : \A k : Sent(r, k) => Sent(r, k)'
    <2> HIDE DEF answered
    <2> QED
        BY <1>3, <1>4 DEF Sent
<1>7. \A k \in Keys : /\ k = d => answ[k] = {} /\ rd[k] = Unread
                      /\ k # d => answ[k] = answering[k] /\ rd[k] = read[k]
    BY DEF IInv, TypeOK
<1>8. \A k \in Keys : \A r \in waiters[k] : Sent(r, k)' /\ k \in pending
    BY <1>6 DEF IInv, TypeOK, ResponsesAreSent, ResponsesAreScheduled
<1>9. \A k \in Keys : \A r \in answ[k] :
          /\ Sent(r, k)' /\ k \in run
          /\ rd[k] # Unread => asked'[r] <= rd[k]
    <2> SUFFICES ASSUME NEW k \in Keys, NEW r \in answ[k]
                 PROVE  /\ Sent(r, k)' /\ k \in run
                        /\ rd[k] # Unread => asked'[r] <= rd[k]
        OBVIOUS
    <2>1. k # d /\ r \in answering[k] /\ rd[k] = read[k]
        BY <1>7
    <2>2. r \in Requests /\ Sent(r, k) /\ k \in running
        BY <2>1 DEF IInv, TypeOK, ResponsesAreSent, ResponsesAreScheduled
    <2>3. read[k] # Unread => asked[r] <= read[k]
        BY <2>1 DEF IInv, PassesReadAfterTheirCalls
    <2> HIDE DEF answ, rd
    <2> QED
        BY <1>1, <1>6, <2>1, <2>2, <2>3
<1>10. BlockedAreDistinct'
    <2>1. \A i \in DOMAIN blocked : blocked[i] \in Requests \ answered
        BY DEF IInv, TypeOK, BlockedAreDistinct
    <2> HIDE DEF answered
    <2> QED
        BY <1>1, <1>4, <2>1 DEF IInv, BlockedAreDistinct
<1>11. CallsAreOfThePast'
    <2>1. \A r \in answered : request[r].state # "new"
        OBVIOUS
    <2>2. \A r \in Requests : request'[r].key = request[r].key
              /\ (request'[r].state # "new" => request[r].state # "new")
        <3> HIDE DEF answered
        <3> QED
            BY <1>3, <1>4, <2>1
    <2> QED
        BY <1>1, <2>2 DEF IInv, CallsAreOfThePast
<1>12. WaiterSeesItsWrite'
    <2> SUFFICES ASSUME NEW r \in Requests, request'[r].state = "answered"
                 PROVE  seen'[r] >= asked[r]
        BY <1>1 DEF WaiterSeesItsWrite
    <2>1. CASE r \in answered
        <3>1. asked[r] <= read[d]
            BY <1>1, <2>1 DEF IInv, PassesReadAfterTheirCalls
        <3>2. asked[r] \in Int /\ read[d] \in Int
            BY DEF IInv, TypeOK, Unread
        <3> QED
            BY <1>5, <2>1, <3>1, <3>2
    <2>2. CASE r \notin answered
        BY <1>4, <2>2 DEF IInv, WaiterSeesItsWrite
    <2> QED
        BY <2>1, <2>2
<1>13. Queued' = Queued
    BY <1>1 DEF Queued
<1>14. \A m \in Queued' : m.response # NoRequest => Sent(m.response, m.key)'
    <2>1. \A m \in Queued : m.response # NoRequest => m.response \in Requests
        BY QueuedMessages DEF IInv, Message
    <2> QED
        BY <1>6, <1>13, <2>1 DEF IInv, ResponsesAreSent
<1>15. ASSUME NEW r \in Requests, request'[r].state = "waiting"
       PROVE  \/ InQueue(r)' /\ r \notin waiters[request'[r].key] /\ r \notin answ[request'[r].key]
              \/ ~InQueue(r)' /\ r \in waiters[request'[r].key] /\ r \notin answ[request'[r].key]
              \/ ~InQueue(r)' /\ r \notin waiters[request'[r].key] /\ r \in answ[request'[r].key]
    <2>1. r \notin answered /\ request'[r] = request[r]
        BY <1>3, <1>4, <1>15
    <2>2. PICK k \in Keys : k = request[r].key
        BY <1>15, <2>1 DEF IInv, CallsAreOfThePast
    <2>3. r \in answ[k] <=> r \in answering[k]
        <3>1. request[r].state = "waiting"
            BY <1>15, <2>1
        <3>2. k = d => r \notin answering[k]
            BY <2>1, <3>1
        <3> HIDE DEF answered, answ
        <3> QED
            BY <1>7, <3>2
    <2>4. InQueue(r)' <=> InQueue(r)
        BY <1>13 DEF InQueue
    <2>5. \/ InQueue(r) /\ r \notin waiters[k] /\ r \notin answering[k]
          \/ ~InQueue(r) /\ r \in waiters[k] /\ r \notin answering[k]
          \/ ~InQueue(r) /\ r \notin waiters[k] /\ r \in answering[k]
        BY <1>15, <2>1, <2>2 DEF IInv, HeldOnceByKey
    <2> HIDE DEF answ
    <2> QED
        BY <2>1, <2>2, <2>3, <2>4, <2>5
<1> HIDE DEF answered, run, answ, rd
<1> QED
    BY <1>1, <1>8, <1>9, <1>10, <1>11, <1>12, <1>14, <1>15, StartingKeeps

(* A restart keeps the invariant: nobody waits any more.                   *)
LEMMA RestartKeeps ==
    ASSUME IInv, TypeOK', Restart
    PROVE  IInv'
<1>1. /\ UNCHANGED <<desired, asked, seen>>
      /\ queue' = <<>> /\ blocked' = <<>>
      /\ \A k \in Keys : waiters'[k] = {} /\ answering'[k] = {}
    BY DEF Restart, history
<1>2. \A r \in Requests :
         \/ request'[r] = request[r] /\ request'[r].state \notin {"waiting", "blocked"}
         \/ /\ request'[r].state = "cancelled" /\ request'[r].key = request[r].key
            /\ request[r].state # "new"
    <2> SUFFICES ASSUME NEW r \in Requests
                 PROVE  \/ /\ request'[r] = request[r]
                           /\ request'[r].state \notin {"waiting", "blocked"}
                        \/ /\ request'[r].state = "cancelled" /\ request'[r].key = request[r].key
                           /\ request[r].state # "new"
        OBVIOUS
    <2>1. request[r] \in RequestState
        BY DEF IInv, TypeOK
    <2>2. \/ request[r].state \notin {"blocked", "waiting"} /\ request'[r] = request[r]
          \/ /\ request[r].state \in {"blocked", "waiting"}
             /\ request'[r] = [request[r] EXCEPT !.state = "cancelled"]
        BY DEF Restart
    <2>3. /\ [request[r] EXCEPT !.state = "cancelled"].state = "cancelled"
          /\ [request[r] EXCEPT !.state = "cancelled"].key = request[r].key
        BY <2>1, RequestStates
    <2> QED
        BY <2>2, <2>3
<1>3. ResponsesAreSent' /\ BlockedAreDistinct' /\ PassesReadAfterTheirCalls'
          /\ ResponsesAreScheduled'
    BY <1>1 DEF ResponsesAreSent, Queued, BlockedAreDistinct, PassesReadAfterTheirCalls,
                ResponsesAreScheduled
<1>4. CallsAreOfThePast'
    BY <1>1, <1>2 DEF IInv, CallsAreOfThePast
<1>5. WaiterSeesItsWrite'
    BY <1>1, <1>2 DEF IInv, WaiterSeesItsWrite
<1>6. HeldOnceByKey'
    BY <1>2 DEF HeldOnceByKey
<1> QED
    BY <1>3, <1>4, <1>5, <1>6 DEF IInv

(* Every step of the scheduler keeps the invariant.                        *)
LEMMA InvariantIsKept ==
    IInv /\ [Next]_vars => IInv'
<1> SUFFICES ASSUME IInv, [Next]_vars
             PROVE  IInv'
    OBVIOUS
<1>1. TypeOK'
    BY TypesAreKept
<1>2. ASSUME NEW k \in Keys, Write(k)
      PROVE  IInv'
    BY <1>1, <1>2, WriteKeeps
<1>3. ASSUME NEW r \in Requests, NEW k \in Keys, Reconcile(r, k)
      PROVE  IInv'
    BY <1>1, <1>3, ReconcileKeeps
<1>4. ASSUME Admit
      PROVE  IInv'
    BY <1>1, <1>4, AdmitKeeps
<1>5. ASSUME NEW r \in Requests, Cancel(r)
      PROVE  IInv'
    BY <1>1, <1>5, CancelKeeps
<1>6. ASSUME Drain
      PROVE  IInv'
    BY <1>1, <1>6, DrainKeeps
<1>7. ASSUME Tick
      PROVE  IInv'
    <2>1. UNCHANGED <<desired, queue, blocked, schedule, request, history>>
        BY <1>7 DEF Tick, schedule, history
    <2> QED
        BY <1>1, <2>1, StutterKeeps
<1>8. ASSUME EnqueueAll \/ ScanFails
      PROVE  IInv'
    BY <1>1, <1>8, ScanKeeps
<1>9. ASSUME NEW k \in Keys, PassReads(k)
      PROVE  IInv'
    BY <1>1, <1>9, PassReadsKeeps
<1>10. ASSUME NEW k \in Keys, PassCompletes(k)
       PROVE  IInv'
    BY <1>1, <1>10, PassCompletesKeeps
<1>11. ASSUME Restart
       PROVE  IInv'
    BY <1>1, <1>11, RestartKeeps
<1>12. ASSUME UNCHANGED vars
       PROVE  IInv'
    <2>1. UNCHANGED <<desired, queue, blocked, schedule, request, history>>
        BY <1>12 DEF vars, schedule, history
    <2> QED
        BY <1>1, <2>1, StutterKeeps
<1> QED
    BY <1>2, <1>3, <1>4, <1>5, <1>6, <1>7, <1>8, <1>9, <1>10, <1>11, <1>12 DEF Next

(* An empty scheduler satisfies the invariant.                             *)
LEMMA InvariantHoldsInitially ==
    Init => IInv
<1> SUFFICES ASSUME Init
             PROVE  IInv
    OBVIOUS
<1>1. TypeOK
    BY CapacitiesArePositive DEF Init, TypeOK, RequestState, Unread
<1>2. ResponsesAreSent /\ BlockedAreDistinct /\ PassesReadAfterTheirCalls
          /\ ResponsesAreScheduled
    BY DEF Init, ResponsesAreSent, Queued, BlockedAreDistinct, PassesReadAfterTheirCalls,
           ResponsesAreScheduled
<1>3. CallsAreOfThePast /\ WaiterSeesItsWrite /\ HeldOnceByKey
    BY DEF Init, CallsAreOfThePast, WaiterSeesItsWrite, HeldOnceByKey
<1> QED
    BY <1>1, <1>2, <1>3 DEF IInv

(* A response is found where the call's key says or nowhere.               *)
LEMMA HeldByKeyIsHeldOnce ==
    IInv => WaiterIsHeldOnce
<1> SUFFICES ASSUME IInv, NEW r \in Requests, request[r].state = "waiting"
             PROVE  \/ InQueue(r) /\ ~InPending(r) /\ ~InRunning(r)
                    \/ ~InQueue(r) /\ InPending(r) /\ ~InRunning(r)
                    \/ ~InQueue(r) /\ ~InPending(r) /\ InRunning(r)
    BY DEF WaiterIsHeldOnce
<1>1. PICK k \in Keys : k = request[r].key
    BY DEF IInv, CallsAreOfThePast
<1>2. InPending(r) <=> r \in waiters[k]
    BY <1>1 DEF IInv, TypeOK, InPending, ResponsesAreSent, Sent, ResponsesAreScheduled
<1>3. InRunning(r) <=> r \in answering[k]
    BY <1>1 DEF IInv, TypeOK, InRunning, ResponsesAreSent, Sent, ResponsesAreScheduled
<1> QED
    BY <1>1, <1>2, <1>3 DEF IInv, HeldOnceByKey

(* The invariant holds throughout.                                         *)
THEOREM Invariance == Spec => []IInv
BY InvariantHoldsInitially, InvariantIsKept, PTL DEF Spec

(* The scheduler's state keeps its types, and the wakeup channel never     *)
(* holds more than its capacity.                                           *)
THEOREM TypeCorrect == Spec => []TypeOK
<1>1. IInv => TypeOK
    BY DEF IInv
<1> QED
    BY <1>1, Invariance, PTL

(* A caller of Wakeup::reconcile is answered only by a pass that read the  *)
(* store after the call was made.                                          *)
THEOREM WaitersSeeTheirWrites == Spec => []WaiterSeesItsWrite
<1>1. IInv => WaiterSeesItsWrite
    BY DEF IInv
<1> QED
    BY <1>1, Invariance, PTL

(* The response of a waiting caller is in exactly one of the channel, the  *)
(* pending map and a running pass.                                         *)
THEOREM WaitersAreHeldOnce == Spec => []WaiterIsHeldOnce
BY HeldByKeyIsHeldOnce, Invariance, PTL

-----------------------------------------------------------------------------
(* How many keys start_pending starts.                                     *)

(* How many elements of a finite set of integers are smaller tells its     *)
(* elements apart.                                                         *)
LEMMA RankTellsApart ==
    ASSUME NEW S \in SUBSET Int, IsFiniteSet(S), NEW j \in S, NEW k \in S, j < k
    PROVE  /\ Cardinality({i \in S : i < j}) \in Nat /\ Cardinality({i \in S : i < k}) \in Nat
           /\ Cardinality({i \in S : i < j}) < Cardinality({i \in S : i < k})
<1> DEFINE low == {i \in S : i < j}
           high == {i \in S : i < k}
<1>1. low \in SUBSET S /\ high \in SUBSET S /\ j \notin low
    OBVIOUS
<1>2. low \cup {j} \in SUBSET high
  <2>1. \A i \in low : i \in S /\ i < k
    OBVIOUS
  <2> QED
    BY <2>1
<1> HIDE DEF low, high
<1>3. IsFiniteSet(low) /\ IsFiniteSet(high)
    BY <1>1, FS_Subset
<1>4. Cardinality(low) \in Nat /\ Cardinality(high) \in Nat
    BY <1>3, FS_CardinalityType
<1>5. Cardinality(low \cup {j}) = Cardinality(low) + 1
    BY <1>1, <1>3, FS_AddElement
<1>6. Cardinality(low \cup {j}) <= Cardinality(high)
    BY <1>1, <1>2, <1>3, FS_Subset
<1>7. Cardinality(low) < Cardinality(high)
    BY <1>4, <1>5, <1>6
<1> QED
    BY <1>4, <1>7 DEF low, high

(* The first n of a finite set of integers are n, or all of it.            *)
LEMMA FirstOnes ==
    ASSUME NEW S \in SUBSET Int, IsFiniteSet(S), NEW n \in Nat
    PROVE  LET T == {k \in S : Cardinality({j \in S : j < k}) < n}
           IN  Cardinality(T) <= n /\ (T # S => Cardinality(T) = n)
<1> DEFINE rank(k) == Cardinality({j \in S : j < k})
           T == {k \in S : rank(k) < n}
           all == [k \in S |-> rank(k)]
           first == [k \in T |-> rank(k)]
<1>1. ASSUME NEW k \in S
      PROVE  rank(k) \in 0..(Cardinality(S) - 1)
  <2> DEFINE low == {j \in S : j < k}
  <2>1. low \in SUBSET (S \ {k})
    OBVIOUS
  <2>2. IsFiniteSet(S \ {k}) /\ Cardinality(S \ {k}) = Cardinality(S) - 1
    BY FS_RemoveElement
  <2> HIDE DEF low
  <2>3. IsFiniteSet(low) /\ Cardinality(low) <= Cardinality(S) - 1
    BY ZenonT(60), <2>1, <2>2, FS_Subset
  <2>4. Cardinality(low) \in Nat /\ Cardinality(S) \in Nat
    BY <2>3, FS_CardinalityType
  <2> QED
    BY <2>3, <2>4 DEF low
<1>2. ASSUME NEW j \in S, NEW k \in S, rank(j) = rank(k)
      PROVE  j = k
  <2>1. ~(j < k) /\ ~(k < j)
    BY <1>2, RankTellsApart
  <2> QED
    BY <2>1
<1>3. Cardinality(S) \in Nat
    BY FS_CardinalityType
<1> HIDE DEF rank
<1>4. T \in SUBSET S /\ \A k \in T : rank(k) \in 0..(n - 1)
    BY <1>1, <1>3
<1>5. first \in Injection(T, 0..(n - 1))
    BY <1>2, <1>4 DEF Injection, IsInjective
<1>6. IsFiniteSet(0..(n - 1)) /\ Cardinality(0..(n - 1)) = n
    BY FS_Interval
<1>7. Cardinality(T) <= n /\ (Cardinality(T) = n <=> first \in Surjection(T, 0..(n - 1)))
  <2> HIDE DEF first, T
  <2> QED
    BY <1>5, <1>6, FS_Injection
<1>8. all \in Injection(S, 0..(Cardinality(S) - 1))
    BY <1>1, <1>2 DEF Injection, IsInjective
<1>9. IsFiniteSet(0..(Cardinality(S) - 1)) /\ Cardinality(0..(Cardinality(S) - 1)) = Cardinality(S)
    BY <1>3, FS_Interval
<1>10. all \in Surjection(S, 0..(Cardinality(S) - 1))
  <2> HIDE DEF all
  <2> QED
    BY <1>8, <1>9, FS_Injection
<1>11. ASSUME T # S
       PROVE  first \in Surjection(T, 0..(n - 1))
  <2>1. PICK k \in S : ~(rank(k) < n)
    BY <1>11
  <2>2. n <= Cardinality(S) - 1
    BY <1>1, <1>3, <2>1
  <2>3. ASSUME NEW m \in 0..(n - 1)
        PROVE  \E i \in T : first[i] = m
    <3>1. m \in 0..(Cardinality(S) - 1)
        BY <1>3, <2>2
    <3>2. PICK i \in S : all[i] = m
        BY <1>10, <3>1 DEF Surjection
    <3>3. rank(i) = m /\ m < n
        BY <3>2
    <3> QED
        BY <3>3
  <2>4. first \in [T -> 0..(n - 1)]
    BY <1>4
  <2> QED
    BY <2>3, <2>4 DEF Surjection
<1> QED
    BY <1>7, <1>11 DEF rank

(* start_pending takes the slots there are, or starts every key it can.    *)
LEMMA StartedTakesTheSlots ==
    ASSUME NEW pend \in SUBSET Keys, NEW run \in SUBSET Keys, Cardinality(run) <= MaxConcurrent,
           NEW wait, NEW answ, NEW rd, StartPending(pend, wait, run, answ, rd)
    PROVE  SlotsAreUsedUp'
<1> DEFINE free == MaxConcurrent - Cardinality(run)
           started == Started(pend, run)
<1>1. pend \ run \in SUBSET Int /\ IsFiniteSet(pend \ run) /\ IsFiniteSet(run)
    BY KeysAreOrdered, FS_Subset
<1>2. Cardinality(run) \in Nat /\ free \in Nat
    BY <1>1, FS_CardinalityType, CapacitiesArePositive
<1>3. Cardinality(started) <= free /\ (started # pend \ run => Cardinality(started) = free)
  <2> HIDE DEF free
  <2>1. started = {k \in pend \ run : Cardinality({j \in pend \ run : j < k}) < free}
    BY DEF Started, free
  <2> HIDE DEF started
  <2> QED
    BY <1>1, <1>2, <2>1, FirstOnes
<1>4. started \in SUBSET (pend \ run)
    BY StartedIsStartable
<1>5. pending' = pend \ started /\ running' = run \cup started
    BY DEF StartPending
<1>6. IsFiniteSet(started) /\ Cardinality(started) \in Nat
  <2> HIDE DEF started
  <2> QED
    BY <1>1, <1>4, FS_Subset, FS_CardinalityType
<1>7. Cardinality(running') = Cardinality(run) + Cardinality(started)
  <2> HIDE DEF started
  <2>1. run \cap started = {}
    BY <1>4
  <2>2. Cardinality(run \cup started) = Cardinality(run) + Cardinality(started) - 0
    BY SMTT(60), <1>1, <1>6, <2>1, FS_Union, FS_EmptySet
  <2>3. Cardinality(run) + Cardinality(started) - 0 = Cardinality(run) + Cardinality(started)
    BY <1>2, <1>6
  <2> QED
    BY <1>5, <2>2, <2>3
<1>8. pending' \ running' # {} => started # pend \ run
    BY <1>5
<1>9. MaxConcurrent \in Nat
    BY CapacitiesArePositive
<1> HIDE DEF started
<1> QED
    BY <1>2, <1>3, <1>6, <1>7, <1>8, <1>9 DEF SlotsAreUsedUp

LEMMA SlotsKept ==
    ASSUME TypeOK, SlotsAreUsedUp, [Next]_vars
    PROVE  SlotsAreUsedUp'
<1>1. pending \in SUBSET Keys /\ running \in SUBSET Keys /\ Cardinality(running) <= MaxConcurrent
    BY DEF TypeOK, SlotsAreUsedUp
<1>2. CASE Drain
  <2>1. \A m \in Queued : m.key \in Keys
    BY QueuedMessages DEF Message
  <2>2. {m.key : m \in Queued} \in SUBSET Keys
    BY <2>1
  <2> QED
    BY <1>1, <1>2, <2>2, StartedTakesTheSlots DEF Drain
<1>3. CASE EnqueueAll \/ ScanFails
    BY <1>1, <1>3, StartedTakesTheSlots DEF EnqueueAll, ScanFails
<1>4. ASSUME NEW k \in Keys, PassCompletes(k)
      PROVE  SlotsAreUsedUp'
  <2>1. IsFiniteSet(running)
    BY <1>1, KeysAreOrdered, FS_Subset
  <2>2. /\ Cardinality(running \ {k}) <= Cardinality(running)
        /\ Cardinality(running \ {k}) \in Nat /\ Cardinality(running) \in Nat
    BY <2>1, FS_RemoveElement, FS_CardinalityType, FS_Subset
  <2>3. running \ {k} \in SUBSET Keys /\ Cardinality(running \ {k}) <= MaxConcurrent
    BY <1>1, <2>2, CapacitiesArePositive
  <2> QED
    BY <1>1, <1>4, <2>3, StartedTakesTheSlots DEF PassCompletes
<1>5. CASE Restart
  <2>1. running' = {} /\ pending' = {}
    BY <1>5 DEF Restart
  <2>2. Cardinality({}) <= MaxConcurrent
    BY FS_EmptySet, CapacitiesArePositive
  <2> QED
    BY <2>1, <2>2 DEF SlotsAreUsedUp
<1>6. CASE UNCHANGED <<pending, running>>
    BY <1>6 DEF SlotsAreUsedUp
<1> QED
    BY <1>2, <1>3, <1>4, <1>5, <1>6
        DEF Next, Write, Reconcile, Admit, Cancel, Tick, PassReads, schedule, vars

(* start_pending leaves no slot free that a pending key could use, and the *)
(* passes are never more than MAX_CONCURRENT_RECONCILES.                   *)
THEOREM SlotsStayUsedUp == Spec => []SlotsAreUsedUp
<1>1. Init => SlotsAreUsedUp
    BY FS_EmptySet, CapacitiesArePositive DEF Init, SlotsAreUsedUp
<1> QED
    BY <1>1, SlotsKept, TypeCorrect, PTL DEF Spec
=============================================================================
