----------------------------- MODULE HostProofs -----------------------------
(***************************************************************************)
(* Proofs about what the host keeps for others: the prompts to a session   *)
(* (SessionPrompts), for any callers, waiters, launches and reports, the   *)
(* messages to its reviewers (ReviewNotifier), for any pull requests, the  *)
(* agents it stores (Desired), for any clients, names and requests, the    *)
(* harness logins (Logins), for any names, futures and agents, and the     *)
(* state file (Store), for any agents, manifests and first files.          *)
(***************************************************************************)
EXTENDS Store, SessionPrompts, ReviewNotifier, Desired, Logins, FiniteSetTheorems, SequenceTheorems, WellFoundedInduction, TLAPS

-----------------------------------------------------------------------------
(* Prompts.                                                                *)

HookReports == [token : Launches, event : Events, left : Nat, flight : Nat]
Callers == [pc : PromptPCs, completed_before : Nat, settling : Activities, news : BOOLEAN]

PromptsAreTyped ==
    /\ row \in [launch : Launches, native : BOOLEAN, activity : Activities,
                life : {"Running", "Idle", "Archived"}, archived : BOOLEAN]
    /\ claimed \subseteq 1..Len(reports)
    /\ harness \in [up : BOOLEAN, busy : BOOLEAN, line : Nat, queue : Nat]
    /\ reports \in Seq(HookReports) /\ Len(reports) <= MaxReports
    /\ \A i \in 1..Len(reports) : reports[i].left + reports[i].flight <= Attempts
    /\ sender \in [Senders -> Callers]
    /\ holder \in Senders \cup {Nobody}
    /\ script \in [Senders -> {"none", "starts", "pasted"}]
    /\ completed \in Nat
    /\ inputs \subseteq {"one", "many"}

(* The lock of the session's deliveries has the holder that is at it, and  *)
(* whoever sleeps waits for that one.                                      *)
LockIsHeld ==
    /\ \A s \in Senders : sender[s].pc \in Holding => holder = s
    /\ holder # Nobody => sender[holder].pc \in Holding
    /\ SleeperHasAHolder

(* A script runs while its caller delivers, or on after its deadline.      *)
ScriptsAreDeliveries ==
    \A s \in Senders : script[s] # "none" => sender[s].pc \in {"delivers", "cut"}

(* Until one is cut short, what the input line holds is one script's.      *)
LineIsOnePrompt ==
    (\A s \in Senders : sender[s].pc # "cut") =>
        /\ "many" \notin inputs
        /\ \/ harness.line = 0
           \/ harness.line = 1 /\ \E s \in Senders : script[s] = "pasted"

(* A turn above the caller's count has come in since it began to deliver.  *)
NewTurnIsNews ==
    /\ \A s \in Senders : sender[s].pc \in {"delivers", "waits"} /\ row.activity.turns > sender[s].completed_before
                            => sender[s].news
    /\ WaitEndsOnANewTurn

(* The reports that were counted, and the turns that this launch completed. *)
Counted == {i \in claimed : reports[i].event = "turnCompleted"}
Completions == {i \in 1..Len(reports) : reports[i].token = row.launch /\ reports[i].event = "turnCompleted"}

ReportsAreCounted ==
    /\ \A i \in 1..Len(reports) : reports[i].token <= row.launch
    /\ \A i \in claimed : reports[i].token = row.launch
    /\ row.activity.turns <= Cardinality(Counted)
    /\ row.activity.stamp <= Cardinality(claimed)
    /\ completed = Cardinality(Completions)

(* Every caller pastes once at most.                                       *)
Pasted == {s \in Senders : sender[s].pc \notin {"new", "tries", "sleeps", "checks"} /\ script[s] # "starts"}
PastesAreCallers == harness.line + harness.queue <= Cardinality(Pasted)

PromptInv ==
    /\ PromptsAreTyped /\ LockIsHeld /\ ScriptsAreDeliveries /\ LineIsOnePrompt
    /\ NewTurnIsNews /\ ReportsAreCounted /\ PastesAreCallers

-----------------------------------------------------------------------------
(* Types of what a step makes.                                             *)

LEMMA PromptNumbers ==
    ASSUME PromptsAreTyped
    PROVE  /\ Attempts \in Nat /\ Attempts # 0 /\ MaxReports \in Nat /\ MaxLaunches \in Nat
           /\ row.launch \in Nat /\ row.launch \in Launches /\ row.native \in BOOLEAN /\ row.archived \in BOOLEAN
           /\ row.activity \in Activities /\ row.activity.turns \in Nat /\ row.activity.stamp \in Nat
           /\ harness.line \in Nat /\ harness.queue \in Nat /\ Len(reports) \in Nat
           /\ \A s \in Senders : /\ sender[s] \in Callers /\ sender[s].completed_before \in Nat
                                 /\ sender[s].pc \in PromptPCs
           /\ \A i \in 1..Len(reports) : reports[i] \in HookReports
           /\ Nobody \notin Senders
BY SessionPromptsConstants DEF PromptsAreTyped, Launches, Activities, Callers, Nobody

LEMMA IndicesAreFinite ==
    ASSUME PromptsAreTyped
    PROVE  IsFiniteSet(1..Len(reports)) /\ Cardinality(1..Len(reports)) = Len(reports)
<1>1. Len(reports) \in Nat
    BY DEF PromptsAreTyped
<1> QED
    BY SMTT(60), <1>1, FS_Interval

LEMMA ClaimedIsFinite ==
    ASSUME PromptsAreTyped
    PROVE  /\ IsFiniteSet(claimed) /\ Cardinality(claimed) \in Nat /\ Cardinality(claimed) <= Len(reports)
           /\ IsFiniteSet(Counted) /\ Cardinality(Counted) \in Nat /\ Cardinality(Counted) <= Cardinality(claimed)
           /\ IsFiniteSet(Completions) /\ Cardinality(Completions) \in Nat
<1> DEFINE all == 1..Len(reports)
<1>1. Len(reports) \in Nat /\ claimed \in SUBSET all
    BY DEF PromptsAreTyped
<1>2. IsFiniteSet(all) /\ Cardinality(all) = Len(reports)
    BY IndicesAreFinite
<1>3. Counted \in SUBSET claimed /\ Completions \in SUBSET all
    BY DEF Counted, Completions
<1> HIDE DEF all
<1> QED
    BY FS_CardinalityType, <1>2, <1>3, FS_Subset, <1>1

(* A hook makes a report: it is the last, and the others stay.             *)
LEMMA ReportAdded ==
    ASSUME PromptsAreTyped, NEW event \in Events, Len(reports) < MaxReports, reports' = Reported(event)
    PROVE  /\ reports' \in Seq(HookReports) /\ Len(reports') = Len(reports) + 1 /\ Len(reports') <= MaxReports
           /\ 1..Len(reports) \subseteq 1..Len(reports')
           /\ \A i \in 1..Len(reports') : i # Len(reports') => i \in 1..Len(reports)
           /\ \A i \in 1..Len(reports) : reports'[i] = reports[i] /\ i # Len(reports')
           /\ Len(reports') \in 1..Len(reports')
           /\ reports'[Len(reports')].token = row.launch /\ reports'[Len(reports')].event = event
           /\ \A i \in 1..Len(reports') : reports'[i].left + reports'[i].flight <= Attempts
<1> DEFINE r == [token |-> row.launch, event |-> event,
                 left |-> IF retryable(event) THEN Attempts - 1 ELSE 0, flight |-> 1]
<1>1. r \in HookReports /\ r.token = row.launch /\ r.event = event
    BY PromptNumbers DEF HookReports
<1>2. r.left + r.flight <= Attempts
    BY PromptNumbers
<1>3. reports' = Append(reports, r)
    BY DEF Reported
<1> HIDE DEF r
<1>6. /\ 1..Len(reports) \subseteq 1..Len(reports') /\ Len(reports') <= MaxReports
      /\ \A i \in 1..Len(reports') : i # Len(reports') => i \in 1..Len(reports)
      /\ \A i \in 1..Len(reports) : i # Len(reports')
      /\ Len(reports') \in 1..Len(reports')
    BY <1>1, <1>3, PromptNumbers DEF PromptsAreTyped
<1> QED
    BY <1>1, <1>6, <1>2, <1>3, PromptNumbers DEF PromptsAreTyped

(* A copy of one is posted or arrives: what it says stays.                 *)
LEMMA ReportTravels ==
    ASSUME PromptsAreTyped, NEW i \in 1..Len(reports), NEW left \in Nat, NEW flight \in Nat,
           left + flight <= Attempts, NEW r, r = [reports[i] EXCEPT !.left = left, !.flight = flight],
           reports' = [reports EXCEPT ![i] = r]
    PROVE  /\ reports' \in Seq(HookReports) /\ Len(reports') = Len(reports)
           /\ \A j \in 1..Len(reports) : reports'[j].token = reports[j].token /\ reports'[j].event = reports[j].event
           /\ \A j \in 1..Len(reports') : reports'[j].left + reports'[j].flight <= Attempts
<1>2. /\ r \in HookReports /\ r.token = reports[i].token /\ r.event = reports[i].event
      /\ r.left = left /\ r.flight = flight
    BY PromptNumbers DEF HookReports
<1> QED
    BY <1>2, ExceptSeq DEF PromptsAreTyped

(* One caller goes on, and nobody else.                                    *)
LEMMA CallerMoves ==
    ASSUME PromptsAreTyped, NEW s \in Senders, NEW pc \in PromptPCs, Moves(s, pc)
    PROVE  /\ sender' \in [Senders -> Callers]
           /\ sender'[s].pc = pc /\ sender'[s].news = sender[s].news
           /\ pc \notin Over => sender'[s].completed_before = sender[s].completed_before
           /\ pc \in Over => sender'[s].completed_before = 0
           /\ \A t \in Senders \ {s} : sender'[t] = sender[t]
<1>1. At(s, pc) \in Callers /\ At(s, pc).pc = pc /\ At(s, pc).news = sender[s].news
      /\ (pc \notin Over => At(s, pc).completed_before = sender[s].completed_before)
      /\ (pc \in Over => At(s, pc).completed_before = 0)
  <2>1. NewSender \in Callers /\ NewSender.completed_before = 0
      BY PromptNumbers DEF NewSender, Callers, PromptPCs, NoActivity, Activities
  <2> QED
      BY <2>1, PromptNumbers DEF At, Callers
<1> HIDE DEF At
<1> QED
    BY <1>1 DEF Moves, PromptsAreTyped

(* The holder ends, and whoever slept tries again.                         *)
LEMMA HolderReleases ==
    ASSUME PromptsAreTyped, LockIsHeld, NEW s \in Senders, sender[s].pc \in Holding,
           NEW pc \in Over \cup {"waits"}, Released(s, pc)
    PROVE  /\ sender' \in [Senders -> Callers]
           /\ sender'[s].pc = pc /\ sender'[s].news = sender[s].news
           /\ pc = "waits" => sender'[s].completed_before = sender[s].completed_before
           /\ \A t \in Senders \ {s} : \/ sender'[t] = sender[t]
                                       \/ sender[t].pc = "sleeps" /\ sender'[t].pc = "tries"
           /\ holder' \in Senders \cup {Nobody} /\ LockIsHeld'
<1>1. At(s, pc) \in Callers /\ At(s, pc).pc = pc /\ At(s, pc).news = sender[s].news
      /\ (pc = "waits" => At(s, pc).completed_before = sender[s].completed_before)
  <2>1. NewSender \in Callers
      BY PromptNumbers DEF NewSender, Callers, PromptPCs, NoActivity, Activities
  <2> QED
      BY <2>1, PromptNumbers DEF At, Callers, Over, PromptPCs
<1> HIDE DEF At
<1> QED
    BY <1>1, PromptNumbers DEF LockIsHeld, SleeperHasAHolder, Holding, Over, Released, Callers,
       PromptPCs

-----------------------------------------------------------------------------
(* What a step leaves alone.                                               *)

LEMMA LockStays ==
    ASSUME LockIsHeld, UNCHANGED <<sender, holder>>
    PROVE  LockIsHeld'
BY DEF LockIsHeld, SleeperHasAHolder

LEMMA ScriptsStay ==
    ASSUME ScriptsAreDeliveries, UNCHANGED <<sender, script>>
    PROVE  ScriptsAreDeliveries'
BY DEF ScriptsAreDeliveries

LEMMA LineStays ==
    ASSUME LineIsOnePrompt, UNCHANGED <<script, inputs>>, harness'.line \in {harness.line, 0},
           \A s \in Senders : sender[s].pc = "cut" => sender'[s].pc = "cut"
    PROVE  LineIsOnePrompt'
BY DEF LineIsOnePrompt

LEMMA NewsStays ==
    ASSUME NewTurnIsNews, UNCHANGED sender, row'.activity = row.activity
    PROVE  NewTurnIsNews'
BY DEF NewTurnIsNews, WaitEndsOnANewTurn

LEMMA CountStays ==
    ASSUME ReportsAreCounted, PromptsAreTyped, UNCHANGED <<claimed, completed>>,
           Len(reports') = Len(reports),
           \A j \in 1..Len(reports) : reports'[j].token = reports[j].token /\ reports'[j].event = reports[j].event,
           row'.activity = row.activity, row'.launch = row.launch
    PROVE  ReportsAreCounted'
<1>1. Counted' = Counted /\ Completions' = Completions
    BY ZenonT(60) DEF Counted, Completions, PromptsAreTyped
<1> QED
    BY <1>1 DEF ReportsAreCounted, PromptsAreTyped

LEMMA PastesStay ==
    ASSUME PastesAreCallers, Pasted \subseteq Pasted',
           harness.line \in Nat, harness.queue \in Nat, harness'.line \in Nat, harness'.queue \in Nat,
           harness'.line + harness'.queue <= harness.line + harness.queue
    PROVE  PastesAreCallers'
<1>1. IsFiniteSet(Pasted') /\ Pasted \in SUBSET Pasted'
  <2>1. Pasted' \in SUBSET Senders
    BY DEF Pasted
  <2> QED
    BY <2>1, SessionPromptsConstants, FS_Subset
<1>2. /\ Cardinality(Pasted) <= Cardinality(Pasted')
      /\ Cardinality(Pasted) \in Nat /\ Cardinality(Pasted') \in Nat
    BY <1>1, FS_Subset, FS_CardinalityType
<1> QED
    BY <1>2 DEF PastesAreCallers

-----------------------------------------------------------------------------
(* The harness and its hooks.                                              *)

(* A turn that ends is one more of this launch; a report that is made is   *)
(* not counted yet.                                                        *)
LEMMA HooksAreRight ==
    ASSUME PromptInv, Boots \/ BeginsTurn \/ AsksOperator \/ EndsTurn
    PROVE  PromptInv'
<1>1. PICK event \in Events :
        /\ Len(reports) < MaxReports /\ reports' = Reported(event)
        /\ completed' = IF event = "turnCompleted" THEN completed + 1 ELSE completed
    BY DEF Boots, BeginsTurn, AsksOperator, EndsTurn, MayReport, Events
<1>2. /\ UNCHANGED <<row, claimed, sender, holder, script, inputs>>
      /\ \/ harness' = harness
         \/ harness.queue > 0 /\ harness' = [harness EXCEPT !.busy = TRUE, !.queue = @ - 1]
         \/ harness' = [harness EXCEPT !.busy = FALSE]
    BY DEF Boots, BeginsTurn, AsksOperator, EndsTurn
<1>3. /\ PromptsAreTyped /\ LockIsHeld /\ ScriptsAreDeliveries /\ LineIsOnePrompt
      /\ NewTurnIsNews /\ ReportsAreCounted /\ PastesAreCallers
    BY DEF PromptInv
<1>4. /\ reports' \in Seq(HookReports) /\ Len(reports') = Len(reports) + 1 /\ Len(reports') <= MaxReports
      /\ 1..Len(reports) \subseteq 1..Len(reports')
      /\ \A i \in 1..Len(reports') : i # Len(reports') => i \in 1..Len(reports)
      /\ \A i \in 1..Len(reports) : reports'[i] = reports[i] /\ i # Len(reports')
      /\ Len(reports') \in 1..Len(reports')
      /\ reports'[Len(reports')].token = row.launch /\ reports'[Len(reports')].event = event
      /\ \A i \in 1..Len(reports') : reports'[i].left + reports'[i].flight <= Attempts
    BY <1>1, <1>3, ReportAdded
<1>5. /\ harness' \in [up : BOOLEAN, busy : BOOLEAN, line : Nat, queue : Nat]
      /\ harness'.line = harness.line /\ harness'.line + harness'.queue <= harness.line + harness.queue
  <2>2. /\ harness' \in [up : BOOLEAN, busy : BOOLEAN, line : Nat, queue : Nat]
        /\ harness'.line = harness.line
        /\ harness'.queue = harness.queue \/ harness'.queue = harness.queue - 1
    <3> DEFINE q == harness.queue - 1
    <3>1. CASE harness.queue > 0 /\ harness' = [harness EXCEPT !.busy = TRUE, !.queue = q]
        <4>1. q \in Nat
            BY <3>1, <1>3, PromptNumbers DEF PromptsAreTyped
        <4> HIDE DEF q
        <4> QED
            BY <3>1, <4>1, <1>3, PromptNumbers DEF q, PromptsAreTyped
    <3>2. CASE harness' = harness \/ harness' = [harness EXCEPT !.busy = FALSE]
        BY <3>2, <1>3, PromptNumbers DEF PromptsAreTyped
    <3> QED
        BY <1>2, <3>1, <3>2
  <2> QED
      BY <2>2, <1>3, PromptNumbers DEF PromptsAreTyped
<1>7. PromptsAreTyped'
    BY <1>2, <1>3, <1>4, <1>5, <1>1 DEF PromptsAreTyped
<1>8. ReportsAreCounted'
  <2>2. Counted' = Counted
      BY <1>2, <1>4, <1>3 DEF Counted, PromptsAreTyped
  <2>3. Completions' = IF event = "turnCompleted" THEN Completions \cup {Len(reports')} ELSE Completions
      BY <1>2, <1>4 DEF Completions
  <2>5. Cardinality(Completions') = IF event = "turnCompleted" THEN Cardinality(Completions) + 1
                                                               ELSE Cardinality(Completions)
      BY <1>3, <2>3, ClaimedIsFinite, FS_AddElement, <1>4 DEF Completions
  <2>8. \A i \in 1..Len(reports') : reports'[i].token <= row.launch
      BY <1>3, PromptNumbers, <1>4 DEF ReportsAreCounted
  <2> QED
      BY <1>3, <2>2, <2>8, <1>4, <1>2, <1>1, <2>5 DEF ReportsAreCounted, PromptsAreTyped
<1>9. LockIsHeld' /\ ScriptsAreDeliveries' /\ LineIsOnePrompt' /\ NewTurnIsNews'
    BY <1>2, <1>3, <1>5, LockStays, ScriptsStay, LineStays, NewsStays
<1> QED
    BY <1>7, <1>8, <1>9, <1>2, <1>3, <1>5, PromptNumbers, PastesStay DEF PromptInv, Pasted

LEMMA PostsIsRight ==
    ASSUME PromptInv, NEW i \in 1..Len(reports), Posts(i)
    PROVE  PromptInv'
<1> DEFINE r == [reports[i] EXCEPT !.left = reports[i].left - 1, !.flight = reports[i].flight + 1]
<1>1. /\ reports[i].left > 0 /\ reports' = [reports EXCEPT ![i] = r]
      /\ UNCHANGED <<row, claimed, harness, sender, holder, script, completed, inputs>>
    BY DEF Posts
<1>3. reports[i].left \in Nat /\ reports[i].flight \in Nat /\ reports[i].left + reports[i].flight <= Attempts
      /\ Attempts \in Nat
    BY PromptNumbers DEF HookReports, PromptsAreTyped, PromptInv
<1>4. /\ reports[i].left - 1 \in Nat /\ reports[i].flight + 1 \in Nat
      /\ (reports[i].left - 1) + (reports[i].flight + 1) <= Attempts
    BY <1>1, <1>3
<1>5. r = [reports[i] EXCEPT !.left = reports[i].left - 1, !.flight = reports[i].flight + 1]
    OBVIOUS
<1> HIDE DEF r
<1>6. /\ reports' \in Seq(HookReports) /\ Len(reports') = Len(reports)
      /\ \A j \in 1..Len(reports) : reports'[j].token = reports[j].token /\ reports'[j].event = reports[j].event
      /\ \A j \in 1..Len(reports') : reports'[j].left + reports'[j].flight <= Attempts
    BY <1>1, <1>4, <1>5, ReportTravels DEF PromptInv
<1>8. ReportsAreCounted'
    BY <1>1, <1>6, CountStays DEF PromptInv
<1> QED
    BY <1>8, <1>1, LockStays, ScriptsStay, LineStays, NewsStays, <1>6 DEF PromptInv,
       PastesAreCallers, Pasted, PromptsAreTyped

(* What a report does to the activity: a completed turn counts one.        *)
LEMMA Folding ==
    ASSUME PromptsAreTyped, NEW event \in Events
    PROVE  LET a == folded(row.activity, event) IN
           /\ a.phase \in {"Unknown", "Working", "WaitingForInput"}
           /\ a.turns \in Nat /\ a.stamp \in Nat
           /\ a.turns = IF event = "turnCompleted" THEN row.activity.turns + 1 ELSE row.activity.turns
           /\ a.stamp <= row.activity.stamp + 1
           /\ a = [phase |-> a.phase, turns |-> a.turns, stamp |-> a.stamp]
BY PromptNumbers DEF folded, Activities

(* A report counts once, for the launch that made it: a copy and a report  *)
(* of an earlier launch change nothing.                                    *)
LEMMA ArrivesIsRight ==
    ASSUME PromptInv, NEW i \in 1..Len(reports), NEW answered \in BOOLEAN, Arrives(i, answered)
    PROVE  PromptInv'
<1> DEFINE left == IF answered THEN 0 ELSE reports[i].left
           r == [reports[i] EXCEPT !.flight = reports[i].flight - 1, !.left = left]
<1>1. /\ reports[i].flight > 0 /\ reports' = [reports EXCEPT ![i] = r]
      /\ UNCHANGED <<harness, holder, script, completed, inputs>>
    BY DEF Arrives
<1>2. /\ PromptsAreTyped /\ LockIsHeld /\ ScriptsAreDeliveries /\ LineIsOnePrompt
      /\ NewTurnIsNews /\ ReportsAreCounted /\ PastesAreCallers
    BY DEF PromptInv
<1>3. reports[i] \in HookReports /\ reports[i].left \in Nat /\ reports[i].flight \in Nat
      /\ reports[i].left + reports[i].flight <= Attempts /\ Attempts \in Nat
    BY <1>2, PromptNumbers DEF HookReports, PromptsAreTyped
<1>4. /\ left \in Nat /\ reports[i].flight - 1 \in Nat
      /\ left + (reports[i].flight - 1) <= Attempts
    BY <1>1, <1>3
<1>5. r = [reports[i] EXCEPT !.left = left, !.flight = reports[i].flight - 1]
    BY <1>3 DEF HookReports
<1> HIDE DEF r, left
<1>6. /\ reports' \in Seq(HookReports) /\ Len(reports') = Len(reports)
      /\ \A j \in 1..Len(reports) : reports'[j].token = reports[j].token /\ reports'[j].event = reports[j].event
      /\ \A j \in 1..Len(reports') : reports'[j].left + reports'[j].flight <= Attempts
    BY <1>1, <1>2, <1>4, <1>5, ReportTravels
<1>7. CASE ~begin_report(i)
  <2>1. UNCHANGED <<claimed, row, sender>>
    BY <1>7 DEF Arrives
  <2>2. PromptsAreTyped'
    BY <1>1, <1>2, <1>6, <2>1 DEF PromptsAreTyped
  <2>3. ReportsAreCounted'
    BY <1>1, <1>2, <1>6, <2>1, CountStays
  <2>4. LockIsHeld' /\ ScriptsAreDeliveries' /\ LineIsOnePrompt' /\ NewTurnIsNews'
    BY <1>1, <1>2, <2>1, LockStays, ScriptsStay, LineStays, NewsStays
  <2>5. PastesAreCallers'
    BY <1>1, <1>2, <2>1 DEF PastesAreCallers, Pasted
  <2> QED
    BY <2>2, <2>3, <2>4, <2>5 DEF PromptInv
<1>8. CASE begin_report(i)
  <2> DEFINE event == reports[i].event
             a == folded(row.activity, event)
             news == [s \in Senders |-> sender[s].news \/ (event = "turnCompleted"
                                                           /\ sender[s].pc \in {"delivers", "waits"})]
  <2>1. /\ claimed' = claimed \cup {i} /\ i \notin claimed /\ reports[i].token = row.launch
        /\ row' = [row EXCEPT !.activity = a, !.native = IF event = "sessionStart" THEN TRUE ELSE @]
        /\ sender' = [s \in Senders |-> [sender[s] EXCEPT !.news = news[s]]]
    BY <1>8 DEF Arrives, begin_report
  <2>2. event \in Events
    BY <1>3 DEF HookReports
  <2>3. /\ a.turns \in Nat /\ a.stamp \in Nat
        /\ a.turns = IF event = "turnCompleted" THEN row.activity.turns + 1 ELSE row.activity.turns
        /\ a.stamp <= row.activity.stamp + 1
        /\ a.phase \in {"Unknown", "Working", "WaitingForInput"}
        /\ a = [phase |-> a.phase, turns |-> a.turns, stamp |-> a.stamp]
    BY <1>2, <2>2, Folding
  <2>4. \A s \in Senders : /\ news[s] \in BOOLEAN
                           /\ sender[s].news => news[s]
                           /\ event = "turnCompleted" /\ sender[s].pc \in {"delivers", "waits"} => news[s]
    <3>1. \A s \in Senders : sender[s].news \in BOOLEAN
        BY <1>2, PromptNumbers DEF Callers
    <3> QED
        BY <3>1
  <2> HIDE DEF a, news, event
  <2>5. /\ sender' \in [Senders -> Callers]
        /\ \A s \in Senders : /\ sender'[s].pc = sender[s].pc /\ sender'[s].news = news[s]
                              /\ sender'[s].completed_before = sender[s].completed_before
    <3>1. \A s \in Senders : sender[s] \in Callers
        BY <1>2, PromptNumbers
    <3>2. \A s \in Senders : /\ [sender[s] EXCEPT !.news = news[s]] \in Callers
                             /\ [sender[s] EXCEPT !.news = news[s]].pc = sender[s].pc
                             /\ [sender[s] EXCEPT !.news = news[s]].news = news[s]
                             /\ [sender[s] EXCEPT !.news = news[s]].completed_before = sender[s].completed_before
        BY <2>4, <3>1 DEF Callers
    <3> QED
        BY <2>1, <3>2
  <2>6. /\ claimed \subseteq 1..Len(reports) /\ claimed' \subseteq 1..Len(reports')
    BY <1>2, <1>6, <2>1 DEF PromptsAreTyped
  <2>7. \A j \in claimed' : reports'[j].token = reports[j].token /\ reports'[j].event = reports[j].event
    BY <1>6, <2>6
  <2>8. Cardinality(claimed') = Cardinality(claimed) + 1 /\ IsFiniteSet(claimed')
    BY <1>2, <2>1, ClaimedIsFinite, FS_AddElement
  <2>9. Cardinality(Counted') = IF event = "turnCompleted" THEN Cardinality(Counted) + 1 ELSE Cardinality(Counted)
    <3>1. Counted' = IF event = "turnCompleted" THEN Counted \cup {i} ELSE Counted
        BY <2>1, <2>7 DEF Counted, event
    <3>2. i \notin Counted
        BY <2>1 DEF Counted
    <3> QED
        BY <1>2, <3>1, <3>2, ClaimedIsFinite, FS_AddElement
  <2>10. /\ row'.launch = row.launch /\ row'.activity = a /\ row'.life = row.life /\ row'.archived = row.archived
         /\ row'.native \in BOOLEAN
         /\ row' = [launch |-> row.launch, native |-> row'.native, activity |-> a, life |-> row.life,
                    archived |-> row.archived]
    BY <1>2, <2>1 DEF PromptsAreTyped
  <2>11. /\ a.turns <= Cardinality(Counted') /\ a.stamp <= Cardinality(claimed')
         /\ Cardinality(Counted') <= MaxReports /\ Cardinality(claimed') <= MaxReports
    <3>1. /\ row.activity.turns <= Cardinality(Counted) /\ row.activity.stamp <= Cardinality(claimed)
          /\ Cardinality(Counted) \in Nat /\ Cardinality(claimed) \in Nat /\ Cardinality(Counted) <= Cardinality(claimed)
          /\ row.activity.turns \in Nat /\ row.activity.stamp \in Nat
        BY <1>2, ClaimedIsFinite, PromptNumbers DEF ReportsAreCounted
    <3>2. Cardinality(claimed') <= MaxReports
        <4>1. claimed' \in SUBSET (1..Len(reports)) /\ Len(reports) \in Nat /\ Len(reports) <= MaxReports
              /\ MaxReports \in Nat
            BY <1>2, <1>6, <2>6, PromptNumbers DEF PromptsAreTyped
        <4>2. IsFiniteSet(1..Len(reports)) /\ Cardinality(1..Len(reports)) = Len(reports)
            BY <1>2, IndicesAreFinite
        <4>3. Cardinality(claimed') <= Cardinality(1..Len(reports))
            BY <4>1, <4>2, FS_Subset
        <4> QED
            BY <2>8, <3>1, <4>1, <4>2, <4>3
    <3>3. Cardinality(Counted') <= Cardinality(claimed) + 1
        BY <2>9, <3>1
    <3>4. a.turns <= Cardinality(Counted')
        BY <2>3, <2>9, <3>1
    <3>5. a.stamp <= Cardinality(claimed')
        BY <2>3, <2>8, <3>1
    <3> QED
        BY <1>2, <2>8, <2>9, <3>1, <3>2, <3>3, <3>4, <3>5, PromptNumbers
  <2>12. a \in Activities
    <3>1. a.turns \in 0..MaxReports /\ a.stamp \in 0..MaxReports
        <4>1. Cardinality(Counted') \in Nat /\ Cardinality(claimed') \in Nat /\ MaxReports \in Nat
            BY SMTT(60), <1>2, <2>8, <2>9, ClaimedIsFinite, PromptNumbers
        <4> QED
            BY <2>3, <2>11, <4>1
    <3> QED
        BY <2>3, <3>1 DEF Activities
  <2>13. PromptsAreTyped'
    <3>1. row' \in [launch : Launches, native : BOOLEAN, activity : Activities,
                    life : {"Running", "Idle", "Archived"}, archived : BOOLEAN]
        BY <1>2, <2>10, <2>12 DEF PromptsAreTyped
    <3> QED
        BY <1>1, <1>2, <1>6, <2>5, <2>6, <3>1 DEF PromptsAreTyped
  <2>14. ReportsAreCounted'
    <3>1. Completions' = Completions
        BY <1>6, <2>10 DEF Completions
    <3>2. \A j \in claimed' : reports'[j].token = row'.launch
        BY <1>2, <2>1, <2>7, <2>10 DEF ReportsAreCounted
    <3>3. \A j \in 1..Len(reports') : reports'[j].token <= row'.launch
        BY <1>2, <1>6, <2>10 DEF ReportsAreCounted
    <3>4. completed' = Cardinality(Completions')
        BY <1>1, <1>2, <3>1 DEF ReportsAreCounted
    <3> QED
        BY <2>10, <2>11, <3>2, <3>3, <3>4 DEF ReportsAreCounted
  <2>15. NewTurnIsNews'
    <3>1. ASSUME NEW s \in Senders, sender[s].pc \in {"delivers", "waits"}, a.turns > sender[s].completed_before
          PROVE  news[s]
        <4>1. sender[s].completed_before \in Nat /\ row.activity.turns \in Nat
            BY <1>2, PromptNumbers
        <4>2. CASE event = "turnCompleted"
            BY <2>4, <3>1, <4>2
        <4>3. CASE event # "turnCompleted"
            <5>1. a.turns = row.activity.turns
                BY <2>3, <4>3
            <5> QED
                BY <1>2, <2>4, <3>1, <5>1 DEF NewTurnIsNews
        <4> QED
            BY <4>2, <4>3
    <3>2. WaitEndsOnANewTurn'
        <4>1. Waiters \subseteq Senders
            BY SessionPromptsConstants
        <4> QED
            BY <1>2, <2>4, <2>5, <4>1 DEF NewTurnIsNews, WaitEndsOnANewTurn
    <3> QED
        BY <2>5, <2>10, <3>1, <3>2 DEF NewTurnIsNews
  <2>16. LockIsHeld'
    BY <1>1, <1>2, <2>5 DEF LockIsHeld, SleeperHasAHolder, PromptsAreTyped
  <2>17. ScriptsAreDeliveries' /\ LineIsOnePrompt'
    BY <1>1, <1>2, <2>5 DEF ScriptsAreDeliveries, LineIsOnePrompt
  <2>18. PastesAreCallers'
    <3>1. Pasted' = Pasted
        BY <1>1, <2>5 DEF Pasted
    <3> QED
        BY <1>1, <1>2, <3>1 DEF PastesAreCallers
  <2> QED
    BY <2>13, <2>14, <2>15, <2>16, <2>17, <2>18 DEF PromptInv
<1> QED
    BY <1>7, <1>8

-----------------------------------------------------------------------------
(* The session's lifecycle.                                                *)

(* A new launch has completed nothing, and no report of it was made.       *)
LEMMA RelaunchesIsRight ==
    ASSUME PromptInv, Relaunches
    PROVE  PromptInv'
<1>3. /\ NoActivity \in Activities /\ NoActivity.turns = 0 /\ NoActivity.stamp = 0
    BY PromptNumbers DEF NoActivity, Activities, PromptInv
<1>4. row.launch + 1 \in Launches /\ row.launch \in Nat
    BY PromptNumbers DEF Launches, PromptInv, Relaunches
<1>5. /\ row' \in [launch : Launches, native : BOOLEAN, activity : Activities,
                   life : {"Running", "Idle", "Archived"}, archived : BOOLEAN]
      /\ row'.launch = row.launch + 1 /\ row'.activity = NoActivity
    BY <1>3, <1>4 DEF PromptsAreTyped, PromptInv, Relaunches
<1>6. /\ harness' \in [up : BOOLEAN, busy : BOOLEAN, line : Nat, queue : Nat]
      /\ harness'.line = 0 /\ harness'.queue = 0 /\ harness.line = 0 /\ harness.queue = 0
    BY DEF NoHarness, Relaunches
<1>8. ReportsAreCounted'
  <2>3. Counted' = {} /\ Completions' = {}
      BY <1>5, <1>4, PromptNumbers DEF Counted, Completions, ReportsAreCounted, HookReports,
         Launches, PromptInv, Relaunches
  <2> QED
      BY <1>3, <1>5, <2>3, FS_EmptySet, <1>4, PromptNumbers DEF ReportsAreCounted, HookReports,
         Launches, PromptInv, Relaunches
<1>9. NewTurnIsNews'
    BY PromptNumbers, <1>3 DEF NewTurnIsNews, WaitEndsOnANewTurn, PromptInv, Relaunches
<1>10. LockIsHeld' /\ ScriptsAreDeliveries' /\ LineIsOnePrompt'
    BY <1>6, LockStays, ScriptsStay, LineStays DEF PromptInv, Relaunches
<1> QED
    BY <1>8, <1>9, <1>10, <1>6, PastesStay, <1>5 DEF PromptInv, Pasted, PromptsAreTyped, Relaunches

LEMMA LifecycleIsRight ==
    ASSUME PromptInv, Archives \/ \E life \in {"Idle", "Archived"} : HarnessStops(life)
    PROVE  PromptInv'
<1>1. /\ harness' \in {harness, NoHarness}
      /\ \/ row' = [row EXCEPT !.archived = TRUE]
         \/ \E life \in {"Idle", "Archived"} : row' = [row EXCEPT !.life = life]
      /\ UNCHANGED <<claimed, reports, sender, holder, script, completed, inputs>>
    BY DEF Archives, HarnessStops
<1>4. /\ NoHarness \in [up : BOOLEAN, busy : BOOLEAN, line : Nat, queue : Nat]
      /\ NoHarness.line = 0 /\ NoHarness.queue = 0
    BY DEF NoHarness
<1>6. PromptsAreTyped'
    BY <1>1, <1>4 DEF PromptsAreTyped, PromptInv
<1>7. LockIsHeld' /\ ScriptsAreDeliveries' /\ LineIsOnePrompt' /\ NewTurnIsNews'
    BY <1>1, LockStays, ScriptsStay, LineStays, NewsStays, <1>4 DEF PromptsAreTyped, PromptInv
<1>8. ReportsAreCounted'
    BY <1>1, CountStays DEF PromptsAreTyped, PromptInv
<1> QED
    BY <1>6, <1>7, <1>8, <1>1, PromptNumbers, <1>4, PastesStay DEF PromptInv, Pasted

-----------------------------------------------------------------------------
(* The callers.                                                            *)

LEMMA PromptsIsRight ==
    ASSUME PromptInv, NEW s \in Senders, Prompts(s) \/ acquire(s)
    PROVE  PromptInv'
<1>1. /\ sender[s].pc \in {"new", "tries"}
      /\ UNCHANGED <<row, claimed, harness, reports, script, completed, inputs>>
    BY DEF Prompts, acquire
<1>2. PICK pc \in {"tries", "failed", "checks", "sleeps"} :
        /\ Moves(s, pc)
        /\ holder' = IF pc = "checks" THEN s ELSE holder
        /\ pc = "checks" => holder = Nobody
        /\ pc = "sleeps" => holder # Nobody
    BY DEF Prompts, acquire
<1>4. /\ sender' \in [Senders -> Callers] /\ sender'[s].pc = pc
      /\ \A t \in Senders \ {s} : sender'[t] = sender[t]
    BY <1>2, CallerMoves DEF PromptPCs, Holding, Over, PromptInv
<1>5. PromptsAreTyped'
    BY <1>1, <1>2, <1>4 DEF PromptsAreTyped, PromptInv
<1>6. LockIsHeld'
    BY <1>1, <1>2, <1>4, PromptNumbers DEF LockIsHeld, SleeperHasAHolder, Holding, PromptsAreTyped,
       PromptInv
<1>7. ScriptsAreDeliveries'
    BY <1>1, <1>4 DEF ScriptsAreDeliveries, PromptInv
<1>8. LineIsOnePrompt'
    BY <1>1, <1>4, LineStays DEF PromptInv
<1>9. NewTurnIsNews'
    BY SessionPromptsConstants, <1>1, <1>4 DEF NewTurnIsNews, WaitEndsOnANewTurn, PromptInv
<1>10. ReportsAreCounted'
    BY <1>1, CountStays DEF PromptInv
<1>11. PastesAreCallers'
    BY <1>1, <1>4, PromptNumbers, PastesStay DEF Pasted, PromptInv
<1> QED
    BY <1>5, <1>6, <1>7, <1>8, <1>9, <1>10, <1>11 DEF PromptInv

(* The count that a delivery compares with is read before it begins.       *)
LEMMA BecomesReadyIsRight ==
    ASSUME PromptInv, NEW s \in Senders, BecomesReady(s)
    PROVE  PromptInv'
<1>3. sender[s] \in Callers /\ row.activity.turns \in Nat
    BY PromptNumbers DEF PromptInv
<1>6. PromptsAreTyped'
    BY <1>3 DEF PromptsAreTyped, Callers, PromptPCs, Holding, PromptInv, BecomesReady
<1>7. LockIsHeld'
    BY <1>3 DEF LockIsHeld, SleeperHasAHolder, Holding, PromptsAreTyped, Callers, PromptPCs,
       PromptInv, BecomesReady
<1>8. ScriptsAreDeliveries'
    BY <1>3 DEF ScriptsAreDeliveries, PromptsAreTyped, Callers, PromptPCs, Holding, PromptInv,
       BecomesReady
<1>9. LineIsOnePrompt'
    BY <1>3 DEF ScriptsAreDeliveries, LineIsOnePrompt, Callers, PromptPCs, Holding, PromptsAreTyped,
       PromptInv, BecomesReady
<1>10. NewTurnIsNews'
    BY <1>3, SessionPromptsConstants DEF NewTurnIsNews, WaitEndsOnANewTurn, Callers, PromptPCs,
       Holding, PromptsAreTyped, PromptInv, BecomesReady
<1>11. ReportsAreCounted'
    BY CountStays DEF PromptInv, BecomesReady
<1>12. PastesAreCallers'
    BY PromptNumbers, PastesStay, <1>3 DEF Pasted, Callers, PromptPCs, Holding, PromptsAreTyped,
       PromptInv, BecomesReady
<1> QED
    BY <1>6, <1>7, <1>8, <1>9, <1>10, <1>11, <1>12 DEF PromptInv

(* Only the holder's script runs until one is cut short, so it pastes into *)
(* an empty line.                                                          *)
LEMMA PastesIsRight ==
    ASSUME PromptInv, NEW s \in Senders, Pastes(s)
    PROVE  PromptInv'
<1>1. /\ script[s] = "starts" /\ harness' = [harness EXCEPT !.line = @ + 1]
      /\ script' = [script EXCEPT ![s] = "pasted"]
      /\ UNCHANGED <<row, claimed, reports, sender, holder, completed, inputs>>
    BY DEF Pastes
<1>2. /\ PromptsAreTyped /\ LockIsHeld /\ ScriptsAreDeliveries /\ LineIsOnePrompt
      /\ NewTurnIsNews /\ ReportsAreCounted /\ PastesAreCallers
    BY DEF PromptInv
<1>4. /\ harness' \in [up : BOOLEAN, busy : BOOLEAN, line : Nat, queue : Nat]
      /\ harness'.line = harness.line + 1 /\ harness'.queue = harness.queue
      /\ harness.line \in Nat /\ harness.queue \in Nat
  <2> DEFINE n == harness.line + 1
  <2> HIDE DEF n
  <2> QED
      BY <1>2, <1>1, PromptNumbers DEF n, PromptsAreTyped
<1>5. PromptsAreTyped'
    BY <1>1, <1>2, <1>4 DEF PromptsAreTyped
<1>9. LockIsHeld' /\ NewTurnIsNews' /\ ReportsAreCounted'
    BY <1>1, <1>2, LockStays, NewsStays, CountStays
<1>10. PastesAreCallers'
  <2>1. Pasted' = Pasted \cup {s} /\ s \notin Pasted
      BY <1>1, <1>2 DEF Pasted, ScriptsAreDeliveries, PromptsAreTyped
  <2>3. Cardinality(Pasted') = Cardinality(Pasted) + 1 /\ Cardinality(Pasted) \in Nat
      BY <2>1, FS_AddElement, FS_CardinalityType, SessionPromptsConstants, FS_Subset DEF Pasted
  <2> QED
      BY <1>4, <2>3, <1>2 DEF PastesAreCallers
<1> QED
    BY <1>5, <1>9, <1>10, <1>1, <1>2 DEF PromptInv, ScriptsAreDeliveries, LineIsOnePrompt,
       LockIsHeld, Holding, PromptsAreTyped

-----------------------------------------------------------------------------
(* The holder ends: nobody else delivered, so nothing else changes.        *)
LEMMA HolderEnds ==
    ASSUME PromptInv, NEW s \in Senders, sender[s].pc \in Holding, NEW pc \in Over \cup {"waits"}, Released(s, pc),
           row' = row, pc = "waits" => sender[s].pc = "delivers", pc = "done" => s \notin Waiters
    PROVE  /\ sender' \in [Senders -> Callers] /\ sender'[s].pc = pc
           /\ \A t \in Senders \ {s} : sender'[t] = sender[t] \/ (sender[t].pc = "sleeps" /\ sender'[t].pc = "tries")
           /\ \A t \in Senders : sender[t].pc = "cut" => sender'[t].pc = "cut"
           /\ holder' \in Senders \cup {Nobody} /\ LockIsHeld' /\ NewTurnIsNews'
BY HolderReleases, SessionPromptsConstants DEF PromptInv, Holding, NewTurnIsNews,
   WaitEndsOnANewTurn, Over

LEMMA NeverReadyIsRight ==
    ASSUME PromptInv, NEW s \in Senders, NeverReady(s)
    PROVE  PromptInv'
<1>3. /\ sender' \in [Senders -> Callers] /\ sender'[s].pc = "failed"
      /\ \A t \in Senders \ {s} : sender'[t] = sender[t] \/ (sender[t].pc = "sleeps" /\ sender'[t].pc = "tries")
      /\ \A t \in Senders : sender[t].pc = "cut" => sender'[t].pc = "cut"
      /\ holder' \in Senders \cup {Nobody} /\ LockIsHeld' /\ NewTurnIsNews'
    BY HolderEnds DEF Holding, Over, NeverReady
<1>5. ScriptsAreDeliveries'
    BY <1>3 DEF ScriptsAreDeliveries, PromptInv, NeverReady
<1>6. LineIsOnePrompt' /\ ReportsAreCounted'
    BY <1>3, LineStays, CountStays DEF PromptInv, NeverReady
<1> QED
    BY <1>3, <1>5, <1>6, PromptNumbers, PastesStay DEF PromptInv, Pasted, PromptsAreTyped,
       NeverReady

(* A script ends, and its caller with it unless that one was cut short.    *)
LEMMA ScriptEnds ==
    ASSUME PromptInv, NEW s \in Senders, NEW pc \in Over \cup {"waits"}, pc = "done" => s \notin Waiters,
           script[s] # "none", script' = [script EXCEPT ![s] = "none"], row' = row,
           IF sender[s].pc = "delivers" THEN Released(s, pc) ELSE UNCHANGED <<sender, holder>>
    PROVE  /\ sender' \in [Senders -> Callers] /\ holder' \in Senders \cup {Nobody}
           /\ script' \in [Senders -> {"none", "starts", "pasted"}]
           /\ \A t \in Senders : sender[t].pc = "cut" => sender'[t].pc = "cut"
           /\ \A t \in Senders \ {s} : script'[t] = script[t]
           /\ Pasted \subseteq Pasted'
           /\ LockIsHeld' /\ NewTurnIsNews' /\ ScriptsAreDeliveries'
<1>1. PromptsAreTyped /\ LockIsHeld /\ NewTurnIsNews /\ ScriptsAreDeliveries
    BY DEF PromptInv
<1>2. script' \in [Senders -> {"none", "starts", "pasted"}] /\ script'[s] = "none"
      /\ \A t \in Senders \ {s} : script'[t] = script[t]
    BY <1>1 DEF PromptsAreTyped
<1>3. sender[s].pc \in {"delivers", "cut"}
    BY <1>1 DEF ScriptsAreDeliveries
<1>4. CASE sender[s].pc = "delivers"
  <2>1. /\ sender' \in [Senders -> Callers] /\ sender'[s].pc = pc
        /\ \A t \in Senders \ {s} : sender'[t] = sender[t] \/ (sender[t].pc = "sleeps" /\ sender'[t].pc = "tries")
        /\ \A t \in Senders : sender[t].pc = "cut" => sender'[t].pc = "cut"
        /\ holder' \in Senders \cup {Nobody} /\ LockIsHeld' /\ NewTurnIsNews'
    BY <1>4, HolderEnds DEF Holding
  <2>2. ScriptsAreDeliveries'
    BY <1>1, <1>2, <2>1 DEF ScriptsAreDeliveries
  <2>3. Pasted \subseteq Pasted'
    BY <1>2, <2>1 DEF Pasted, Over
  <2> QED
    BY <1>2, <2>1, <2>2, <2>3
<1>5. CASE sender[s].pc = "cut"
  <2>1. UNCHANGED <<sender, holder>>
    BY <1>5
  <2>2. LockIsHeld' /\ NewTurnIsNews'
    BY <1>1, <2>1, LockStays, NewsStays
  <2>3. ScriptsAreDeliveries'
    BY <1>1, <1>2, <2>1 DEF ScriptsAreDeliveries
  <2>4. Pasted \subseteq Pasted'
    BY <1>2, <2>1 DEF Pasted
  <2> QED
    BY <1>1, <1>2, <2>1, <2>2, <2>3, <2>4 DEF PromptsAreTyped
<1> QED
    BY <1>3, <1>4, <1>5

(* The line that is submitted holds what this script pasted.               *)
LEMMA SubmitsIsRight ==
    ASSUME PromptInv, NEW s \in Senders, Submits(s)
    PROVE  PromptInv'
<1> DEFINE pc == IF s \in Waiters THEN "waits" ELSE "done"
<1>1. /\ script[s] = "pasted" /\ script' = [script EXCEPT ![s] = "none"]
      /\ IF harness.line = 0 THEN UNCHANGED <<harness, inputs>>
         ELSE /\ harness' = [harness EXCEPT !.queue = @ + 1, !.line = 0]
              /\ inputs' = inputs \cup {IF harness.line = 1 THEN "one" ELSE "many"}
      /\ IF sender[s].pc = "delivers" THEN Released(s, pc) ELSE UNCHANGED <<sender, holder>>
      /\ UNCHANGED <<row, claimed, reports, completed>>
    BY DEF Submits
<1>3. pc \in Over \cup {"waits"} /\ (pc = "done" => s \notin Waiters)
    BY DEF Over
<1> HIDE DEF pc
<1>4. /\ sender' \in [Senders -> Callers] /\ holder' \in Senders \cup {Nobody}
      /\ script' \in [Senders -> {"none", "starts", "pasted"}]
      /\ \A t \in Senders : sender[t].pc = "cut" => sender'[t].pc = "cut"
      /\ \A t \in Senders \ {s} : script'[t] = script[t]
      /\ Pasted \subseteq Pasted'
      /\ LockIsHeld' /\ NewTurnIsNews' /\ ScriptsAreDeliveries'
    BY <1>1, <1>3, ScriptEnds
<1>5. /\ harness' \in [up : BOOLEAN, busy : BOOLEAN, line : Nat, queue : Nat] /\ harness'.line = 0
      /\ harness'.line + harness'.queue <= harness.line + harness.queue
      /\ harness.line \in Nat /\ harness.queue \in Nat /\ harness'.line \in Nat /\ harness'.queue \in Nat
  <2>2. CASE harness.line = 0
      BY <1>1, <2>2, PromptNumbers DEF PromptsAreTyped, PromptInv
  <2>3. CASE harness.line # 0
    <3> DEFINE q == harness.queue + 1
    <3>1. q \in Nat /\ harness' = [harness EXCEPT !.queue = q, !.line = 0]
        BY <1>1, <2>3, PromptNumbers DEF PromptsAreTyped, PromptInv
    <3> HIDE DEF q
    <3>2. /\ harness' \in [up : BOOLEAN, busy : BOOLEAN, line : Nat, queue : Nat]
          /\ harness'.line = 0 /\ harness'.queue = q
        BY <3>1, PromptNumbers DEF PromptsAreTyped, PromptInv
    <3> QED
        BY <3>1, <3>2, <2>3, PromptNumbers DEF q, PromptsAreTyped, PromptInv
  <2> QED
      BY <2>2, <2>3
<1> QED
    BY <1>4, <1>5, PastesStay, <1>1, CountStays DEF PromptInv, LineIsOnePrompt, PromptsAreTyped

LEMMA ScriptFailsIsRight ==
    ASSUME PromptInv, NEW s \in Senders, ScriptFails(s)
    PROVE  PromptInv'
<1>3. /\ sender' \in [Senders -> Callers] /\ holder' \in Senders \cup {Nobody}
      /\ script' \in [Senders -> {"none", "starts", "pasted"}]
      /\ \A t \in Senders : sender[t].pc = "cut" => sender'[t].pc = "cut"
      /\ \A t \in Senders \ {s} : script'[t] = script[t]
      /\ Pasted \subseteq Pasted'
      /\ LockIsHeld' /\ NewTurnIsNews' /\ ScriptsAreDeliveries'
  <2>1. "failed" \in Over \cup {"waits"}
      BY DEF Over
  <2> QED
      BY <2>1, ScriptEnds DEF ScriptFails
<1>5. LineIsOnePrompt'
    BY <1>3 DEF LineIsOnePrompt, NoHarness, PromptInv, ScriptFails
<1> QED
    BY <1>3, <1>5, PromptNumbers, PastesStay, CountStays DEF PromptInv, PromptsAreTyped, ScriptFails

LEMMA DeliveryTimesOutIsRight ==
    ASSUME PromptInv, NEW s \in Senders, NEW killed \in BOOLEAN, DeliveryTimesOut(s, killed)
    PROVE  PromptInv'
<1>1. /\ sender[s].pc = "delivers" /\ Released(s, "cut")
      /\ script' = [script EXCEPT ![s] = IF killed THEN "none" ELSE script[s]]
      /\ UNCHANGED <<row, claimed, harness, reports, completed, inputs>>
    BY DEF DeliveryTimesOut
<1>3. /\ sender' \in [Senders -> Callers] /\ sender'[s].pc = "cut"
      /\ \A t \in Senders \ {s} : sender'[t] = sender[t] \/ (sender[t].pc = "sleeps" /\ sender'[t].pc = "tries")
      /\ \A t \in Senders : sender[t].pc = "cut" => sender'[t].pc = "cut"
      /\ holder' \in Senders \cup {Nobody} /\ LockIsHeld' /\ NewTurnIsNews'
    BY <1>1, HolderEnds DEF Holding, Over
<1>9. PastesAreCallers'
    BY <1>3, PromptNumbers, <1>1, PastesStay DEF Pasted, PromptInv
<1> QED
    BY <1>3, <1>9, <1>1, CountStays DEF PromptInv, LineIsOnePrompt, ScriptsAreDeliveries,
       PromptsAreTyped

-----------------------------------------------------------------------------
(* The wait for the completed turn.                                        *)

(* A poll ends well only when the count has passed the caller's.           *)
LEMMA PollsIsRight ==
    ASSUME PromptInv, NEW s \in Senders, Polls(s) \/ WaitTimesOut(s)
    PROVE  PromptInv'
<1>3. PICK r : /\ sender' = [sender EXCEPT ![s] = r]
               /\ \/ r = At(s, "failed")
                  \/ r = At(s, "done") /\ Settled(s)
                  \/ r = [sender[s] EXCEPT !.settling = row.activity]
                  \/ r = [sender[s] EXCEPT !.settling = NoActivity,
                              !.completed_before = IF row.activity.turns > sender[s].completed_before
                                                   THEN row.activity.turns ELSE sender[s].completed_before]
    BY DEF WaitTimesOut, Moves, Polls, polled
<1>4. /\ sender[s] \in Callers /\ row.activity \in Activities /\ NoActivity \in Activities /\ NewSender \in Callers
      /\ row.activity.turns \in Nat /\ sender[s].completed_before \in Nat
    BY PromptNumbers DEF NewSender, NoActivity, Activities, Callers, PromptPCs, PromptInv
<1>5. /\ r \in Callers /\ r.news = sender[s].news
      /\ \/ r.pc = "failed"
         \/ r.pc = "done" /\ row.activity.turns > sender[s].completed_before
         \/ r.pc = "waits" /\ r.completed_before = sender[s].completed_before
         \/ r.pc = "waits" /\ ~(row.activity.turns > r.completed_before)
  <2>1. CASE r = At(s, "failed")
      BY <1>4, <2>1 DEF At, Over, Callers, PromptPCs
  <2>2. CASE r = At(s, "done") /\ Settled(s)
      BY <1>4, <2>2 DEF At, Over, Callers, PromptPCs, Settled
  <2>3. CASE r = [sender[s] EXCEPT !.settling = row.activity]
      BY <1>4, <2>3 DEF Callers, Polls, WaitTimesOut
  <2>4. CASE r = [sender[s] EXCEPT !.settling = NoActivity,
                      !.completed_before = IF row.activity.turns > sender[s].completed_before
                                           THEN row.activity.turns ELSE sender[s].completed_before]
    <3> DEFINE n == IF row.activity.turns > sender[s].completed_before
                    THEN row.activity.turns ELSE sender[s].completed_before
    <3>1. n \in Nat /\ ~(row.activity.turns > n)
        BY <1>4
    <3>2. r = [sender[s] EXCEPT !.settling = NoActivity, !.completed_before = n]
        BY <2>4
    <3> HIDE DEF n
    <3> QED
        BY <3>1, <1>4, <3>2 DEF Callers, Polls, WaitTimesOut
  <2> QED
      BY <1>3, <2>1, <2>2, <2>3, <2>4
<1>7. PromptsAreTyped'
    BY <1>3, <1>5 DEF PromptsAreTyped, PromptInv, Polls, WaitTimesOut
<1>8. LockIsHeld'
    BY <1>5, <1>3 DEF LockIsHeld, SleeperHasAHolder, Holding, PromptsAreTyped, PromptInv, Polls,
       WaitTimesOut
<1>9. ScriptsAreDeliveries'
    BY <1>3, <1>5 DEF ScriptsAreDeliveries, PromptsAreTyped, PromptInv, Polls, WaitTimesOut
<1>10. LineIsOnePrompt'
    BY LineStays, <1>3, <1>5 DEF PromptsAreTyped, PromptInv, Polls, WaitTimesOut
<1>11. NewTurnIsNews'
    BY SessionPromptsConstants, <1>5, <1>3 DEF NewTurnIsNews, WaitEndsOnANewTurn, PromptsAreTyped,
       PromptInv, Polls, WaitTimesOut
<1>12. ReportsAreCounted'
    BY CountStays DEF PromptInv, Polls, WaitTimesOut
<1>13. PastesAreCallers'
    BY <1>5, PromptNumbers, PastesStay, <1>3 DEF Pasted, PromptsAreTyped, PromptInv, Polls,
       WaitTimesOut
<1> QED
    BY <1>7, <1>8, <1>9, <1>10, <1>11, <1>12, <1>13 DEF PromptInv

-----------------------------------------------------------------------------
(* The invariant is inductive, and it is more than the property.           *)

LEMMA PromptInitIsRight ==
    ASSUME PromptInit
    PROVE  PromptInv
<1>1. /\ row = [launch |-> 1, native |-> FALSE, activity |-> NoActivity, life |-> "Running", archived |-> FALSE]
      /\ claimed = {} /\ harness = [NoHarness EXCEPT !.up = TRUE] /\ reports = <<>>
      /\ sender = [s \in Senders |-> NewSender] /\ holder = Nobody
      /\ script = [s \in Senders |-> "none"] /\ completed = 0 /\ inputs = {}
    BY DEF PromptInit
<1>4. /\ harness \in [up : BOOLEAN, busy : BOOLEAN, line : Nat, queue : Nat]
      /\ harness.line = 0 /\ harness.queue = 0
    BY <1>1 DEF NoHarness
<1>6. \A s \in Senders : sender[s] = NewSender /\ sender[s].pc = "new" /\ script[s] = "none"
    BY <1>1, SessionPromptsConstants DEF NoActivity, Activities, NewSender, Callers, PromptPCs,
       Launches
<1>7. PromptsAreTyped
    BY <1>1, <1>4, SessionPromptsConstants DEF PromptsAreTyped, NoActivity, Activities, NewSender,
       Callers, PromptPCs, Launches
<1>8. LockIsHeld /\ ScriptsAreDeliveries /\ LineIsOnePrompt
    BY <1>1, <1>4, <1>6 DEF LockIsHeld, SleeperHasAHolder, Holding, ScriptsAreDeliveries, LineIsOnePrompt
<1>10. ReportsAreCounted
    BY <1>1, FS_EmptySet, SessionPromptsConstants DEF Counted, Completions, ReportsAreCounted,
       NoActivity, Activities, NewSender, Callers, PromptPCs, Launches
<1> QED
    BY <1>7, <1>8, <1>10, SessionPromptsConstants, FS_Subset, FS_CardinalityType, <1>4, <1>6 DEF
       PromptInv, Pasted, PastesAreCallers, NewTurnIsNews, WaitEndsOnANewTurn

LEMMA PromptStutterIsRight ==
    ASSUME PromptInv, UNCHANGED promptVars
    PROVE  PromptInv'
BY LockStays, ScriptsStay, LineStays, NewsStays, CountStays DEF promptVars, PromptInv,
   PromptsAreTyped, PastesAreCallers, Pasted

LEMMA PromptStepIsRight ==
    ASSUME PromptInv, [PromptNext]_promptVars
    PROVE  PromptInv'
<1>1. CASE UNCHANGED promptVars
    BY <1>1, PromptStutterIsRight
<1>2. ASSUME NEW s \in Senders, SenderStep(s)
      PROVE  PromptInv'
  <2>1. CASE Prompts(s) \/ acquire(s)
      BY <2>1, PromptsIsRight
  <2>2. CASE BecomesReady(s)
      BY <2>2, BecomesReadyIsRight
  <2>3. CASE NeverReady(s)
      BY <2>3, NeverReadyIsRight
  <2>4. CASE Pastes(s)
      BY <2>4, PastesIsRight
  <2>5. CASE Submits(s)
      BY <2>5, SubmitsIsRight
  <2>6. CASE ScriptFails(s)
      BY <2>6, ScriptFailsIsRight
  <2>7. CASE \E killed \in BOOLEAN : DeliveryTimesOut(s, killed)
      BY <2>7, DeliveryTimesOutIsRight
  <2>8. CASE Polls(s) \/ WaitTimesOut(s)
      BY <2>8, PollsIsRight
  <2> QED
      BY <1>2, <2>1, <2>2, <2>3, <2>4, <2>5, <2>6, <2>7, <2>8 DEF SenderStep
<1>3. CASE Boots \/ BeginsTurn \/ AsksOperator \/ EndsTurn
    BY <1>3, HooksAreRight
<1>4. ASSUME NEW i \in 1..Len(reports), Posts(i)
      PROVE  PromptInv'
    BY <1>4, PostsIsRight
<1>5. ASSUME NEW i \in 1..Len(reports), NEW answered \in BOOLEAN, Arrives(i, answered)
      PROVE  PromptInv'
    BY <1>5, ArrivesIsRight
<1>6. CASE Relaunches
    BY <1>6, RelaunchesIsRight
<1>7. CASE Archives \/ \E life \in {"Idle", "Archived"} : HarnessStops(life)
    BY <1>7, LifecycleIsRight
<1> QED
    BY <1>1, <1>2, <1>3, <1>4, <1>5, <1>6, <1>7 DEF PromptNext

LEMMA PromptInvIsEnough ==
    ASSUME PromptInv
    PROVE  PromptsArriveOnce
<1>2. TurnsAreCountedOnce
  <2>1. Counted \in SUBSET Completions
      BY DEF Counted, Completions, ReportsAreCounted, PromptsAreTyped, PromptInv
  <2> QED
      BY ClaimedIsFinite, PromptNumbers, <2>1, FS_Subset DEF TurnsAreCountedOnce, ReportsAreCounted,
         PromptInv
<1>3. PromptTypeOK
  <2>1. /\ harness \in [up : BOOLEAN, busy : BOOLEAN, line : Nat, queue : Nat]
        /\ harness.line \in 0..Cardinality(Senders) /\ harness.queue \in 0..Cardinality(Senders)
      BY SessionPromptsConstants, FS_Subset, FS_CardinalityType DEF Pasted, PastesAreCallers,
         PromptsAreTyped, PromptInv
  <2> QED
      BY PromptNumbers, <2>1 DEF PromptTypeOK, PromptsAreTyped, HookReports, PromptInv
<1> QED
    BY <1>2, <1>3 DEF PromptsArriveOnce, LineIsOnePrompt, PromptsAreNotMixed, NewTurnIsNews,
       LockIsHeld, PromptInv

(* Prompts to one session are typed one at a time and each is submitted by *)
(* itself unless a delivery was cut short, nobody sleeps on a delivery that *)
(* is over, a turn is counted once however often its report comes, and who  *)
(* waited saw a turn that ended after the prompt (sessions/service.rs).     *)
THEOREM PromptsStayOnce == PromptSpec => []PromptsArriveOnce
<1>1. PromptInit => PromptInv
    BY PromptInitIsRight
<1>2. PromptInv /\ [PromptNext]_promptVars => PromptInv'
    BY PromptStepIsRight
<1>3. PromptInv => PromptsArriveOnce
    BY PromptInvIsEnough
<1> QED
    BY <1>1, <1>2, <1>3, PTL DEF PromptSpec

-----------------------------------------------------------------------------
(* Review notifications.                                                   *)

Busy == {"sends", "clears", "confirms"}
MarkedIn(markers) == markers.notified \cup markers.pending

NotifierIsTyped ==
    /\ pull \in [PullRequests -> Pulls]
    /\ state_file \in [readable : BOOLEAN, markers : Markers]
    /\ state_file.markers.notified \cap state_file.markers.pending = {}
    /\ memory \in Markers /\ memory.notified \cap memory.pending = {}
    /\ storeLoaded \in BOOLEAN
    /\ dmChannel \in {"none", "open", "stale"}
    /\ received \in [PullRequests -> Nat]
    /\ doubtful \subseteq PullRequests /\ interrupted \subseteq PullRequests /\ warranted \subseteq PullRequests

(* The cycle's own record: a list, an answer and a selection for each of   *)
(* its steps.                                                              *)
CycleIsTyped ==
    /\ notifier = [pc |-> notifier.pc, repos |-> notifier.repos, repo |-> notifier.repo, listed |-> notifier.listed,
                   blocked |-> notifier.blocked, auto |-> notifier.auto, checks |-> notifier.checks,
                   selected |-> notifier.selected, one |-> notifier.one]
    /\ notifier.pc \in {"idle", "repos", "owners", "files", "selects", "marks"} \cup Busy
    /\ notifier.checks \subseteq PullRequests /\ notifier.selected \subseteq PullRequests
    /\ notifier.pc \in Busy => notifier.one \in PullRequests

(* A file that is not loaded is not polled for, and nothing is in memory.  *)
LoadedBeforeAPoll == ~storeLoaded => notifier = Started /\ memory = [notified |-> {}, pending |-> {}]

(* The file never lacks a marker that is in memory.                        *)
MemoryIsOnFile == storeLoaded => MarkedIn(memory) \subseteq MarkedIn(state_file.markers)

(* What Slack received is marked, on file and in memory once it is loaded. *)
SentIsKnown ==
    /\ SentIsMarked
    /\ storeLoaded => \A p \in PullRequests \ doubtful : received[p] > 0 => p \in MarkedIn(memory)

(* The message under way is pending, and it is the first or in doubt.      *)
SendIsTheFirst ==
    /\ notifier.pc \in Busy => notifier.one \in memory.pending
    /\ notifier.pc \in {"sends", "clears"} => received[notifier.one] = 0 \/ notifier.one \in doubtful
    /\ notifier.pc = "confirms" => received[notifier.one] > 0

(* Whatever the poll has read of a pull request was so during the poll.    *)
PollReadsThisPoll ==
    /\ notifier.pc # "idle" => \A p \in PullRequests : WaitsForAPerson(pull[p]) => p \in warranted
    /\ notifier.listed \ notifier.auto \subseteq warranted
    /\ notifier.blocked \subseteq warranted
    /\ OnlyForAPerson

NotifierInv ==
    /\ NotifierIsTyped /\ CycleIsTyped /\ LoadedBeforeAPoll /\ MemoryIsOnFile /\ SentIsKnown /\ MessagedOnce
    /\ SendIsTheFirst /\ SilenceHasACause /\ PollReadsThisPoll

LEMMA CycleMoves ==
    ASSUME CycleIsTyped, NEW pc, GoesTo(pc)
    PROVE  /\ notifier' = [pc |-> pc, repos |-> notifier.repos, repo |-> notifier.repo, listed |-> notifier.listed,
                           blocked |-> notifier.blocked, auto |-> notifier.auto, checks |-> notifier.checks,
                           selected |-> notifier.selected, one |-> notifier.one]
           /\ notifier'.pc = pc /\ notifier'.listed = notifier.listed /\ notifier'.blocked = notifier.blocked
           /\ notifier'.auto = notifier.auto /\ notifier'.checks = notifier.checks
           /\ notifier'.selected = notifier.selected /\ notifier'.one = notifier.one
BY DEF CycleIsTyped, GoesTo

LEMMA StartedIsIdle ==
    /\ Started = [pc |-> "idle", repos |-> Started.repos, repo |-> Started.repo, listed |-> {}, blocked |-> {},
                  auto |-> {}, checks |-> {}, selected |-> {}, one |-> Started.one]
    /\ Started.pc = "idle" /\ Started.listed = {} /\ Started.blocked = {} /\ Started.auto = {}
    /\ Started.checks = {} /\ Started.selected = {}
BY DEF Started

(* A step that only reads for the poll.                                    *)
LEMMA ReadingIsRight ==
    ASSUME NotifierInv, notifier.pc \notin Busy \cup {"idle"}, notifier'.pc \notin Busy,
           UNCHANGED <<pull, rules, state_file, memory, storeLoaded, dmChannel, received, doubtful, interrupted, warranted>>,
           CycleIsTyped', PollReadsThisPoll'
    PROVE  NotifierInv'
<1>3. NotifierIsTyped' /\ MessagedOnce' /\ MemoryIsOnFile'
    BY DEF NotifierIsTyped, MessagedOnce, MemoryIsOnFile, MarkedIn, NotifierInv
<1> QED
    BY <1>3, StartedIsIdle DEF NotifierInv, SendIsTheFirst, SilenceHasACause, Busy, SentIsKnown,
       SentIsMarked, MarkedIn, LoadedBeforeAPoll

LEMMA ListsRepoIsRight ==
    ASSUME NotifierInv, NEW r \in Repos, ListsRepo(r)
    PROVE  NotifierInv'
<1> DEFINE here == {p \in PullRequests : RepoOf[p] = r /\ Awaiting(pull[p])}
           auto == {p \in here : AutoMerge(pull[p])}
           pc == IF auto = {} THEN "selects" ELSE "owners"
<1>1. /\ notifier.pc = "repos"
      /\ notifier' = [notifier EXCEPT !.pc = pc, !.repos = notifier.repos \ {r}, !.repo = r,
                                      !.listed = here, !.auto = auto, !.checks = auto, !.blocked = {}]
      /\ UNCHANGED <<pull, rules, state_file, memory, storeLoaded, dmChannel, received, doubtful, interrupted, warranted>>
    BY DEF ListsRepo, Now
<1>3. here \ auto \subseteq warranted
    BY <1>1 DEF NotifierIsTyped, AutoMerge, Pulls, WaitsForAPerson, PollReadsThisPoll, NotifierInv
<1>4. here \subseteq PullRequests /\ auto \subseteq PullRequests /\ pc \in {"selects", "owners"}
    OBVIOUS
<1> HIDE DEF here, auto, pc
<1> QED
    BY <1>1, <1>4, ReadingIsRight, <1>3 DEF Busy, PollReadsThisPoll, OnlyForAPerson,
       WaitsForAPerson, CycleIsTyped, NotifierInv

LEMMA PollsOnIsRight ==
    ASSUME NotifierInv, ReadsOwners \/ RepoFails \/ RepoEnds \/ CycleEnds
    PROVE  NotifierInv'
<1>1. /\ notifier.pc \in {"owners", "files", "marks", "repos"}
      /\ UNCHANGED <<pull, rules, state_file, memory, storeLoaded, dmChannel, received, doubtful, interrupted, warranted>>
    BY DEF ReadsOwners, RepoFails, RepoEnds, CycleEnds, Now
<1>2. PICK pc \in {"selects", "files", "repos", "idle"} : GoesTo(pc)
    BY DEF ReadsOwners, RepoFails, RepoEnds, CycleEnds
<1> QED
    BY <1>1, ReadingIsRight, <1>2, CycleMoves DEF Busy, PollReadsThisPoll, OnlyForAPerson,
       WaitsForAPerson, CycleIsTyped, NotifierInv

(* A pull request is blocked when it touches an owned path as it is read.  *)
LEMMA ReadsFilesIsRight ==
    ASSUME NotifierInv, NEW p \in PullRequests, ReadsFiles(p)
    PROVE  NotifierInv'
BY ReadingIsRight DEF ReadsFiles, Now, NotifierInv, PollReadsThisPoll, WaitsForAPerson,
   CycleIsTyped, Busy, OnlyForAPerson

LEMMA SelectsIsRight ==
    ASSUME NotifierInv, Selects
    PROVE  NotifierInv'
BY ReadingIsRight DEF Selects, Now, NotifierInv, PollReadsThisPoll, NotifierIsTyped, CycleIsTyped,
   OnlyForAPerson, WaitsForAPerson,
   Busy ----------------------------------------------------------------------------- (* The message and its marker. *)

LEMMA WritesTheMarkers ==
    ASSUME NotifierIsTyped, memory' \in Markers, memory'.notified \cap memory'.pending = {}, NEW written \in BOOLEAN, persist(written)
    PROVE  /\ state_file' \in [readable : BOOLEAN, markers : Markers]
           /\ state_file'.markers.notified \cap state_file'.markers.pending = {}
           /\ written => state_file'.markers = memory'
           /\ ~written => state_file' = state_file
BY DEF persist, NotifierIsTyped

(* The marker is written before the message: what has no marker in memory  *)
(* was not received, or is in doubt.                                       *)
LEMMA MarkPendingIsRight ==
    ASSUME NotifierInv, NEW p \in PullRequests, markPending(p)
    PROVE  NotifierInv'
<1>1. PICK written \in BOOLEAN :
        /\ memory' = IF written THEN [memory EXCEPT !.pending = memory.pending \cup {p}] ELSE memory
        /\ persist(written)
        /\ notifier' = [notifier EXCEPT !.pc = IF written THEN "sends" ELSE "marks", !.one = p,
                                        !.selected = notifier.selected \ {p}]
    BY DEF markPending
<1>2. /\ notifier.pc = "marks" /\ ~has(p)
      /\ UNCHANGED <<pull, rules, storeLoaded, dmChannel, received, doubtful, interrupted, warranted>>
    BY DEF markPending, Now
<1>4. storeLoaded
    BY <1>2, StartedIsIdle DEF LoadedBeforeAPoll, NotifierInv
<1> DEFINE pc == IF written THEN "sends" ELSE "marks"
<1>7. /\ state_file' \in [readable : BOOLEAN, markers : Markers]
      /\ state_file'.markers.notified \cap state_file'.markers.pending = {}
      /\ written => state_file'.markers = memory'
      /\ ~written => state_file' = state_file
    BY <1>1, WritesTheMarkers, <1>2 DEF NotifierIsTyped, Markers, has, NotifierInv
<1>8. NotifierIsTyped' /\ MessagedOnce'
    BY <1>2, <1>7, <1>1 DEF NotifierIsTyped, MessagedOnce, Markers, has, NotifierInv
<1>10. LoadedBeforeAPoll' /\ MemoryIsOnFile'
    BY <1>2, <1>4, <1>7, <1>1 DEF LoadedBeforeAPoll, MemoryIsOnFile, MarkedIn, NotifierIsTyped,
       Markers, has, NotifierInv
<1>11. SentIsKnown'
    BY <1>2, <1>4, <1>7, <1>1 DEF SentIsKnown, SentIsMarked, MarkedIn, NotifierIsTyped, Markers,
       has, NotifierInv
<1>12. SendIsTheFirst'
    BY <1>2, <1>4, <1>1 DEF SentIsKnown, MarkedIn, has, NotifierIsTyped, SendIsTheFirst, Busy,
       Markers, CycleIsTyped, NotifierInv
<1>13. SilenceHasACause'
    BY <1>2, <1>4, <1>7, <1>1 DEF SilenceHasACause, MemoryIsOnFile, MarkedIn, NotifierIsTyped,
       Markers, has, CycleIsTyped, NotifierInv
<1> QED
    BY <1>8, <1>10, <1>11, <1>12, <1>13, <1>2, <1>1 DEF NotifierInv, CycleIsTyped, Busy,
       PollReadsThisPoll, OnlyForAPerson, WaitsForAPerson

LEMMA OneMore ==
    \A m \in Nat : m + 1 \in Nat /\ m + 1 > 0 /\ (m + 1 > 1 => m # 0)
OBVIOUS

(* A message received without an answer is in doubt; no other is repeated. *)
LEMMA NotifyIsRight ==
    ASSUME NotifierInv, notify
    PROVE  NotifierInv'
<1> DEFINE p == notifier.one
<1>1. PICK outcome \in {"sent", "lost", "in doubt"} :
        /\ dmChannel' = IF outcome = "sent" THEN "open" ELSE "none"
        /\ received' = IF outcome = "lost" THEN received ELSE [received EXCEPT ![p] = @ + 1]
        /\ doubtful' = IF outcome = "in doubt" THEN doubtful \cup {p} ELSE doubtful
        /\ GoesTo(IF outcome = "sent" THEN "confirms" ELSE "clears")
    BY DEF notify
<1>2. /\ notifier.pc = "sends"
      /\ UNCHANGED <<pull, rules, state_file, memory, storeLoaded, interrupted, warranted>>
    BY DEF notify, Now
<1>5. p \in PullRequests /\ received[p] \in Nat /\ p \in memory.pending /\ (received[p] = 0 \/ p \in doubtful)
    BY <1>2 DEF CycleIsTyped, SendIsTheFirst, Busy, NotifierIsTyped, NotifierInv
<1> DEFINE pc == IF outcome = "sent" THEN "confirms" ELSE "clears"
           n == received[p] + 1
<1>6. /\ notifier' = [pc |-> pc, repos |-> notifier.repos, repo |-> notifier.repo, listed |-> notifier.listed,
                      blocked |-> notifier.blocked, auto |-> notifier.auto, checks |-> notifier.checks,
                      selected |-> notifier.selected, one |-> notifier.one]
      /\ notifier'.pc = pc /\ notifier'.listed = notifier.listed /\ notifier'.blocked = notifier.blocked
      /\ notifier'.auto = notifier.auto /\ notifier'.checks = notifier.checks
      /\ notifier'.selected = notifier.selected /\ notifier'.one = p
    BY <1>1, CycleMoves DEF NotifierInv
<1>7. n \in Nat /\ n > 0 /\ (n > 1 => received[p] # 0)
    BY <1>5, OneMore
<1>8. received' = IF outcome = "lost" THEN received ELSE [received EXCEPT ![p] = n]
    BY <1>1
<1> HIDE DEF n, p, pc
<1>10. /\ doubtful' \subseteq PullRequests /\ doubtful \subseteq doubtful' /\ doubtful' \subseteq doubtful \cup {p}
       /\ outcome = "in doubt" => p \in doubtful'
       /\ dmChannel' \in {"none", "open", "stale"}
    BY <1>1, <1>5 DEF NotifierIsTyped, NotifierInv
<1>12. NotifierIsTyped' /\ CycleIsTyped' /\ PollReadsThisPoll'
    BY <1>2, <1>10, <1>6, <1>5, <1>7, <1>8 DEF NotifierIsTyped, CycleIsTyped, Busy,
       PollReadsThisPoll, OnlyForAPerson, WaitsForAPerson, pc, NotifierInv
<1>14. SentIsKnown'
    BY <1>5, <1>2, <1>10, <1>7, <1>8, StartedIsIdle DEF MemoryIsOnFile, MarkedIn, SentIsKnown,
       SentIsMarked, NotifierIsTyped, LoadedBeforeAPoll, NotifierInv
<1>15. MessagedOnce'
    BY <1>5, <1>10, <1>7, <1>8 DEF MessagedOnce, NotifierIsTyped, NotifierInv
<1>16. SendIsTheFirst'
    BY <1>2, <1>5, <1>6, <1>7, <1>10, <1>8 DEF SendIsTheFirst, Busy, pc, NotifierIsTyped,
       NotifierInv
<1>17. SilenceHasACause'
  <2>1. ASSUME NEW q \in MarkedIn(state_file.markers)
        PROVE  received'[q] > 0 \/ q \in interrupted \/ (notifier'.pc = "clears" /\ notifier'.one = q)
    <3>1. CASE q = p
        BY <1>6, <1>7, <3>1, <1>5, <1>8 DEF pc, NotifierIsTyped, NotifierInv
    <3>2. CASE q # p
        BY <3>2, <1>5, <1>7, <1>8 DEF NotifierIsTyped, Markers, MarkedIn, SilenceHasACause, p,
           NotifierInv
    <3> QED
        BY <3>1, <3>2
  <2> QED
      BY <1>2, <2>1 DEF SilenceHasACause, MarkedIn
<1> QED
    BY <1>12, <1>14, <1>15, <1>16, <1>17, <1>2, StartedIsIdle DEF NotifierInv, LoadedBeforeAPoll,
       MemoryIsOnFile, MarkedIn

(* The marker leaves memory while the file may keep it: what it names was  *)
(* received, or is interrupted from now on.                                *)
LEMMA MarkerEndsIsRight ==
    ASSUME NotifierInv, markNotified \/ clearPending
    PROVE  NotifierInv'
<1> DEFINE p == notifier.one
<1>1. PICK written \in BOOLEAN :
        /\ persist(written)
        /\ \/ /\ notifier.pc = "confirms" /\ interrupted' = interrupted
              /\ memory' = [notified |-> memory.notified \cup {p}, pending |-> memory.pending \ {p}]
           \/ /\ notifier.pc = "clears"
              /\ interrupted' = IF written THEN interrupted ELSE interrupted \cup {p}
              /\ memory' = [memory EXCEPT !.pending = memory.pending \ {p}]
    BY DEF markNotified, clearPending, Now
<1>2. /\ GoesTo("marks")
      /\ UNCHANGED <<pull, rules, storeLoaded, dmChannel, received, doubtful, warranted>>
    BY DEF markNotified, clearPending
<1>5. /\ p \in PullRequests /\ received[p] \in Nat /\ p \in memory.pending /\ p \notin memory.notified
      /\ notifier.pc = "clears" => received[p] = 0 \/ p \in doubtful
      /\ notifier.pc = "confirms" => received[p] > 0
    BY <1>1 DEF CycleIsTyped, SendIsTheFirst, Busy, NotifierIsTyped, NotifierInv
<1> HIDE DEF p
<1>10. NotifierIsTyped' /\ CycleIsTyped' /\ PollReadsThisPoll'
    BY <1>2, <1>1, <1>5, WritesTheMarkers, CycleMoves DEF NotifierIsTyped, CycleIsTyped,
       PollReadsThisPoll, OnlyForAPerson, WaitsForAPerson, Markers, MarkedIn, NotifierInv
<1>12. LoadedBeforeAPoll' /\ MemoryIsOnFile' /\ MessagedOnce'
    BY <1>2, <1>1, WritesTheMarkers, <1>5, StartedIsIdle DEF LoadedBeforeAPoll, MemoryIsOnFile,
       MessagedOnce, NotifierIsTyped, Markers, MarkedIn, NotifierInv
<1>13. SentIsKnown'
    BY <1>5, <1>1, <1>2, WritesTheMarkers, StartedIsIdle DEF SentIsKnown, SentIsMarked, MarkedIn,
       MemoryIsOnFile, NotifierIsTyped, Markers, LoadedBeforeAPoll, NotifierInv
<1>14. SendIsTheFirst'
    BY <1>2, CycleMoves DEF SendIsTheFirst, Busy, NotifierInv
<1>15. SilenceHasACause'
    BY <1>1, <1>2, WritesTheMarkers, <1>5, StartedIsIdle DEF SilenceHasACause, MarkedIn, p,
       MemoryIsOnFile, NotifierIsTyped, Markers, LoadedBeforeAPoll, NotifierInv
<1> QED
    BY <1>10, <1>12, <1>13, <1>14, <1>15 DEF NotifierInv
-----------------------------------------------------------------------------
(* The cycle's begin and the surroundings.                                 *)

LEMMA StartedIsTyped ==
    ASSUME notifier = Started
    PROVE  CycleIsTyped
BY DEF Started, CycleIsTyped, Busy

(* Whoever waits for a person as the cycle begins is warranted from then.  *)
LEMMA PollOnceIsRight ==
    ASSUME NotifierInv, pollOnce
    PROVE  NotifierInv'
<1>1. /\ notifier.pc = "idle" /\ warranted' = {p \in PullRequests : WaitsForAPerson(pull[p])}
      /\ UNCHANGED <<pull, rules, state_file, dmChannel, received, doubtful, interrupted>>
      /\ \/ ~storeLoaded /\ UNCHANGED <<memory, storeLoaded, notifier>>
         \/ /\ memory' = IF storeLoaded THEN memory ELSE state_file.markers
            /\ storeLoaded' = TRUE /\ notifier' = [Started EXCEPT !.pc = "repos"]
    BY DEF pollOnce, Now
<1>3. SilenceHasACause' /\ MessagedOnce'
    BY <1>1 DEF SilenceHasACause, MessagedOnce, NotifierInv
<1>5. CASE ~storeLoaded /\ UNCHANGED <<memory, storeLoaded, notifier>>
  <2>2. NotifierIsTyped'
      BY <1>1, <1>5 DEF NotifierIsTyped, NotifierInv
  <2>3. CycleIsTyped'
      BY <1>5 DEF CycleIsTyped, NotifierInv
  <2> QED
      BY <1>3, <2>2, <2>3, StartedIsIdle, <1>1, <1>5 DEF NotifierInv, SendIsTheFirst, Busy,
         PollReadsThisPoll, OnlyForAPerson, LoadedBeforeAPoll, MemoryIsOnFile, SentIsKnown,
         SentIsMarked
<1>6. CASE /\ memory' = IF storeLoaded THEN memory ELSE state_file.markers
           /\ storeLoaded' = TRUE /\ notifier' = [Started EXCEPT !.pc = "repos"]
  <2>3. /\ memory' \in Markers /\ memory'.notified \cap memory'.pending = {}
        /\ MarkedIn(memory') \subseteq MarkedIn(state_file.markers)
        /\ \A p \in PullRequests \ doubtful : received[p] > 0 => p \in MarkedIn(memory')
      BY <1>6 DEF MemoryIsOnFile, MarkedIn, SentIsKnown, NotifierIsTyped, SentIsMarked, NotifierInv
  <2>6. LoadedBeforeAPoll' /\ MemoryIsOnFile' /\ SentIsKnown'
      BY <1>1, <1>6, <2>3 DEF LoadedBeforeAPoll, MemoryIsOnFile, SentIsKnown, SentIsMarked,
         NotifierInv
  <2> QED
      BY <1>3, <2>6, <1>1, <1>6, <2>3 DEF NotifierInv, SendIsTheFirst, Busy, PollReadsThisPoll,
         OnlyForAPerson, CycleIsTyped, NotifierIsTyped, Started, WaitsForAPerson
<1> QED
    BY <1>1, <1>5, <1>6

LEMMA SurroundingsAreRight ==
    ASSUME NotifierInv, (\E p \in PullRequests : PullChanges(p)) \/ ChannelGoesStale \/ FileChanges
    PROVE  NotifierInv'
<1>1. /\ pull' \in [PullRequests -> Pulls] /\ dmChannel' \in {"none", "open", "stale"}
      /\ state_file' \in [readable : BOOLEAN, markers : Markers] /\ state_file'.markers = state_file.markers
      /\ warranted \subseteq warranted' /\ warranted' \subseteq PullRequests
      /\ UNCHANGED <<rules, memory, storeLoaded, notifier, received, doubtful, interrupted>>
      /\ \A p \in PullRequests : pull'[p] = pull[p] \/ (WaitsForAPerson(pull'[p]) => p \in warranted')
    BY DEF NotifierInv, PullChanges, NotifierIsTyped, ChannelGoesStale, FileChanges
<1>4. LoadedBeforeAPoll' /\ MemoryIsOnFile' /\ MessagedOnce' /\ SendIsTheFirst' /\ SilenceHasACause'
    BY <1>1 DEF LoadedBeforeAPoll, MemoryIsOnFile, MarkedIn, MessagedOnce, SendIsTheFirst,
       SilenceHasACause, NotifierInv
<1> QED
    BY <1>4, <1>1 DEF NotifierInv, PollReadsThisPoll, WaitsForAPerson, OnlyForAPerson, SentIsKnown,
       SentIsMarked, MarkedIn, NotifierIsTyped, CycleIsTyped

(* The process ends: a message under way may be received or not, and its   *)
(* marker is on file.                                                      *)
LEMMA StopsIsRight ==
    ASSUME NotifierInv, Stops
    PROVE  NotifierInv'
<1>1. /\ storeLoaded' = FALSE /\ memory' = [notified |-> {}, pending |-> {}] /\ notifier' = Started
      /\ dmChannel' = "none"
      /\ interrupted' = IF notifier.pc \in {"sends", "clears"} THEN interrupted \cup {notifier.one} ELSE interrupted
      /\ UNCHANGED <<pull, rules, state_file, received, doubtful, warranted>>
    BY DEF Stops
<1>3. memory' \in Markers /\ memory'.notified \cap memory'.pending = {}
    BY <1>1 DEF Markers
<1>7. LoadedBeforeAPoll' /\ MemoryIsOnFile' /\ SentIsKnown' /\ MessagedOnce'
    BY <1>1 DEF LoadedBeforeAPoll, MemoryIsOnFile, SentIsKnown, SentIsMarked, MessagedOnce,
       NotifierInv
<1> QED
    BY <1>7, <1>1, StartedIsIdle, StartedIsTyped, <1>3 DEF NotifierInv, PollReadsThisPoll,
       OnlyForAPerson, SilenceHasACause, SendIsTheFirst, Busy, CycleIsTyped, Started, NotifierIsTyped

-----------------------------------------------------------------------------
LEMMA NotifierInitIsRight ==
    ASSUME NotifierInit
    PROVE  NotifierInv
<1>5. LoadedBeforeAPoll /\ MemoryIsOnFile /\ SentIsKnown /\ MessagedOnce /\ SilenceHasACause
    BY DEF LoadedBeforeAPoll, MemoryIsOnFile, SentIsKnown, SentIsMarked, MessagedOnce,
       SilenceHasACause, Markers, NotifierInit
<1> QED
    BY <1>5, StartedIsIdle, StartedIsTyped DEF NotifierInv, SendIsTheFirst, Busy, PollReadsThisPoll,
       OnlyForAPerson, NotifierIsTyped, Markers, NotifierInit

LEMMA NotifierStutterIsRight ==
    ASSUME NotifierInv, UNCHANGED notifierVars
    PROVE  NotifierInv'
<1>1. UNCHANGED <<pull, rules, state_file, memory, storeLoaded, notifier, dmChannel, received, doubtful, interrupted,
                  warranted>>
    BY DEF notifierVars
<1>4. LoadedBeforeAPoll' /\ MemoryIsOnFile' /\ MessagedOnce' /\ SendIsTheFirst' /\ SilenceHasACause'
    BY <1>1 DEF LoadedBeforeAPoll, MemoryIsOnFile, MarkedIn, MessagedOnce, SendIsTheFirst,
       SilenceHasACause, NotifierInv
<1> QED
    BY <1>4, <1>1 DEF NotifierInv, SentIsKnown, SentIsMarked, MarkedIn, PollReadsThisPoll,
       WaitsForAPerson, OnlyForAPerson, NotifierIsTyped, CycleIsTyped

LEMMA NotifierStepIsRight ==
    ASSUME NotifierInv, [NotifierNext]_notifierVars
    PROVE  NotifierInv'
<1>1. CASE UNCHANGED notifierVars
    BY <1>1, NotifierStutterIsRight
<1>2. CASE pollOnce
    BY <1>2, PollOnceIsRight
<1>3. CASE ReadsOwners \/ RepoFails \/ RepoEnds \/ CycleEnds
    BY <1>3, PollsOnIsRight
<1>4. CASE Selects
    BY <1>4, SelectsIsRight
<1>5. CASE notify
    BY <1>5, NotifyIsRight
<1>6. CASE markNotified \/ clearPending
    BY <1>6, MarkerEndsIsRight
<1>7. ASSUME NEW r \in Repos, ListsRepo(r)
      PROVE  NotifierInv'
    BY <1>7, ListsRepoIsRight
<1>8. ASSUME NEW p \in PullRequests, ReadsFiles(p)
      PROVE  NotifierInv'
    BY <1>8, ReadsFilesIsRight
<1>9. ASSUME NEW p \in PullRequests, markPending(p)
      PROVE  NotifierInv'
    BY <1>9, MarkPendingIsRight
<1>10. CASE (\E p \in PullRequests : PullChanges(p)) \/ ChannelGoesStale \/ FileChanges
    BY <1>10, SurroundingsAreRight
<1>11. CASE Stops
    BY <1>11, StopsIsRight
<1> QED
    BY <1>1, <1>2, <1>3, <1>4, <1>5, <1>6, <1>7, <1>8, <1>9, <1>10, <1>11 DEF NotifierNext

LEMMA NotifierInvIsEnough ==
    ASSUME NotifierInv
    PROVE  ReviewersHearOnce
BY DEF NotifierInv, NotifierTypeOK, NotifierIsTyped, CycleIsTyped, Busy, ReviewersHearOnce,
   SentIsKnown, PollReadsThisPoll

(* A pull request gets one message unless Slack received one and reported  *)
(* an error, what was sent is marked on file, a marker without a message   *)
(* has an interrupted send to name, and only a pull request that waited    *)
(* for a person during the poll is selected (github/reviewNotifier.ts).    *)
THEOREM ReviewersStayHeardOnce == NotifierSpec => []ReviewersHearOnce
<1>1. NotifierInit => NotifierInv
    BY NotifierInitIsRight
<1>2. NotifierInv /\ [NotifierNext]_notifierVars => NotifierInv'
    BY NotifierStepIsRight
<1>3. NotifierInv => ReviewersHearOnce
    BY NotifierInvIsEnough
<1> QED
    BY <1>1, <1>2, <1>3, PTL DEF NotifierSpec

-----------------------------------------------------------------------------
(* Stored agents.                                                          *)

Rows == [state : {"active", "deleting", "gone"}, mounts : Mounts, secrets : BOOLEAN, present : BOOLEAN, env : Envs,
         run : RunStates, restart : Nat, generation : Nat]
Requests == [at : {"resolves", "identifies", "reads", "checks", "puts", "stored"}, ask : Asks,
             id : Ids \cup {NoId}, who : Ids \cup {NoId}, present : BOOLEAN,
             read : Rows \cup {NoRow}, new : Rows \cup {NoRow}]

DesiredIsTyped ==
    /\ rows \in [Ids -> Rows \cup {NoRow}]
    /\ \A id \in Ids : rows[id] \in Rows => rows[id].generation \in 1..MaxGeneration /\ rows[id].restart <= rows[id].generation
    /\ request \in [Clients -> Requests \cup {Quiet}]
    /\ disk \in [present : BOOLEAN, dotenv : BOOLEAN]
    /\ stops \in [Ids -> [generation : 0..MaxGeneration, of : Ids \cup {NoId}]]
    /\ raced \in BOOLEAN

NamesAreUnique == \A id, other \in Ids : id[1] = other[1] /\ Stored(id) /\ Stored(other) => id = other

(* A request that read a row read it as it is, or the row's generation has *)
(* moved on; what it would store is the next one.                          *)
ReadWas(id, read) ==
    /\ id \in Ids /\ rows[id] \in Rows /\ read \in Rows /\ read.state = "active"
    /\ read.generation <= rows[id].generation
    /\ rows[id].generation = read.generation /\ rows[id].state = "active" => rows[id] = read
IsNext(ask, new, read) ==
    /\ new.generation = read.generation + 1 /\ read.restart <= new.restart
    /\ new.mounts = read.mounts /\ new.present = read.present
    /\ ask.op = "apply" => (new.run # read.run => ask.run = new.run)
    /\ ask.op # "apply" => new.secrets = read.secrets /\ new.env = read.env
Prepared(r) ==
    /\ r.new \in Rows /\ r.new.state = "active" /\ r.new.restart <= r.new.generation /\ 1 <= r.new.generation
    /\ IF r.read = NoRow THEN r.id = NoId /\ r.ask.op = "apply"
       ELSE ReadWas(r.id, r.read) /\ IsNext(r.ask, r.new, r.read)
RequestIsRight(r) ==
    /\ r.at \in {"checks", "puts"} => Prepared(r)
    /\ r.at = "checks" => r.ask.op = "apply"
    /\ r.at = "stored" => r.new \in Rows /\ r.new.generation <= MaxGeneration

(* What a request checked stands while no other wrote after its check.     *)
Allowed(r) == r.at = "puts" /\ r.ask.op = "apply" => ~Exposes(r.id, r.new)
ChecksStand == ~raced => \A c \in Clients : Allowed(request[c])

DesiredInv ==
    /\ DesiredIsTyped /\ NamesAreUnique /\ (\A c \in Clients : RequestIsRight(request[c]))
    /\ ChecksStand /\ ExposureIsRefused

LEMMA NothingIsNotARow ==
    /\ NoRow.state = "none" /\ NoRow \notin Rows /\ NoId \notin Ids
    /\ Quiet.at = "quiet" /\ Quiet \notin Requests
    /\ \A r \in Rows : r # NoRow
    /\ \A r \in Requests : r # Quiet /\ r.at # "quiet"
BY DEF NoRow, Quiet, Rows, Requests, NoId, Ids

LEMMA DesiredParts ==
    ASSUME DesiredInv
    PROVE  /\ DesiredIsTyped /\ NamesAreUnique /\ (\A c \in Clients : RequestIsRight(request[c]))
           /\ ChecksStand /\ ExposureIsRefused
           /\ (\A id \in Ids : rows[id] \in Rows \/ rows[id] = NoRow)
           /\ (\A c \in Clients : request[c] \in Requests \/ request[c] = Quiet)
           /\ \A c \in Clients, at \in {"resolves", "identifies", "reads", "checks", "puts", "stored"} :
                RequestAt(c, at) => request[c] \in Requests /\ request[c].ask \in Asks
BY NothingIsNotARow DEF DesiredInv, DesiredIsTyped, RequestAt, Requests

(* The agent a name finds is there, and is found.                          *)
LEMMA GetByName ==
    ASSUME NEW name
    PROVE  \/ get_by_name(name) = NoId /\ \A id \in Ids : id[1] = name => ~Stored(id)
           \/ get_by_name(name) \in Ids /\ get_by_name(name)[1] = name /\ Stored(get_by_name(name))
BY DEF get_by_name

LEMMA StoredIsARow ==
    ASSUME DesiredInv, NEW id \in Ids, Stored(id)
    PROVE  rows[id] \in Rows /\ rows[id].state \in {"active", "deleting"}
BY DesiredParts, NothingIsNotARow DEF Stored

(* A request of one client moves, and nothing is stored.                   *)
LEMMA RequestGoesOn ==
    ASSUME DesiredInv, NEW c \in Clients, NEW r \in Requests \cup {Quiet}, request' = [request EXCEPT ![c] = r],
           UNCHANGED <<rows, disk, raced>>,
           stops' \in [Ids -> [generation : 0..MaxGeneration, of : Ids \cup {NoId}]],
           RequestIsRight(r), ~raced => Allowed(r)
    PROVE  DesiredInv'
<1>3. DesiredIsTyped' /\ NamesAreUnique' /\ ExposureIsRefused'
    BY DesiredParts DEF DesiredIsTyped, NamesAreUnique, Stored, ExposureIsRefused
<1> QED
    BY <1>3, DesiredParts DEF DesiredInv, ChecksStand, Allowed, Exposes, Others, RequestIsRight,
       Prepared, ReadWas, DesiredIsTyped

-----------------------------------------------------------------------------
(* What is read.                                                           *)

LEMMA AskedIsRight ==
    ASSUME DesiredInv, NEW c \in Clients, NEW ask \in Asks, Asked(c, ask)
    PROVE  DesiredInv'
<1> DEFINE r == [at |-> IF ask.op = "apply" THEN "resolves" ELSE IF ask.op = "stop" /\ ask.now THEN "identifies" ELSE "reads",
                 ask |-> ask, id |-> NoId, who |-> NoId, present |-> FALSE, read |-> NoRow, new |-> NoRow]
<1>2. r \in Requests /\ r.at \in {"resolves", "identifies", "reads"}
    BY DEF Requests
<1>3. request' = [request EXCEPT ![c] = r] /\ UNCHANGED <<rows, disk, stops, raced>>
    BY DEF Asked, Stays
<1> HIDE DEF r
<1> QED
    BY <1>2, <1>3, RequestGoesOn, DesiredParts DEF DesiredIsTyped, RequestIsRight, Allowed

LEMMA AnsweredIsRight ==
    ASSUME DesiredInv, NEW c \in Clients, Answered(c), UNCHANGED <<rows, disk, raced>>,
           stops' \in [Ids -> [generation : 0..MaxGeneration, of : Ids \cup {NoId}]]
    PROVE  DesiredInv'
BY NothingIsNotARow, RequestGoesOn DEF RequestIsRight, Allowed, Answered

LEMMA ResolvesIsRight ==
    ASSUME DesiredInv, NEW c \in Clients, resolve_mount_sources(c) \/ Identifies(c)
    PROVE  DesiredInv'
BY DesiredParts, AnsweredIsRight, RequestGoesOn DEF resolve_mount_sources, Identifies, Stays,
   DesiredIsTyped, Requests, RequestIsRight, Allowed

LEMMA AppliedIsARow ==
    ASSUME NEW r \in Requests, NEW current \in Rows \cup {NoRow}, NEW c \in Clients, request[c] = r, r.ask.op = "apply",
           current # NoRow => current.mounts = r.ask.mounts /\ current.restart <= current.generation
    PROVE  /\ Applied(c, current) \in Rows /\ Applied(c, current).state = "active"
           /\ Applied(c, current).restart <= Applied(c, current).generation /\ 1 <= Applied(c, current).generation
           /\ current # NoRow => IsNext(r.ask, Applied(c, current), current)
<1> DEFINE gen == IF current = NoRow THEN 1 ELSE current.generation + 1
<1>3. /\ gen \in Nat /\ Restarts(current) \in Nat /\ Restarts(current) <= gen /\ 1 <= gen
      /\ current # NoRow => gen = current.generation + 1 /\ Restarts(current) = current.restart /\ current.restart <= current.restart
    BY DEF Rows, Restarts
<1>4. Applied(c, current) = [state |-> "active", mounts |-> r.ask.mounts, secrets |-> r.ask.secrets,
        present |-> Present(c, current), env |-> Env(c, current), run |-> applied_run_state(c, current),
        restart |-> Restarts(current), generation |-> gen]
    BY DEF Applied
<1> HIDE DEF gen
<1>6. ASSUME current # NoRow
      PROVE  IsNext(r.ask, Applied(c, current), current)
    BY <1>3, <1>6, <1>4, DesiredConstants DEF IsNext, Rows, applied_run_state, Env, Present,
       RunStates, Envs, Unset, Requests
<1> QED
    BY <1>3, <1>6, <1>4, DesiredConstants DEF Rows, applied_run_state, Env, Present, RunStates,
       Envs, Unset, Requests

(* A row that was just read is the row.                                    *)
LEMMA ReadIsNow ==
    ASSUME DesiredInv, NEW id \in Ids, rows[id] \in Rows, rows[id].state = "active"
    PROVE  ReadWas(id, rows[id]) /\ rows[id].restart <= rows[id].generation /\ rows[id].generation \in 1..MaxGeneration
BY DesiredParts DEF ReadWas, DesiredIsTyped

LEMMA ReadsForApplyIsRight ==
    ASSUME DesiredInv, NEW c \in Clients, ReadsForApply(c)
    PROVE  DesiredInv'
<1> DEFINE id == get_by_name(request[c].ask.name)
           current == IF id = NoId THEN NoRow ELSE rows[id]
           r == [request[c] EXCEPT !.at = "checks", !.id = id, !.read = current, !.new = Applied(c, current)]
<1>3. CASE Answered(c)
    BY <1>3, AnsweredIsRight, DesiredParts DEF DesiredIsTyped, ReadsForApply, Stays
<1>4. CASE ~Answered(c)
  <2>1. /\ request' = [request EXCEPT ![c] = r]
        /\ ~(current # NoRow /\ (\/ request[c].ask.create_only \/ current.state = "deleting"
                                 \/ current.mounts # request[c].ask.mounts))
      BY <1>4 DEF ReadsForApply
  <2>2. \/ id = NoId /\ current = NoRow
        \/ id \in Ids /\ current = rows[id] /\ current \in Rows /\ current.state = "active" /\ current # NoRow
      BY <2>1, GetByName, StoredIsARow, NothingIsNotARow
  <2> HIDE DEF id, current
  <2>4. /\ Applied(c, current) \in Rows /\ Applied(c, current).state = "active"
        /\ Applied(c, current).restart <= Applied(c, current).generation /\ 1 <= Applied(c, current).generation
        /\ current # NoRow => IsNext(request[c].ask, Applied(c, current), current)
      BY <2>2, AppliedIsARow, <2>1, ReadIsNow, DesiredParts DEF ReadsForApply, Stays
  <2>5. /\ r \in Requests /\ r.at = "checks" /\ r.id = id /\ r.read = current /\ r.new = Applied(c, current)
        /\ r.ask = request[c].ask
      BY <2>2, <2>4, DesiredParts DEF Requests, ReadsForApply, Stays
  <2> HIDE DEF r
  <2> QED
      BY <2>1, <2>5, RequestGoesOn, <2>2, <2>4, ReadIsNow, DesiredParts DEF DesiredIsTyped,
         RequestIsRight, Allowed, Prepared, ReadsForApply, Stays
<1> QED
    BY <1>3, <1>4

LEMMA ChecksIsRight ==
    ASSUME DesiredInv, NEW c \in Clients, Checks(c)
    PROVE  DesiredInv'
BY DesiredParts, AnsweredIsRight, RequestGoesOn DEF Checks, Stays, RequestAt, DesiredIsTyped,
   RequestMoves, Requests, RequestIsRight, Allowed, Prepared

LEMMA ConflictsIsRight ==
    ASSUME DesiredInv, NEW c \in Clients, Conflicts(c)
    PROVE  DesiredInv'
<1>2. UNCHANGED <<rows, disk, stops, raced>> /\ request[c] \in Requests
    BY DesiredParts DEF Conflicts, Stays
<1> DEFINE r == [request[c] EXCEPT !.at = "reads", !.id = NoId, !.read = NoRow, !.new = NoRow]
<1>3. request' = [request EXCEPT ![c] = IF request[c].read # NoRow /\ ~Stored(request[c].id) THEN Quiet ELSE r]
    BY <1>2, DesiredParts DEF Conflicts, DesiredIsTyped
<1>4. r \in Requests /\ r.at = "reads"
    BY <1>2 DEF Requests
<1> HIDE DEF r
<1>6. CASE request' = [request EXCEPT ![c] = Quiet]
    BY <1>2, <1>6, RequestGoesOn, <1>4, NothingIsNotARow, DesiredParts DEF DesiredIsTyped,
       RequestIsRight, Allowed
<1>7. CASE request' = [request EXCEPT ![c] = r]
    BY <1>2, <1>4, <1>7, RequestGoesOn, NothingIsNotARow, DesiredParts DEF DesiredIsTyped,
       RequestIsRight, Allowed
<1> QED
    BY <1>3, <1>6, <1>7

LEMMA ChangedIsNext ==
    ASSUME NEW ask \in Asks, ask.op # "apply", NEW current \in Rows, current.restart <= current.generation
    PROVE  /\ Changed(ask, current) \in Rows /\ Changed(ask, current).state = current.state
           /\ Changed(ask, current).restart <= Changed(ask, current).generation
           /\ 1 <= Changed(ask, current).generation /\ IsNext(ask, Changed(ask, current), current)
<1> DEFINE run == IF ask.op \in {"start", "restart"} THEN "Running" ELSE "Stopped"
           restart == IF ask.op = "restart" THEN current.generation + 1 ELSE current.restart
           new == [current EXCEPT !.run = run, !.restart = restart, !.generation = current.generation + 1]
<1>1. Changed(ask, current) = new
    BY DEF Changed, Rows
<1>2. run \in RunStates
    BY DEF RunStates
<1>3. /\ current.generation \in Nat /\ current.restart \in Nat /\ restart \in Nat /\ restart <= current.generation + 1
      /\ 1 <= current.generation + 1 /\ current.restart <= restart /\ current.generation + 1 \in Nat
    BY DEF Rows
<1> HIDE DEF run, restart
<1> QED
    BY <1>1, <1>3, <1>2 DEF IsNext, Rows

LEMMA ReadsForChangeIsRight ==
    ASSUME DesiredInv, NEW c \in Clients, ReadsForChange(c)
    PROVE  DesiredInv'
<1> DEFINE id == get_by_name(request[c].ask.name)
           ask == request[c].ask
           new == Changed(ask, rows[id])
           changes == ask.op = "restart" \/ new.run # rows[id].run
           r == [request[c] EXCEPT !.at = IF changes THEN "puts" ELSE "stored", !.id = id, !.read = rows[id],
                                   !.new = IF changes THEN new ELSE rows[id]]
<1>3. CASE Answered(c)
    BY <1>3, AnsweredIsRight, DesiredParts DEF DesiredIsTyped, ReadsForChange, Stays
<1>4. CASE ~Answered(c)
  <2>1. request' = [request EXCEPT ![c] = r] /\ id # NoId /\ rows[id].state # "deleting"
      BY <1>4 DEF ReadsForChange
  <2>2. id \in Ids /\ rows[id] \in Rows /\ rows[id].state = "active" /\ rows[id] # NoRow
      BY <2>1, GetByName, StoredIsARow, NothingIsNotARow
  <2>3. ReadWas(id, rows[id]) /\ rows[id].restart <= rows[id].generation /\ rows[id].generation <= MaxGeneration
      BY <2>2, ReadIsNow
  <2>4. /\ new \in Rows /\ new.state = "active" /\ new.restart <= new.generation /\ 1 <= new.generation
        /\ IsNext(ask, new, rows[id])
      BY <2>2, <2>3, ChangedIsNext, DesiredParts DEF ReadsForChange, Stays
  <2> HIDE DEF id, new, changes
  <2>5. /\ r \in Requests /\ r.at \in {"puts", "stored"} /\ r.id = id /\ r.read = rows[id] /\ r.ask = ask
        /\ (r.at = "puts" => r.new = new) /\ (r.at = "stored" => r.new = rows[id])
      BY <2>2, <2>4, DesiredParts DEF Requests, ReadsForChange, Stays
  <2> HIDE DEF r
  <2> QED
      BY <2>1, <2>5, RequestGoesOn, <2>2, <2>3, <2>4, DesiredParts DEF DesiredIsTyped, Allowed,
         RequestIsRight, Prepared, ReadsForChange, Stays
<1> QED
    BY <1>3, <1>4

LEMMA AsksForImmediateStopIsRight ==
    ASSUME DesiredInv, NEW c \in Clients, AsksForImmediateStop(c)
    PROVE  DesiredInv'
BY DesiredParts, AnsweredIsRight DEF AsksForImmediateStop, RequestAt, RequestIsRight, Rows,
   Requests, DesiredIsTyped

-----------------------------------------------------------------------------
(* What is written.                                                        *)

(* A write moves the generation on, so what others read stays recognisable. *)
LEMMA ReadsStayRight ==
    ASSUME DesiredInv, NEW id \in Ids, NEW written \in Rows, rows' = [rows EXCEPT ![id] = written],
           rows[id] \in Rows => /\ rows[id].generation <= written.generation
                                /\ written.state = "active" => rows[id].generation < written.generation,
           NEW r, RequestIsRight(r)
    PROVE  RequestIsRight(r)'
BY DEF ReadWas, Rows, Prepared, RequestIsRight

(* A write that leaves the mounts, the secrets and the agent's place as    *)
(* they are exposes nothing new.                                           *)
LEMMA RowMovesOn ==
    ASSUME DesiredInv, NEW id \in Ids, rows[id] \in Rows, NEW written \in Rows, rows' = [rows EXCEPT ![id] = written],
           written.state = "active" => rows[id].state = "active",
           written.state = "deleting" => rows[id].state \in {"active", "deleting"},
           written.mounts = rows[id].mounts, written.present = rows[id].present,
           written.secrets = rows[id].secrets, written.env = rows[id].env,
           written.generation \in 1..MaxGeneration, written.restart <= written.generation,
           rows[id].generation <= written.generation, written.state = "active" => rows[id].generation < written.generation,
           UNCHANGED <<disk, stops, raced>>, request' \in [Clients -> Requests \cup {Quiet}],
           \A c \in Clients : request'[c] = request[c] \/ (RequestIsRight(request'[c]) /\ request'[c].at # "puts")
    PROVE  DesiredInv'
<1>8. ASSUME NEW c \in Clients
      PROVE  RequestIsRight(request[c])'
  <2>1. RequestIsRight(request'[c])
      BY DesiredParts
  <2> DEFINE r == request'[c]
  <2> QED
      BY <2>1, ReadsStayRight DEF RequestIsRight, Prepared, ReadWas
<1>9. ASSUME NEW c \in Clients, ~raced'
      PROVE  Allowed(request[c])'
    BY <1>9, DesiredParts DEF ChecksStand, Others, SecretInside, sandbox_mounts, Exposes, Allowed
<1> QED
    BY <1>8, <1>9, DesiredParts DEF DesiredInv, ChecksStand, ExposureIsRefused, sandbox_mounts,
       SecretInside, NamesAreUnique, Stored, DesiredIsTyped

LEMMA PutsChangeIsRight ==
    ASSUME DesiredInv, NEW c \in Clients, PutsChange(c)
    PROVE  DesiredInv'
<1> DEFINE id == request[c].id
           written == request[c].new
           r == [request[c] EXCEPT !.at = "stored"]
<1>2. /\ request[c] \in Requests /\ request[c].at = "puts" /\ request[c].ask.op # "apply" /\ written.generation <= MaxGeneration
      /\ rows' = [rows EXCEPT ![id] = written] /\ request' = [request EXCEPT ![c] = r] /\ UNCHANGED <<disk, stops, raced>>
    BY DesiredParts DEF PutsChange, RequestAt, RequestMoves
<1>4. /\ written \in Rows /\ written.state = "active" /\ written.restart <= written.generation /\ 1 <= written.generation
      /\ ReadWas(id, request[c].read) /\ IsNext(request[c].ask, written, request[c].read)
    BY <1>2, DesiredParts DEF Prepared, RequestIsRight
<1>5. rows[id].state = "active" /\ rows[id].generation = request[c].read.generation
    BY <1>2, DesiredParts DEF PutsChange, CanPut, RequestIsRight, Prepared
<1>9. written.generation \in 1..MaxGeneration /\ rows[id].generation <= written.generation /\ rows[id].generation < written.generation
    BY <1>2, <1>4, DesiredConstants, <1>5 DEF Rows, IsNext, ReadWas
<1>10. /\ r \in Requests /\ r.at = "stored" /\ r.new = written
    BY <1>2 DEF Requests
<1> HIDE DEF r, written, id
<1>12. /\ request' \in [Clients -> Requests \cup {Quiet}]
       /\ \A d \in Clients : request'[d] = request[d] \/ (RequestIsRight(request'[d]) /\ request'[d].at # "puts")
    BY <1>2, <1>10, <1>4, DesiredParts DEF DesiredIsTyped, RequestIsRight
<1> QED
    BY <1>2, <1>4, <1>5, <1>9, <1>12, RowMovesOn DEF IsNext, ReadWas

(* Marking an agent for deletion and finishing one only take agents away.  *)
LEMMA DeletionIsRight ==
    ASSUME DesiredInv, NEW id \in Ids, rows[id] \in Rows, NEW state \in {"deleting", "gone"},
           rows' = [rows EXCEPT ![id].state = state], rows[id].state \in {"active", "deleting"},
           UNCHANGED <<disk, stops, raced>>,
           \/ UNCHANGED request
           \/ \E c \in Clients : Answered(c)
    PROVE  DesiredInv'
<1> DEFINE written == [rows[id] EXCEPT !.state = state]
<1>2. rows' = [rows EXCEPT ![id] = written]
    BY DesiredParts DEF DesiredIsTyped
<1>3. /\ written \in Rows /\ written.state = state /\ written.mounts = rows[id].mounts /\ written.present = rows[id].present
      /\ written.secrets = rows[id].secrets /\ written.env = rows[id].env /\ written.generation = rows[id].generation
      /\ written.restart = rows[id].restart
    BY DEF Rows
<1>5. rows[id].generation <= written.generation
    BY DEF Rows
<1>7. /\ request' \in [Clients -> Requests \cup {Quiet}]
      /\ \A d \in Clients : request'[d] = request[d] \/ (RequestIsRight(request'[d]) /\ request'[d].at # "puts")
    BY NothingIsNotARow, DesiredParts DEF Answered, DesiredIsTyped, RequestIsRight
<1> HIDE DEF written
<1> QED
    BY <1>2, <1>3, <1>5, <1>7, RowMovesOn, DesiredParts DEF DesiredIsTyped

LEMMA MarkDeletingIsRight ==
    ASSUME DesiredInv, NEW c \in Clients, mark_deleting(c)
    PROVE  DesiredInv'
BY AnsweredIsRight, DesiredParts, GetByName, StoredIsARow, DeletionIsRight DEF mark_deleting,
   DesiredIsTyped

LEMMA FinalizeIsRight ==
    ASSUME DesiredInv, NEW id \in Ids, finalize_deletion(id)
    PROVE  DesiredInv'
BY DesiredParts, NothingIsNotARow, DeletionIsRight DEF finalize_deletion

(* The row a new agent gets is the first that was never used.              *)
LEMMA NewIdIsUnused ==
    ASSUME NEW name \in AgentNames, Unused(name) # {}
    PROVE  NewId(name) \in Ids /\ NewId(name)[1] = name /\ rows[NewId(name)] = NoRow
<1> DEFINE S == Unused(name)
           least == CHOOSE i \in S : \A j \in S : i <= j
<1>1. S \subseteq Nat
    BY DesiredConstants DEF Unused
<1>2. PICK i \in S : \A j \in S : <<j, i>> \notin OpToRel(<, Nat)
    BY <1>1, NatLessThanWellFounded, WFMin
<1>3. \A j \in S : i <= j
  <2>1. SUFFICES ASSUME NEW j \in S PROVE i <= j
      OBVIOUS
  <2>2. i \in Nat /\ j \in Nat /\ ~(j < i)
      BY <1>1, <1>2 DEF OpToRel
  <2> QED
      BY <2>2
<1> HIDE DEF S
<1>4. least \in S
    BY <1>3
<1> HIDE DEF least
<1>5. NewId(name) = <<name, least>>
    BY DEF NewId, least, S
<1> QED
    BY <1>5, <1>4 DEF Ids, S, Unused

(* An apply stores what it checked: no other apply had checked meanwhile,  *)
(* or the race is on record.                                               *)
LEMMA PutsApplyIsRight ==
    ASSUME DesiredInv, NEW c \in Clients, PutsApply(c)
    PROVE  DesiredInv'
<1> DEFINE id == IF request[c].read = NoRow THEN NewId(request[c].ask.name) ELSE request[c].id
           written == request[c].new
<1>2. /\ request[c] \in Requests /\ request[c].ask \in Asks /\ request[c].at = "puts" /\ request[c].ask.op = "apply"
      /\ written.generation <= MaxGeneration
      /\ rows' = [rows EXCEPT ![id] = written] /\ request' = [request EXCEPT ![c] = Quiet] /\ UNCHANGED <<disk, stops>>
    BY DesiredParts DEF PutsApply, RequestAt, Answered
<1>3. /\ Prepared(request[c]) /\ written \in Rows /\ written.state = "active" /\ written.restart <= written.generation /\ 1 <= written.generation
    BY <1>2, DesiredParts DEF RequestIsRight, Prepared
<1>4. /\ id \in Ids
      /\ \A i \in Ids \ {id} : i[1] = id[1] => ~Stored(i)
      /\ rows[id] \in Rows => rows[id].generation < written.generation /\ rows[id].generation <= written.generation
      /\ Others(id) \subseteq Others(request[c].id)
    BY <1>2, DesiredConstants, NewIdIsUnused, GetByName, NothingIsNotARow, <1>3, DesiredParts DEF
       PutsApply, CanPut, Prepared, Others, ReadWas, Stored, IsNext, Rows, NamesAreUnique
<1> HIDE DEF id
<1>7. /\ raced' \in BOOLEAN
      /\ ~raced' => ~raced /\ \A d \in Clients \ {c} : ~(request[d].at = "puts" /\ request[d].ask.op = "apply")
    BY DesiredParts DEF PutsApply, RequestAt, DesiredIsTyped
<1>9. DesiredIsTyped'
    BY <1>2, <1>3, <1>7, <1>4, DesiredParts DEF DesiredIsTyped, Rows
<1>11. \A d \in Clients : RequestIsRight(request[d])'
  <2>1. \A q : RequestIsRight(q) => RequestIsRight(q)'
      BY <1>2, <1>3, <1>4, ReadsStayRight
  <2> QED
      BY <2>1, NothingIsNotARow, <1>2, DesiredParts DEF RequestIsRight, Prepared, ReadWas,
         DesiredIsTyped
<1>12. ChecksStand'
    BY <1>7, NothingIsNotARow, <1>2, DesiredParts DEF ChecksStand, Allowed, DesiredIsTyped
<1> QED
    BY <1>9, <1>11, <1>12, <1>2, <1>7, <1>4, <1>3, DesiredParts DEF DesiredInv, ChecksStand,
       Allowed, Others, Exposes, ExposureIsRefused, Stored, NamesAreUnique, DesiredIsTyped

(* The host's files, the reconciler's stops and a stutter store no row.    *)
LEMMA NothingIsWritten ==
    ASSUME DesiredInv, UNCHANGED <<rows, request, raced>>,
           disk' \in [present : BOOLEAN, dotenv : BOOLEAN],
           stops' \in [Ids -> [generation : 0..MaxGeneration, of : Ids \cup {NoId}]]
    PROVE  DesiredInv'
<1>2. DesiredIsTyped' /\ NamesAreUnique'
    BY DesiredParts DEF DesiredIsTyped, NamesAreUnique, Stored
<1> QED
    BY <1>2, DesiredParts DEF DesiredInv, ChecksStand, Allowed, Exposes, Others, ExposureIsRefused,
       RequestIsRight, Prepared, ReadWas

LEMMA HostMovesAreRight ==
    ASSUME DesiredInv, (\E id \in Ids : TakesStop(id)) \/ HostChanges \/ UNCHANGED desiredVars
    PROVE  DesiredInv'
BY DesiredParts, DesiredConstants, NothingIsWritten DEF TakesStop, DesiredIsTyped, HostChanges,
   desiredVars

LEMMA DesiredStarts ==
    ASSUME DesiredInit
    PROVE  DesiredInv
<1>3. stops \in [Ids -> [generation : 0..MaxGeneration, of : Ids \cup {NoId}]]
    BY DesiredConstants DEF DesiredInit
<1> QED
    BY NothingIsNotARow, <1>3 DEF DesiredInv, RequestIsRight, ChecksStand, Allowed, NamesAreUnique,
       Stored, ExposureIsRefused, DesiredInit, DesiredIsTyped

LEMMA DesiredSteps ==
    ASSUME DesiredInv, [DesiredNext]_desiredVars
    PROVE  DesiredInv'
<1>1. ASSUME NEW c \in Clients, Applies(c)
      PROVE  DesiredInv'
    BY <1>1, ResolvesIsRight, ReadsForApplyIsRight, ChecksIsRight, PutsApplyIsRight DEF Applies
<1>2. ASSUME NEW c \in Clients, ChangesRunState(c)
      PROVE  DesiredInv'
    BY <1>2, ResolvesIsRight, ReadsForChangeIsRight, PutsChangeIsRight, AsksForImmediateStopIsRight DEF ChangesRunState
<1> QED
    BY <1>1, <1>2, ConflictsIsRight, MarkDeletingIsRight, AskedIsRight, FinalizeIsRight, HostMovesAreRight DEF DesiredNext

LEMMA DesiredInvIsAllowed ==
    ASSUME DesiredInv
    PROVE  StoredIsAllowed
<1>2. ASSUME NEW id \in Ids, rows[id] # NoRow
      PROVE  /\ rows[id].state \in {"active", "deleting", "gone"}
             /\ rows[id].generation \in 1..MaxGeneration /\ rows[id].restart \in 0..rows[id].generation
             /\ rows[id].run \in {"Running", "Stopped"}
    BY <1>2, DesiredParts DEF DesiredIsTyped, Rows, RunStates
<1> DEFINE found(name) == {id \in Ids : id[1] = name /\ Stored(id)}
<1>3. ASSUME NEW name \in AgentNames
      PROVE  Cardinality(found(name)) <= 1
  <2>1. CASE found(name) = {}
      BY <2>1, FS_EmptySet
  <2>2. CASE found(name) # {}
    <3>1. PICK id \in found(name) : TRUE
        BY <2>2
    <3>2. found(name) = {id}
        BY <3>1, DesiredParts DEF NamesAreUnique
    <3>3. Cardinality({id}) = 1
        BY FS_Singleton
    <3> HIDE DEF found
    <3> QED
        BY <3>2, <3>3
  <2> QED
      BY <2>1, <2>2
<1> QED
    BY <1>2, <1>3, DesiredParts DEF StoredIsAllowed, DesiredTypeOK, DesiredIsTyped

(* However applies, stops, starts, restarts and deletions interleave, a name *)
(* belongs to one agent at a time, and as long as no other apply was between *)
(* its check and its write, no active agent's sandbox has a mount that holds *)
(* another's selected secret file (reject_exposed_secrets, AgentStore::put). *)
THEOREM AppliesStayAllowed == DesiredSpec => []StoredIsAllowed
<1>1. DesiredInit => DesiredInv
    BY DesiredStarts
<1>2. DesiredInv /\ [DesiredNext]_desiredVars => DesiredInv'
    BY DesiredSteps
<1>3. DesiredInv => StoredIsAllowed
    BY DesiredInvIsAllowed
<1> QED
    BY <1>1, <1>2, <1>3, PTL DEF DesiredSpec

-----------------------------------------------------------------------------
(* What a write keeps of the agent it writes.                              *)

WriteKeeps(id) ==
    rows[id] # NoRow /\ rows'[id] # rows[id] =>
      /\ rows[id].state = "active" \/ (rows[id].state = "deleting" /\ rows'[id] = [rows[id] EXCEPT !.state = "gone"])
      /\ rows'[id].generation = rows[id].generation + (IF rows'[id].state = "active" THEN 1 ELSE 0)
      /\ rows'[id].restart >= rows[id].restart
      /\ sandbox_mounts(rows'[id]) = sandbox_mounts(rows[id])
      /\ rows'[id].run # rows[id].run =>
             \E c \in Clients : request[c] # Quiet /\ request'[c].at # request[c].at
                                /\ (request[c].ask.op = "apply" => request[c].ask.run = rows'[id].run)

(* A write that lands is the next of the row as it is.                     *)
LEMMA PutsKeep ==
    ASSUME DesiredInv, NEW c \in Clients, PutsApply(c) \/ PutsChange(c), NEW id \in Ids, rows[id] # NoRow
    PROVE  WriteKeeps(id)
<1> DEFINE written == request[c].new
           to == IF request[c].ask.op = "apply" /\ request[c].read = NoRow
                 THEN NewId(request[c].ask.name) ELSE request[c].id
<1>2. /\ request[c] \in Requests /\ request[c].ask \in Asks /\ request[c].at = "puts" /\ CanPut(c)
      /\ request' \in [Clients -> Requests \cup {Quiet}] /\ request'[c].at \in {"quiet", "stored"}
      /\ request[c].ask.op = "apply" /\ request[c].read = NoRow => Unused(request[c].ask.name) # {}
    BY NothingIsNotARow, DesiredParts DEF PutsApply, PutsChange, RequestAt, Answered, RequestMoves,
       Requests, DesiredIsTyped
<1>4. rows' = [rows EXCEPT ![to] = written]
    BY <1>2, DesiredParts DEF PutsApply, PutsChange, Prepared, RequestIsRight
<1>5. CASE rows'[id] = rows[id]
    BY <1>5 DEF WriteKeeps
<1>6. CASE rows'[id] # rows[id]
    BY <1>4, <1>6, <1>2, NewIdIsUnused, DesiredConstants, NothingIsNotARow, DesiredParts DEF
       Prepared, CanPut, ReadWas, IsNext, sandbox_mounts, WriteKeeps, RequestIsRight
<1> QED
    BY <1>5, <1>6

(* A deletion takes the row as it is.                                      *)
LEMMA DeletionKeeps ==
    ASSUME DesiredInv, NEW to \in Ids, NEW state \in {"deleting", "gone"}, rows' = [rows EXCEPT ![to].state = state],
           rows[to].state \in {"active", "deleting"},
           rows[to].state = "deleting" \/ state = "deleting",
           NEW id \in Ids, rows[id] # NoRow
    PROVE  WriteKeeps(id)
BY DesiredParts DEF WriteKeeps, Rows, sandbox_mounts

LEMMA StepsKeep ==
    ASSUME DesiredInv, DesiredNext, NEW id \in Ids
    PROVE  WriteKeeps(id)
<1>1. CASE rows[id] = NoRow \/ rows' = rows
    BY <1>1 DEF WriteKeeps
<1>2. CASE rows[id] # NoRow /\ rows' # rows
  <2>1. ASSUME NEW c \in Clients, PutsApply(c) \/ PutsChange(c)
        PROVE  WriteKeeps(id)
      BY <1>2, <2>1, PutsKeep
  <2>2. ASSUME NEW c \in Clients, mark_deleting(c)
        PROVE  WriteKeeps(id)
      BY <1>2, <2>2, GetByName, StoredIsARow, DeletionKeeps DEF mark_deleting
  <2>3. ASSUME NEW to \in Ids, finalize_deletion(to)
        PROVE  WriteKeeps(id)
      BY <1>2, <2>3, DeletionKeeps DEF finalize_deletion
  <2>5. \A c \in Clients : /\ ~resolve_mount_sources(c) /\ ~ReadsForApply(c) /\ ~Checks(c) /\ ~Identifies(c)
                           /\ ~ReadsForChange(c) /\ ~AsksForImmediateStop(c) /\ ~Conflicts(c)
      BY <1>2 DEF resolve_mount_sources, ReadsForApply, Checks, Identifies, ReadsForChange, AsksForImmediateStop, Conflicts, Stays
  <2> QED
      BY <2>1, <2>2, <2>3, <2>5, <1>2 DEF DesiredNext, Applies, ChangesRunState, HostChanges,
         TakesStop, Asked, Stays
<1> QED
    BY <1>1, <1>2

(* Whatever requests interleave, a write of an agent is one new generation  *)
(* of the row as it was, never of an agent being deleted; no apply that     *)
(* leaves the run state open undoes a stop or a start, none loses a restart *)
(* asked for, and the mounts stay those of the sandbox's creation.          *)
THEOREM WritesStayKept == DesiredSpec => WritesAreKept
<1>1. DesiredInit => DesiredInv
    BY DesiredStarts
<1>2. DesiredInv /\ [DesiredNext]_desiredVars => DesiredInv'
    BY DesiredSteps
<1>3. DesiredInv /\ [DesiredNext]_desiredVars => [\A id \in Ids : WriteKeeps(id)]_desiredVars
    BY StepsKeep
<1>4. WritesAreKept <=> [][\A id \in Ids : WriteKeeps(id)]_desiredVars
    BY DEF WritesAreKept, WriteKeeps
<1> QED
    BY <1>1, <1>2, <1>3, <1>4, PTL DEF DesiredSpec


-----------------------------------------------------------------------------
(* Logins.                                                                 *)

Refreshes(w) == worker[w].pc \in {"sent", "answered", "rejected"}
SignsIn(w) == worker[w].op = "login" /\ worker[w].pc \in {"waits", "stores"}

RestIsTyped ==
    /\ agent \in [LoginAgents -> [pc : {"idle", "reads", "chose", "prepared"}, set : LoginSets,
                                  run : {"running", "stopped", "deleting"}, status : Names \cup {NoLogin},
                                  usable : SUBSET Names]]
    /\ latest \in [Names -> 0..MaxGrants]

(* Whoever writes or refreshes a Codex login has its lock.                 *)
LocksAreHeld ==
    \A w \in LoginWorkers :
        /\ worker[w].pc # "idle" => worker[w].login \in Names
        /\ worker[w].pc \in {"waits", "checks"} \/ Refreshes(w) => worker[w].login \in CodexLogins
        /\ worker[w].pc \notin {"idle", "waits"} /\ worker[w].login \in CodexLogins => lock[worker[w].login] = w
        /\ worker[w].pc = "stores" => worker[w].op = "login"

(* Every sign-in has a grant of its own, which is new until it is stored.  *)
GrantsAreOwn ==
    /\ grants \in 0..MaxGrants
    /\ \A l \in Names : /\ stored[l].grant \in 0..grants
                        /\ stored[l].kind = "oauth" => stored[l].grant # 0
                        /\ stored[l].due => stored[l].kind = "oauth"
    /\ \A l, m \in Names : stored[l].grant # 0 /\ stored[l].grant = stored[m].grant => l = m
    /\ \A w \in LoginWorkers : SignsIn(w) =>
          /\ worker[w].grant \in 1..grants /\ service[worker[w].grant].token = 0 /\ worker[w].kind \notin {"none"}
          /\ \A l \in Names : stored[l].grant # worker[w].grant
          /\ \A v \in LoginWorkers \ {w} : SignsIn(v) => worker[v].grant # worker[w].grant
    /\ \A g \in Grants : g > grants => service[g].token = 0

(* A refresh is of the stored grant, and knows its token until it has a    *)
(* newer one.                                                              *)
RefreshesAreRight ==
    \A w \in LoginWorkers : LET l == worker[w].login IN
        Refreshes(w) =>
            /\ stored[l].kind = "oauth" /\ worker[w].grant = stored[l].grant
            /\ worker[w].pc = "sent" => worker[w].token = stored[l].token
            /\ worker[w].pc = "answered" => worker[w].token = service[worker[w].grant].token
            /\ worker[w].pc = "rejected" => service[worker[w].grant].revoked \/ worker[w].grant \in lost

(* The stored token is the service's, or a refresh is about to store that, *)
(* or it was lost.                                                         *)
TokensFollow ==
    \A l \in Names : stored[l].kind = "oauth" =>
        \/ stored[l].grant \in lost
        \/ service[stored[l].grant].token = stored[l].token
        \/ \E w \in LoginWorkers : worker[w].pc = "answered" /\ worker[w].login = l

FailuresAreRight ==
    \A l \in CodexLogins : failure[l].kind = "permanent" =>
        /\ failure[l].grant \in Grants
        /\ service[failure[l].grant].revoked \/ failure[l].grant \in lost
        /\ \/ l \in cut \/ failure[l].grant = stored[l].grant
           \/ \E w \in LoginWorkers : worker[w].pc = "clears" /\ worker[w].login = l

LoginInv ==
    /\ LoginTypeOK
    /\ RestIsTyped
    /\ LocksAreHeld
    /\ GrantsAreOwn
    /\ StoredIsTheLatest
    /\ RefreshesAreRight
    /\ TokensFollow
    /\ FailuresAreRight

Accounts == [kind : {"none", "oauth", "mediated", "setup token"}, grant : 0..MaxGrants, token : 0..MaxTokens, due : BOOLEAN]
Refusals == [kind : {"none", "permanent", "waiting", "elapsed"}, grant : 0..MaxGrants]
Futures == [pc : {"idle", "waits", "stores", "deletes", "checks", "sent", "answered", "rejected", "clears"},
            op : {"none", "login", "logout", "resolve"}, login : Names \cup {NoLogin},
            kind : {"none", "oauth", "mediated", "setup token"}, grant : 0..MaxGrants, token : 0..MaxTokens]

LEMMA LoginParts ==
    ASSUME LoginInv
    PROVE  /\ LoginTypeOK /\ RestIsTyped /\ LocksAreHeld /\ GrantsAreOwn /\ StoredIsTheLatest
           /\ RefreshesAreRight /\ TokensFollow /\ FailuresAreRight
           /\ stored \in [Names -> Accounts] /\ service \in [Grants -> [token : 0..MaxTokens, revoked : BOOLEAN]]
           /\ lock \in [Names -> LoginWorkers \cup {Unlocked}] /\ failure \in [Names -> Refusals]
           /\ worker \in [LoginWorkers -> Futures] /\ assigned \in [LoginAgents -> Names \cup {NoLogin}]
           /\ latest \in [Names -> 0..MaxGrants] /\ grants \in Nat
<1>2. grants \in Nat
    BY LoginConstants DEF LoginInv, GrantsAreOwn
<1> QED
    BY <1>2 DEF LoginInv, LoginTypeOK, RestIsTyped, Accounts, Refusals, Futures

LEMMA NobodyIsAFuture == Nowhere \in Futures /\ Nowhere.pc = "idle" /\ Nowhere.op = "none" /\ Nowhere.login = NoLogin
BY LoginConstants DEF Nowhere, Futures

(* The types after a step.                                                 *)
LEMMA TypesKeep ==
    ASSUME stored' \in [Names -> Accounts], service' \in [Grants -> [token : 0..MaxTokens, revoked : BOOLEAN]],
           lock' \in [Names -> LoginWorkers \cup {Unlocked}], failure' \in [Names -> Refusals],
           worker' \in [LoginWorkers -> Futures], LoginInv, latest' \in [Names -> 0..MaxGrants], UNCHANGED <<assigned, agent>>
    PROVE  LoginTypeOK' /\ RestIsTyped'
BY LoginParts DEF RestIsTyped, LoginTypeOK, Accounts, Refusals, Futures

(* One future moves.                                                       *)
LEMMA OneFutureMoves ==
    ASSUME LoginInv, NEW w \in LoginWorkers, NEW k \in Futures, worker' = [worker EXCEPT ![w] = k]
    PROVE  /\ worker' \in [LoginWorkers -> Futures] /\ worker'[w] = k
           /\ \A v \in LoginWorkers \ {w} : worker'[v] = worker[v]
BY LoginParts

(* The future that held a login's lock is the only one to work on it.      *)
LEMMA HolderIsAlone ==
    ASSUME LoginInv, NEW w \in LoginWorkers, NEW v \in LoginWorkers, v # w,
           worker[w].pc \notin {"idle", "waits"}, worker[w].login \in CodexLogins,
           worker[v].pc \notin {"idle", "waits"}
    PROVE  worker[v].login # worker[w].login
BY LoginParts DEF LocksAreHeld

-----------------------------------------------------------------------------
(* A future ends.                                                          *)

LEMMA ReturnedIsRight ==
    ASSUME LoginInv, NEW w \in LoginWorkers, Returned(w), UNCHANGED <<stored, service, grants, latest, assigned, agent>>,
           lost \subseteq lost', Unsaved(w) \subseteq lost', failure' \in [Names -> Refusals], FailuresAreRight'
    PROVE  LoginInv'
<1>1. /\ worker' = [worker EXCEPT ![w] = Nowhere]
      /\ lock' = [l \in Names |-> IF lock[l] = w THEN Unlocked ELSE lock[l]]
    BY DEF Returned
<1>6. GrantsAreOwn'
    BY LoginParts, NobodyIsAFuture, <1>1, OneFutureMoves DEF GrantsAreOwn, SignsIn
<1>9. TokensFollow'
  <2>1. SUFFICES ASSUME NEW l \in Names, stored[l].kind = "oauth", stored[l].grant \notin lost',
                        service[stored[l].grant].token # stored[l].token
                 PROVE  \E v \in LoginWorkers : worker'[v].pc = "answered" /\ worker'[v].login = l
      BY DEF TokensFollow
  <2>2. PICK v \in LoginWorkers : worker[v].pc = "answered" /\ worker[v].login = l
      BY <2>1, LoginParts DEF TokensFollow
  <2> QED
      BY <2>2, LoginParts, <2>1, <1>1, NobodyIsAFuture, OneFutureMoves DEF RefreshesAreRight,
         Refreshes, Unsaved
<1> QED
    BY <1>6, <1>9, LoginParts, NobodyIsAFuture, <1>1, TypesKeep, OneFutureMoves DEF LoginInv,
       RefreshesAreRight, Refreshes, StoredIsTheLatest, LocksAreHeld

(* A failure that was right stays so while nothing else of it changes.     *)
LEMMA FailuresStay ==
    ASSUME LoginInv, NEW w \in LoginWorkers, worker[w].pc # "clears" \/ worker[w].login \in cut',
           \A v \in LoginWorkers \ {w} : worker'[v] = worker[v],
           UNCHANGED <<stored, failure>>, cut \subseteq cut', lost \subseteq lost',
           \A g \in Grants : service[g].revoked => service'[g].revoked
    PROVE  FailuresAreRight'
BY LoginParts DEF FailuresAreRight

LEMMA LoginFailsIsRight == ASSUME LoginInv, NEW w \in LoginWorkers, LoginFails(w) PROVE LoginInv'
BY FailuresStay, LoginParts, ReturnedIsRight DEF LoginFails, ForAgents, Returned, Unsaved

LEMMA DroppedIsRight == ASSUME LoginInv, NEW w \in LoginWorkers, Dropped(w) PROVE LoginInv'
BY FailuresStay, LoginParts, ReturnedIsRight DEF Dropped, ForAgents, Returned

LEMMA ClearsFailureIsRight == ASSUME LoginInv, NEW w \in LoginWorkers, ClearsFailure(w) PROVE LoginInv'
<1> DEFINE l == worker[w].login
<1>2. \A v \in LoginWorkers \ {w} : worker'[v] = worker[v]
    BY NobodyIsAFuture, OneFutureMoves DEF Returned, ClearsFailure, ForAgents
<1>4. NoFailure \in Refusals /\ NoFailure.kind # "permanent"
    BY LoginConstants DEF NoFailure, Refusals
<1>5. failure' \in [Names -> Refusals] /\ \A m \in Names : failure'[m] = IF m = l THEN NoFailure ELSE failure[m]
    BY <1>4, LoginParts DEF ClearsFailure, ForAgents
<1> QED
    BY <1>5, ReturnedIsRight, <1>4, LoginParts, <1>2 DEF Unsaved, FailuresAreRight, Names,
       ClearsFailure, ForAgents

(* A refresh ends with a failure of its grant.                             *)
LEMMA RefreshEnds ==
    ASSUME LoginInv, NEW w \in LoginWorkers, Refreshes(w), NEW kind \in {"waiting", "permanent"}, Returned(w),
           failure' = [failure EXCEPT ![worker[w].login] = [kind |-> kind, grant |-> worker[w].grant]],
           lost' = lost \cup Unsaved(w), kind = "permanent" => worker[w].pc = "rejected",
           UNCHANGED <<stored, service, grants, latest, cut, assigned, agent>>
    PROVE  LoginInv'
<1> DEFINE l == worker[w].login
           new == [kind |-> kind, grant |-> worker[w].grant]
<1>1. \A v \in LoginWorkers \ {w} : worker'[v] = worker[v]
    BY NobodyIsAFuture, OneFutureMoves DEF Returned
<1>2. l \in Names /\ l \in CodexLogins
    BY LoginParts DEF LocksAreHeld, Names
<1>3. worker[w].grant \in 0..MaxGrants /\ worker[w].grant = stored[l].grant /\ worker[w].grant # 0
    BY ZenonT(60), <1>2, LoginParts DEF RefreshesAreRight, GrantsAreOwn, Futures
<1>4. worker[w].grant \in Grants
    BY <1>3, LoginConstants DEF Grants
<1> HIDE DEF new
<1> QED
    BY ReturnedIsRight, LoginParts, <1>4, <1>1, <1>2, <1>3 DEF FailuresAreRight, RefreshesAreRight,
       Names, new, Refusals

LEMMA RefreshFailsIsRight == ASSUME LoginInv, NEW w \in LoginWorkers, RefreshFails(w) PROVE LoginInv'
BY RefreshEnds DEF RefreshFails, Refreshes, ForAgents

LEMMA RefreshRejectedIsRight == ASSUME LoginInv, NEW w \in LoginWorkers, RefreshRejected(w) PROVE LoginInv'
BY RefreshEnds DEF RefreshRejected, Unsaved, Refreshes, ForAgents

-----------------------------------------------------------------------------
(* A future begins, takes a lock, and goes on.                             *)

(* While a future moves to or within a stage that no refresh is in, only   *)
(* what is said of sign-ins and locks is to be seen to.                    *)
LEMMA FutureGoes ==
    ASSUME LoginInv, NEW w \in LoginWorkers, NEW k \in Futures, worker' = [worker EXCEPT ![w] = k],
           worker[w].pc \notin {"answered", "clears"}, ~Refreshes(w), k.pc \in {"waits", "stores", "deletes", "checks"},
           lock' \in [Names -> LoginWorkers \cup {Unlocked}], LocksAreHeld', GrantsAreOwn',
           UNCHANGED <<stored, service, failure, lost, latest, cut, assigned, agent>>
    PROVE  LoginInv'
<1>1. /\ worker' \in [LoginWorkers -> Futures] /\ worker'[w] = k
      /\ \A v \in LoginWorkers \ {w} : worker'[v] = worker[v]
    BY OneFutureMoves
<1> QED
    BY <1>1, FailuresStay, LoginParts, TypesKeep DEF LoginInv, TokensFollow, RefreshesAreRight,
       Refreshes, StoredIsTheLatest

(* A future begins: with a grant of its own when it signs in.              *)
LEMMA FutureBegins ==
    ASSUME LoginInv, NEW w \in LoginWorkers, worker[w].pc = "idle", NEW k \in Futures, worker' = [worker EXCEPT ![w] = k],
           k.login \in Names, k.pc \in {"waits", "stores", "deletes"}, k.pc = "waits" <=> k.login \in CodexLogins,
           k.pc = "stores" => k.op = "login",
           \/ k.op # "login" /\ grants' = grants
           \/ k.op = "login" /\ grants < MaxGrants /\ grants' = grants + 1 /\ k.grant = grants' /\ k.kind # "none",
           UNCHANGED <<stored, service, lock, failure, lost, latest, cut, assigned, agent>>
    PROVE  LoginInv'
<1>4. GrantsAreOwn'
    BY LoginConstants, LoginParts DEF GrantsAreOwn, SignsIn, Grants
<1> QED
    BY <1>4, FutureGoes, LoginParts, OneFutureMoves DEF Refreshes, LocksAreHeld

LEMMA BeginsIsRight ==
    ASSUME LoginInv, NEW w \in LoginWorkers,
           \/ \E l \in CodexLogins, kind \in {"oauth", "mediated"}, imported \in BOOLEAN : CodexLogin(w, l, kind, imported)
           \/ \E l \in ClaudeLogins : ClaudeLogin(w, l)
           \/ \E l \in Names : Logout(w, l)
           \/ \E l \in CodexLogins : Resolve(w, l)
    PROVE  LoginInv'
<1>1. CodexLogins \subseteq Names /\ ClaudeLogins \subseteq Names /\ CodexLogins \cap ClaudeLogins = {} /\ grants \in Nat
    BY LoginConstants, LoginParts DEF Names
<1>2. Nowhere = [pc |-> "idle", op |-> "none", login |-> NoLogin, kind |-> "none", grant |-> 0, token |-> 0]
      /\ 0 \in 0..MaxGrants /\ 0 \in 0..MaxTokens
    BY LoginConstants DEF Nowhere
<1>3. ASSUME NEW l \in CodexLogins, NEW kind \in {"oauth", "mediated"}, NEW imported \in BOOLEAN,
             CodexLogin(w, l, kind, imported)
      PROVE  LoginInv'
  <2>1. /\ worker[w].pc = "idle" /\ grants < MaxGrants /\ grants' = grants + 1
        /\ UNCHANGED <<stored, service, lock, failure, lost, latest, cut, assigned, agent>>
      BY <1>3 DEF CodexLogin, ForAgents
  <2>2. PICK k : k = [Nowhere EXCEPT !.pc = "waits", !.op = "login", !.login = l, !.kind = kind, !.grant = grants']
      OBVIOUS
  <2>4. grants' \in 0..MaxGrants
      BY <1>1, <2>1, LoginConstants
  <2>5. /\ k \in Futures /\ k.pc = "waits" /\ k.op = "login" /\ k.login = l /\ k.kind = kind /\ k.grant = grants'
      BY <1>1, <1>2, <2>2, <2>4 DEF Futures
  <2> QED
      BY <1>1, <2>1, <2>5, FutureBegins, <1>3, <2>2 DEF CodexLogin
<1>4. ASSUME NEW l \in ClaudeLogins, ClaudeLogin(w, l)
      PROVE  LoginInv'
  <2>1. /\ worker[w].pc = "idle" /\ grants < MaxGrants /\ grants' = grants + 1
        /\ UNCHANGED <<stored, service, lock, failure, lost, latest, cut, assigned, agent>>
      BY <1>4 DEF ClaudeLogin, ForAgents
  <2>2. PICK k : k = [Nowhere EXCEPT !.pc = "stores", !.op = "login", !.login = l, !.kind = "setup token", !.grant = grants']
      OBVIOUS
  <2>4. grants' \in 0..MaxGrants
      BY <1>1, <2>1, LoginConstants
  <2>5. /\ k \in Futures /\ k.pc = "stores" /\ k.op = "login" /\ k.login = l /\ k.kind = "setup token" /\ k.grant = grants'
      BY <1>1, <1>2, <2>2, <2>4 DEF Futures
  <2> QED
      BY <1>1, <2>1, <2>5, FutureBegins, <1>4, <2>2 DEF ClaudeLogin
<1>5. ASSUME NEW l \in Names, Logout(w, l)
      PROVE  LoginInv'
  <2>2. PICK pc : pc = IF l \in CodexLogins THEN "waits" ELSE "deletes"
      OBVIOUS
  <2>3. PICK k : k = [Nowhere EXCEPT !.pc = pc, !.op = "logout", !.login = l]
      OBVIOUS
  <2>5. k \in Futures /\ k.pc = pc /\ k.op = "logout" /\ k.login = l
      BY <1>1, <1>2, <2>2, <2>3 DEF Futures
  <2> QED
      BY <1>1, <2>2, <2>5, FutureBegins, <1>5, <2>3 DEF Logout, ForAgents
<1>6. ASSUME NEW l \in CodexLogins, Resolve(w, l)
      PROVE  LoginInv'
  <2>2. PICK k : k = [Nowhere EXCEPT !.pc = "waits", !.op = "resolve", !.login = l]
      OBVIOUS
  <2>4. k \in Futures /\ k.pc = "waits" /\ k.op = "resolve" /\ k.login = l
      BY <1>1, <1>2, <2>2 DEF Futures
  <2> QED
      BY <1>1, <2>4, FutureBegins, <1>6, <2>2 DEF Resolve, ForAgents
<1> QED
    BY <1>3, <1>4, <1>5, <1>6

LEMMA TakesLockIsRight == ASSUME LoginInv, NEW w \in LoginWorkers, TakesLock(w) PROVE LoginInv'
<1> DEFINE l == worker[w].login
           pc == IF worker[w].op = "login" THEN "stores" ELSE IF worker[w].op = "logout" THEN "deletes" ELSE "checks"
<1>1. /\ worker[w].pc = "waits" /\ lock[l] = Unlocked /\ lock' = [lock EXCEPT ![l] = w]
      /\ worker' = [worker EXCEPT ![w].pc = pc]
      /\ UNCHANGED <<stored, service, failure, grants, lost, latest, cut, assigned, agent>>
    BY DEF TakesLock, ForAgents
<1>2. l \in Names /\ l \in CodexLogins /\ worker[w] \in Futures
    BY <1>1, LoginParts DEF LocksAreHeld
<1>3. PICK k : k = [worker[w] EXCEPT !.pc = pc]
    OBVIOUS
<1>4. pc \in {"stores", "deletes", "checks"} /\ (pc = "stores" => worker[w].op = "login")
    OBVIOUS
<1> HIDE DEF pc
<1>6. /\ k \in Futures /\ k.pc = pc /\ k.op = worker[w].op /\ k.login = l /\ k.kind = worker[w].kind
      /\ k.grant = worker[w].grant
    BY <1>2, <1>3, <1>4 DEF Futures
<1>8. lock' \in [Names -> LoginWorkers \cup {Unlocked}] /\ \A m \in Names : lock'[m] = IF m = l THEN w ELSE lock[m]
    BY <1>1, <1>2, LoginParts
<1>9. LocksAreHeld'
    BY LoginConstants, <1>1, LoginParts, <1>4 DEF LocksAreHeld, Refreshes
<1>10. GrantsAreOwn'
    BY <1>1, LoginParts DEF SignsIn, GrantsAreOwn
<1> QED
    BY <1>1, <1>4, <1>6, <1>8, <1>9, <1>10, FutureGoes, <1>3 DEF Refreshes

-----------------------------------------------------------------------------
(* What is stored changes.                                                 *)

(* A sign-in or a sign-out writes what it is to write, as the only one on  *)
(* its login that holds the lock.                                          *)
LEMMA WritesLogin ==
    ASSUME LoginInv, NEW w \in LoginWorkers, worker[w].pc \in {"stores", "deletes"}, NEW new \in Accounts,
           stored' = [stored EXCEPT ![worker[w].login] = new], latest' = [latest EXCEPT ![worker[w].login] = new.grant],
           worker' = [worker EXCEPT ![w].pc = "clears"], ~new.due,
           (new.grant = 0 /\ new.kind # "oauth") \/ (SignsIn(w) /\ new.grant = worker[w].grant /\ new.token = 0),
           UNCHANGED <<service, lock, failure, grants, lost, cut, assigned, agent>>
    PROVE  LoginInv'
<1> DEFINE l == worker[w].login
<1>1. PICK k : k = [worker[w] EXCEPT !.pc = "clears"]
    OBVIOUS
<1>3. k \in Futures /\ k.pc = "clears" /\ k.op = worker[w].op /\ k.login = l /\ k.grant = worker[w].grant
    BY <1>1, LoginParts DEF Futures, LocksAreHeld
<1>4. /\ worker' \in [LoginWorkers -> Futures] /\ worker'[w] = k
      /\ \A v \in LoginWorkers \ {w} : worker'[v] = worker[v]
    BY <1>3, OneFutureMoves, <1>1, LoginParts DEF LocksAreHeld
<1>6. /\ latest' \in [Names -> 0..MaxGrants]
      /\ \A m \in Names : latest'[m] = IF m = l THEN new.grant ELSE latest[m]
    BY LoginParts, <1>1 DEF Accounts, LocksAreHeld
<1>8. LocksAreHeld'
    BY <1>3, <1>4, LoginParts, <1>1 DEF LocksAreHeld, Refreshes
<1>11. RefreshesAreRight'
    BY LoginParts DEF RefreshesAreRight, Refreshes, LocksAreHeld
<1>12. TokensFollow'
    BY LoginParts DEF TokensFollow, GrantsAreOwn
<1> QED
    BY <1>8, <1>11, <1>12, LoginParts, <1>6, <1>4, TypesKeep, <1>1 DEF LoginInv, FailuresAreRight,
       StoredIsTheLatest, GrantsAreOwn, SignsIn, LocksAreHeld

LEMMA StoresLoginIsRight == ASSUME LoginInv, NEW w \in LoginWorkers, StoresLogin(w) PROVE LoginInv'
<1>1. PICK new : new = [kind |-> worker[w].kind, grant |-> worker[w].grant, token |-> 0, due |-> FALSE]
    OBVIOUS
<1>4. 0 \in 0..MaxTokens
    BY LoginConstants
<1>5. new \in Accounts /\ new.kind = worker[w].kind /\ new.grant = worker[w].grant /\ new.token = 0 /\ ~new.due
    BY <1>1, <1>4, LoginParts DEF Accounts, Futures, LocksAreHeld, SignsIn, StoresLogin, ForAgents
<1> QED
    BY <1>5, WritesLogin, LoginParts, <1>1 DEF LocksAreHeld, SignsIn, StoresLogin, ForAgents

LEMMA DeletesLoginIsRight == ASSUME LoginInv, NEW w \in LoginWorkers, DeletesLogin(w) PROVE LoginInv'
<1>1. PICK new : new = NoAccount
    OBVIOUS
<1>3. new \in Accounts /\ new.kind # "oauth" /\ new.grant = 0 /\ ~new.due
    BY <1>1, LoginConstants DEF Accounts, NoAccount
<1> QED
    BY <1>3, WritesLogin, <1>1 DEF DeletesLogin, ForAgents

-----------------------------------------------------------------------------
(* The refresh.                                                            *)

LEMMA ChecksGrantIsRight == ASSUME LoginInv, NEW w \in LoginWorkers, ChecksGrant(w) PROVE LoginInv'
<1> DEFINE l == worker[w].login
<1>1. worker[w].pc = "checks" /\ UNCHANGED <<stored, service, grants, lost, latest, cut, assigned, agent>>
    BY DEF ChecksGrant, ForAgents
<1>2. l \in CodexLogins /\ l \in Names /\ worker[w] \in Futures /\ lock[l] = w /\ stored[l] \in Accounts
    BY <1>1, LoginParts DEF LocksAreHeld, Names
<1>3. CASE Returned(w) /\ UNCHANGED failure
    BY <1>3, <1>1, FailuresStay, LoginParts, ReturnedIsRight DEF Returned, Unsaved
<1>4. CASE /\ stored[l].kind # "none" /\ ~NotDue(l)
           /\ failure' = [failure EXCEPT ![l] = NoFailure]
           /\ worker' = [worker EXCEPT ![w].pc = "sent", ![w].grant = stored[l].grant, ![w].token = stored[l].token]
           /\ UNCHANGED lock
  <2>1. stored[l].kind = "oauth"
      BY <1>2, <1>4, LoginParts DEF GrantsAreOwn, NotDue
  <2>2. PICK k : k = [worker[w] EXCEPT !.pc = "sent", !.grant = stored[l].grant, !.token = stored[l].token]
      OBVIOUS
  <2>3. worker' = [worker EXCEPT ![w] = k]
      BY <1>4, <2>2
  <2>4. k \in Futures /\ k.pc = "sent" /\ k.login = l /\ k.grant = stored[l].grant /\ k.token = stored[l].token
      BY <1>2, <2>2 DEF Futures, Accounts
  <2>5. /\ worker' \in [LoginWorkers -> Futures] /\ worker'[w] = k
        /\ \A v \in LoginWorkers \ {w} : worker'[v] = worker[v]
      BY <2>3, <2>4, OneFutureMoves
  <2>8. LoginTypeOK' /\ RestIsTyped'
      BY <1>1, <1>4, <2>5, LoginParts, TypesKeep, <1>2, LoginConstants DEF NoFailure, Refusals
  <2>9. LocksAreHeld'
      BY <1>2, <1>4, <2>4, <2>5, LoginParts DEF LocksAreHeld, Refreshes
  <2>10. GrantsAreOwn'
      BY <1>1, <2>4, <2>5, LoginParts DEF GrantsAreOwn, SignsIn
  <2>12. RefreshesAreRight'
      BY <1>1, <2>1, <2>4, <2>5, LoginParts DEF RefreshesAreRight, Refreshes
  <2>13. TokensFollow'
    <3> QED
        BY <1>1, LoginParts, <2>5 DEF TokensFollow
  <2>14. FailuresAreRight'
      BY <1>1, <2>5, LoginParts, <1>2, <1>4, LoginConstants DEF Names, FailuresAreRight, NoFailure,
         Refusals
  <2> QED
      BY <2>8, <2>9, <2>10, <2>12, <2>13, <2>14, <1>1, LoginParts DEF LoginInv, StoredIsTheLatest
<1> QED
    BY <1>3, <1>4 DEF ChecksGrant

(* A refresh that was sent is answered.                                    *)
LEMMA ServiceAnswersIsRight ==
    ASSUME LoginInv, NEW w \in LoginWorkers, NEW token \in 0..MaxTokens, ServiceAnswers(w, token)
    PROVE  LoginInv'
<1> DEFINE l == worker[w].login
           g == worker[w].grant
<1>1. worker[w].pc = "sent" /\ UNCHANGED <<stored, lock, failure, grants, lost, latest, cut, assigned, agent>>
    BY DEF ServiceAnswers, ForAgents
<1>2. l \in CodexLogins /\ l \in Names /\ worker[w] \in Futures /\ lock[l] = w /\ stored[l] \in Accounts
    BY <1>1, LoginParts DEF LocksAreHeld, Refreshes, Names
<1>3. stored[l].kind = "oauth" /\ g = stored[l].grant /\ worker[w].token = stored[l].token
    BY <1>1, LoginParts DEF RefreshesAreRight, Refreshes
<1>5. g \in Grants /\ ~(g > grants)
    BY LoginParts, LoginConstants, <1>2, <1>3 DEF GrantsAreOwn,
       Grants (* No other login and no other future has this grant. *)
<1>7. \A v \in LoginWorkers \ {w} : Refreshes(v) => worker[v].login # l /\ worker[v].login \in Names
    BY <1>1, <1>2, LoginParts DEF LocksAreHeld, Refreshes, Names
<1>8. \A v \in LoginWorkers \ {w} : (Refreshes(v) \/ SignsIn(v)) => worker[v].grant # g
    BY <1>7, LoginParts, <1>2, <1>3 DEF RefreshesAreRight, GrantsAreOwn
<1>9. ASSUME NEW k \in Futures, worker' = [worker EXCEPT ![w] = k], k.pc \in {"answered", "rejected"}, k.login = l, k.grant = g,
             service' \in [Grants -> [token : 0..MaxTokens, revoked : BOOLEAN]],
             \A h \in Grants \ {g} : service'[h] = service[h], service'[g].revoked = service[g].revoked,
             k.pc = "answered" => k.token = service'[g].token,
             k.pc = "rejected" => service' = service /\ (service[g].revoked \/ service[g].token # stored[l].token)
      PROVE  LoginInv'
  <2>2. LoginTypeOK' /\ RestIsTyped'
      BY <1>1, <1>9, LoginParts, TypesKeep, OneFutureMoves
  <2>3. LocksAreHeld'
      BY <1>1, <1>2, <1>9, LoginParts, OneFutureMoves DEF LocksAreHeld, Refreshes
  <2>5. GrantsAreOwn'
    <3>1. GrantsAreOwn /\ grants' = grants /\ stored' = stored
        BY <1>1, LoginParts
    <3>2. \A v \in LoginWorkers : SignsIn(v) => worker[v].grant \in Grants /\ worker[v].grant # g
        BY <1>2, <1>3, <3>1, LoginConstants DEF GrantsAreOwn, Grants
    <3> QED
        BY <3>1, <1>5, <1>9, <3>2, OneFutureMoves DEF GrantsAreOwn, SignsIn
  <2>8. RefreshesAreRight'
    <3>1. SUFFICES ASSUME NEW v \in LoginWorkers, Refreshes(v)'
                   PROVE  LET m == worker'[v].login IN
                          /\ stored[m].kind = "oauth" /\ worker'[v].grant = stored[m].grant
                          /\ worker'[v].pc = "sent" => worker'[v].token = stored[m].token
                          /\ worker'[v].pc = "answered" => worker'[v].token = service'[worker'[v].grant].token
                          /\ worker'[v].pc = "rejected" => service'[worker'[v].grant].revoked \/ worker'[v].grant \in lost
        BY <1>1 DEF RefreshesAreRight
    <3>2. CASE v = w
        BY <1>3, <1>9, <3>2, <1>1, <1>7, <1>2, LoginParts, OneFutureMoves DEF Refreshes,
           TokensFollow
    <3>3. CASE v # w
      <4>2. worker[v].grant = stored[worker[v].login].grant /\ worker[v].login \in Names /\ stored[worker[v].login].kind = "oauth"
          BY <1>7, <3>3, LoginParts, <1>8, <3>1, <1>9, OneFutureMoves DEF RefreshesAreRight,
             Refreshes
      <4>3. worker[v].grant \in Grants
          BY <4>2, LoginParts, LoginConstants DEF GrantsAreOwn, Grants
      <4> QED
          BY LoginParts, <1>9, <4>3, <1>8, <3>1, <3>3, OneFutureMoves DEF RefreshesAreRight,
             Refreshes
    <3> QED
        BY <3>2, <3>3
  <2>9. TokensFollow'
    <3>1. SUFFICES ASSUME NEW m \in Names, stored[m].kind = "oauth"
                   PROVE  \/ stored[m].grant \in lost
                          \/ service'[stored[m].grant].token = stored[m].token
                          \/ \E v \in LoginWorkers : worker'[v].pc = "answered" /\ worker'[v].login = m
        BY <1>1 DEF TokensFollow
    <3>3. CASE m = l
        BY <1>1, <1>9, <3>3, <3>1, LoginParts, OneFutureMoves DEF TokensFollow
    <3>4. CASE m # l
      <4>1. stored[m].grant \in Grants /\ stored[m].grant # g
          BY <3>1, LoginParts, <3>4, LoginConstants, <1>2, <1>3 DEF GrantsAreOwn, Grants
      <4> QED
          BY <1>1, <1>9, <4>1, <3>1, LoginParts, OneFutureMoves DEF TokensFollow
    <3> QED
        BY <3>3, <3>4
  <2>10. FailuresAreRight'
      BY <1>9, <1>1, FailuresStay
  <2> QED
      BY <2>2, <2>3, <2>5, <2>8, <2>9, <2>10, <1>1, LoginParts DEF LoginInv, StoredIsTheLatest
<1>10. service \in [Grants -> [token : 0..MaxTokens, revoked : BOOLEAN]]
    BY LoginParts
<1>11. CASE Accepted(g, worker[w].token)
  <2>1. PICK k : k = [worker[w] EXCEPT !.pc = "answered", !.token = token]
      OBVIOUS
  <2>2. worker' = [worker EXCEPT ![w] = k] /\ service' = [service EXCEPT ![g].token = token]
      BY <1>11, <2>1 DEF ServiceAnswers
  <2>3. k \in Futures /\ k.pc = "answered" /\ k.login = l /\ k.grant = g /\ k.token = token
      BY <1>2, <2>1 DEF Futures
  <2>4. PICK answer : answer = [service[g] EXCEPT !.token = token]
      OBVIOUS
  <2>7. /\ service' \in [Grants -> [token : 0..MaxTokens, revoked : BOOLEAN]] /\ service'[g] = answer
        /\ \A h \in Grants \ {g} : service'[h] = service[h]
      BY <1>5, <1>10, <2>2, <2>4
  <2> QED
      BY <1>9, <2>2, <2>3, <2>7, <1>5, <1>10, <2>4
<1>12. CASE ~Accepted(g, worker[w].token)
  <2>1. PICK k : k = [worker[w] EXCEPT !.pc = "rejected"]
      OBVIOUS
  <2>2. worker' = [worker EXCEPT ![w] = k] /\ service' = service
      BY <1>12, <2>1 DEF ServiceAnswers
  <2> QED
      BY <1>9, <1>10, <2>2, <1>3, <1>12, <1>2, <2>1 DEF Accepted, Futures
<1> QED
    BY <1>11, <1>12

(* The replacement is stored: the grant is the stored one, and the token   *)
(* the one the service accepts.                                            *)
LEMMA StoresGrantIsRight == ASSUME LoginInv, NEW w \in LoginWorkers, StoresGrant(w) PROVE LoginInv'
<1> DEFINE l == worker[w].login
<1>1. PICK new : new = [kind |-> "oauth", grant |-> worker[w].grant, token |-> worker[w].token, due |-> FALSE]
    OBVIOUS
<1>5. new \in Accounts /\ new.kind = "oauth" /\ new.grant = stored[l].grant /\ new.token = worker[w].token /\ ~new.due
    BY <1>1, LoginParts DEF Accounts, Futures, RefreshesAreRight, Refreshes, LocksAreHeld, Names,
       StoresGrant, ForAgents
<1>12. LoginTypeOK' /\ RestIsTyped'
    BY LoginParts, TypesKeep, NobodyIsAFuture, OneFutureMoves, LoginConstants, <1>5, <1>1 DEF
       Returned, NoFailure, Refusals, LocksAreHeld, Refreshes, Names, StoresGrant, ForAgents
<1>13. LocksAreHeld'
    BY LoginParts, NobodyIsAFuture, <1>1 DEF LocksAreHeld, Refreshes, Returned, StoresGrant,
       ForAgents
<1>14. \A m \in Names : stored'[m].grant = stored[m].grant /\ (stored'[m].kind = "oauth" <=> stored[m].kind = "oauth")
                        /\ (stored'[m].due => stored[m].due)
    BY <1>5, LoginParts, <1>1 DEF RefreshesAreRight, Refreshes, LocksAreHeld, Names, StoresGrant,
       ForAgents
<1>15. GrantsAreOwn'
    BY NobodyIsAFuture, <1>14, LoginParts, OneFutureMoves, <1>1 DEF SignsIn, GrantsAreOwn, Returned,
       StoresGrant, ForAgents
<1>16. StoredIsTheLatest'
    BY <1>14, LoginParts, <1>1 DEF StoredIsTheLatest, StoresGrant, ForAgents
<1>17. RefreshesAreRight'
    BY LoginParts, NobodyIsAFuture, OneFutureMoves, <1>1 DEF RefreshesAreRight, Refreshes,
       LocksAreHeld, Returned, StoresGrant, ForAgents
<1>18. TokensFollow'
    BY <1>5, LoginParts, NobodyIsAFuture, OneFutureMoves, <1>1 DEF TokensFollow, Returned,
       RefreshesAreRight, Refreshes, StoresGrant, ForAgents
<1>19. FailuresAreRight'
    BY LoginParts, NobodyIsAFuture, OneFutureMoves, LoginConstants, <1>1 DEF FailuresAreRight,
       Returned, NoFailure, Refusals, StoresGrant, ForAgents
<1> QED
    BY <1>12, <1>13, <1>15, <1>16, <1>17, <1>18, <1>19 DEF LoginInv

-----------------------------------------------------------------------------
(* What happens around them.                                               *)

LEMMA BecomesDueIsRight == ASSUME LoginInv, NEW l \in CodexLogins, BecomesDue(l) PROVE LoginInv'
<1>1. /\ stored[l].kind = "oauth" /\ stored' = [stored EXCEPT ![l].due = TRUE] /\ l \in Names
      /\ UNCHANGED <<service, lock, failure, worker, grants, lost, latest, cut, assigned, agent>>
    BY DEF BecomesDue, ForAgents, Names
<1>2. stored' \in [Names -> Accounts]
    BY ZenonT(60), <1>1, LoginParts DEF Accounts
<1>3. \A m \in Names : /\ stored'[m].grant = stored[m].grant /\ stored'[m].kind = stored[m].kind
                       /\ stored'[m].token = stored[m].token /\ (stored'[m].due => stored[m].due \/ m = l)
    BY <1>1, LoginParts DEF Accounts
<1>9. TokensFollow'
    BY <1>1, <1>3, LoginParts DEF TokensFollow
<1>10. FailuresAreRight'
    BY <1>1, <1>3, LoginParts DEF FailuresAreRight, Names
<1> QED
    BY <1>9, <1>10, LoginParts, <1>1, <1>3, <1>2, TypesKeep DEF LoginInv, Refreshes,
       RefreshesAreRight, StoredIsTheLatest, GrantsAreOwn, SignsIn, LocksAreHeld

LEMMA CoolsDownIsRight == ASSUME LoginInv, NEW l \in CodexLogins, CoolsDown(l) PROVE LoginInv'
<1>1. /\ failure[l].kind = "waiting" /\ failure' = [failure EXCEPT ![l].kind = "elapsed"] /\ l \in Names
      /\ UNCHANGED <<stored, service, lock, worker, grants, lost, latest, cut, assigned, agent>>
    BY DEF CoolsDown, ForAgents, Names
<1>3. \A m \in CodexLogins : failure'[m].kind = "permanent" => failure'[m] = failure[m]
    BY <1>1, LoginParts DEF Refusals, Names
<1>4. LoginTypeOK' /\ RestIsTyped'
    BY <1>1, LoginParts, TypesKeep DEF Refusals
<1> QED
    BY <1>4, <1>1, LoginParts, <1>3 DEF LoginInv, GrantsAreOwn, SignsIn, RefreshesAreRight,
       Refreshes, LocksAreHeld, StoredIsTheLatest, TokensFollow, FailuresAreRight

LEMMA ServiceRevokesIsRight == ASSUME LoginInv, NEW g \in Grants, ServiceRevokes(g) PROVE LoginInv'
<1>3. LoginTypeOK' /\ RestIsTyped'
    BY LoginParts, TypesKeep DEF ServiceRevokes, ForAgents
<1>4. LocksAreHeld' /\ StoredIsTheLatest'
    BY LoginParts DEF LocksAreHeld, Refreshes, StoredIsTheLatest, ServiceRevokes, ForAgents
<1>5. \A h \in 1..grants : h \in Grants
    BY LoginParts, LoginConstants DEF GrantsAreOwn, Grants
<1>6. GrantsAreOwn'
    BY <1>5, LoginParts DEF GrantsAreOwn, SignsIn, ServiceRevokes, ForAgents
<1> QED
    BY <1>3, <1>4, <1>6, LoginParts, <1>5 DEF LoginInv, FailuresAreRight, TokensFollow, Refreshes,
       RefreshesAreRight, GrantsAreOwn, ServiceRevokes, ForAgents

(* A restart forgets what was under way: a rotation that was answered and  *)
(* not stored is lost.                                                     *)
LEMMA LoginRestartIsRight == ASSUME LoginInv, LoginRestart PROVE LoginInv'
<1>2. NoFailure \in Refusals /\ NoFailure.kind # "permanent"
    BY LoginConstants DEF NoFailure, Refusals
<1>4. RestIsTyped' /\ \A a \in LoginAgents : agent'[a].pc = "idle"
  <2> QED
      BY ZenonT(60), LoginParts DEF RestIsTyped, LoginRestart
<1>5. LoginTypeOK'
  <2> QED
      BY <1>4, <1>2, LoginParts, NobodyIsAFuture DEF LoginTypeOK, Accounts, Refusals, Futures,
         RestIsTyped, LoginRestart
<1>6. LocksAreHeld' /\ RefreshesAreRight'
    BY NobodyIsAFuture DEF LocksAreHeld, RefreshesAreRight, Refreshes, LoginRestart
<1>9. TokensFollow'
  <2>1. SUFFICES ASSUME NEW l \in Names, stored[l].kind = "oauth", stored[l].grant \notin lost',
                        service[stored[l].grant].token # stored[l].token
                 PROVE  FALSE
      BY DEF TokensFollow, LoginRestart
  <2>2. PICK w \in LoginWorkers : worker[w].pc = "answered" /\ worker[w].login = l
      BY <2>1, LoginParts DEF TokensFollow, LoginRestart
  <2>3. worker[w].grant = stored[l].grant /\ worker[w].token = service[worker[w].grant].token
      BY <2>2, LoginParts DEF RefreshesAreRight, Refreshes
  <2> QED
      BY <2>1, <2>2, <2>3 DEF Unsaved, LoginRestart
<1> QED
    BY <1>4, <1>5, <1>6, <1>9, <1>2, LoginParts, NobodyIsAFuture DEF LoginInv, FailuresAreRight,
       Names, StoredIsTheLatest, SignsIn, GrantsAreOwn, LoginRestart

-----------------------------------------------------------------------------
(* The choice of a login.                                                  *)

LEMMA LeastNumber ==
    ASSUME NEW S \in SUBSET Nat, S # {}
    PROVE  \E i \in S : \A j \in S : i <= j
<1>1. PICK i \in S : \A j \in S : <<j, i>> \notin OpToRel(<, Nat)
    BY NatLessThanWellFounded, WFMin
<1>2. \A j \in S : i <= j
  <2>1. SUFFICES ASSUME NEW j \in S PROVE i <= j
      OBVIOUS
  <2>2. i \in Nat /\ j \in Nat /\ ~(j < i)
      BY <1>1 DEF OpToRel
  <2> QED
      BY <2>2
<1> QED
    BY <1>2

LEMMA UsersAreCounted == ASSUME NEW a, NEW l PROVE Users(a, l) \in Nat
BY LoginConstants, FS_Subset, FS_CardinalityType DEF Users

(* Some candidate is used the least, and the first such is the choice.     *)
LEMMA LeastUsedIsOne ==
    ASSUME RestIsTyped, NEW a \in LoginAgents, Candidates(a) # {}
    PROVE  /\ LeastUsed(a) \in Names
           /\ \E i \in Candidates(a) :
                /\ LeastUsed(a) = agent[a].set[i]
                /\ \A j \in Candidates(a) : Users(a, agent[a].set[i]) <= Users(a, agent[a].set[j])
<1> DEFINE C == Candidates(a)
           Use(i) == Users(a, agent[a].set[i])
           Counts == {Use(i) : i \in C}
           Better(i, j) == Use(i) < Use(j) \/ (Use(i) = Use(j) /\ i <= j)
<1>2. C \subseteq DOMAIN agent[a].set /\ DOMAIN agent[a].set \subseteq Nat /\ C # {}
    BY LoginConstants DEF Candidates, RestIsTyped
<1>3. \A i \in C : Use(i) \in Nat /\ i \in Nat /\ agent[a].set[i] \in Names
    BY <1>2, UsersAreCounted, LoginConstants DEF RestIsTyped
<1> HIDE DEF C, Use
<1>4. PICK n \in Counts : \A m \in Counts : n <= m
    BY <1>2, <1>3, LeastNumber
<1> DEFINE Ties == {i \in C : Use(i) = n}
<1>5. PICK i \in Ties : \A j \in Ties : i <= j
    BY <1>3, LeastNumber
<1>6. i \in C /\ \A j \in C : Better(i, j)
    BY <1>5, <1>3, <1>4
<1> DEFINE best == CHOOSE x \in C : \A j \in C : Better(x, j)
<1>7. best \in C /\ \A j \in C : Better(best, j)
    BY <1>6
<1>8. LeastUsed(a) = agent[a].set[best]
    BY DEF LeastUsed, C, Use
<1> HIDE DEF best
<1> QED
    BY <1>8, <1>3, <1>7 DEF C, Use

LEMMA ChosenIsALogin ==
    ASSUME LoginInv, NEW a \in LoginAgents
    PROVE  choose(a) \in Names \cup {NoLogin}
BY LoginParts, LeastUsedIsOne DEF LoginTypeOK, LoginOf, choose

(* The passes of agents write nothing that the logins are made of.         *)
LEMMA AgentMoves ==
    ASSUME LoginInv, UNCHANGED <<stored, service, lock, failure, worker, grants, lost, latest, cut>>,
           NEW a \in LoginAgents,
           NEW new \in [pc : {"idle", "reads", "chose", "prepared"}, set : LoginSets,
                        run : {"running", "stopped", "deleting"}, status : Names \cup {NoLogin}, usable : SUBSET Names],
           agent' = [agent EXCEPT ![a] = new], assigned' \in [LoginAgents -> Names \cup {NoLogin}],
           \A b \in LoginAgents \ {a} : assigned'[b] = assigned[b],
           new.pc \in {"chose", "prepared"} => assigned'[a] # NoLogin
    PROVE  LoginInv'
<1>3. \A b \in LoginAgents :
          /\ agent'[b].pc \in {"idle", "reads", "chose", "prepared"} /\ agent'[b].set \in LoginSets
          /\ agent'[b].status \in Names \cup {NoLogin} /\ agent'[b].run \in {"running", "stopped", "deleting"}
          /\ agent'[b].usable \subseteq Names /\ (agent'[b].pc \in {"chose", "prepared"} => assigned'[b] # NoLogin)
  <2>1. SUFFICES ASSUME NEW b \in LoginAgents
                 PROVE  /\ agent'[b].pc \in {"idle", "reads", "chose", "prepared"} /\ agent'[b].set \in LoginSets
                        /\ agent'[b].status \in Names \cup {NoLogin} /\ agent'[b].run \in {"running", "stopped", "deleting"}
                        /\ agent'[b].usable \subseteq Names /\ (agent'[b].pc \in {"chose", "prepared"} => assigned'[b] # NoLogin)
      OBVIOUS
  <2>2. agent[b].pc \in {"chose", "prepared"} => assigned[b] # NoLogin
      BY LoginParts DEF LoginTypeOK
  <2> QED
      BY <2>2, LoginParts DEF RestIsTyped
<1>4. LoginTypeOK'
    BY <1>3, LoginParts DEF LoginTypeOK, Accounts, Refusals, Futures
<1>5. LocksAreHeld' /\ StoredIsTheLatest' /\ TokensFollow' /\ FailuresAreRight'
    BY LoginParts DEF LocksAreHeld, Refreshes, StoredIsTheLatest, TokensFollow, FailuresAreRight
<1> QED
    BY <1>4, <1>5, LoginParts DEF LoginInv, GrantsAreOwn, SignsIn, RefreshesAreRight, Refreshes,
       RestIsTyped

LEMMA AgentStepsAreRight ==
    ASSUME LoginInv, NEW a \in LoginAgents,
           \/ ReadsUsable(a) \/ AssignsLogin(a) \/ PreparesHarness(a) \/ RecordsLogin(a) \/ PassIsCutShort(a)
           \/ \E set \in LoginSets, run \in {"running", "stopped", "deleting"} : ChangesAgent(a, set, run)
    PROVE  LoginInv'
<1> DEFINE Agents == [pc : {"idle", "reads", "chose", "prepared"}, set : LoginSets,
                      run : {"running", "stopped", "deleting"}, status : Names \cup {NoLogin}, usable : SUBSET Names]
<1>1. agent \in [LoginAgents -> Agents] /\ agent[a] \in Agents /\ assigned \in [LoginAgents -> Names \cup {NoLogin}]
      /\ (agent[a].pc \in {"chose", "prepared"} => assigned[a] # NoLogin)
    BY LoginParts DEF RestIsTyped, LoginTypeOK
<1>2. UNCHANGED <<stored, service, lock, failure, worker, grants, lost, latest, cut>>
    BY DEF ReadsUsable, AssignsLogin, PreparesHarness, RecordsLogin, PassIsCutShort, ChangesAgent, ForLogins
<1>3. CASE ReadsUsable(a)
  <2>1. PICK new : new = [agent[a] EXCEPT !.pc = "reads", !.usable = {l \in Names : stored[l].kind # "none"}]
      OBVIOUS
  <2>2. agent' = [agent EXCEPT ![a] = new] /\ assigned' = assigned
      BY <1>3, <2>1 DEF ReadsUsable
  <2> QED
      BY <1>1, <1>2, <2>2, AgentMoves, <2>1
<1>4. CASE AssignsLogin(a)
  <2>1. PICK pc : pc = IF choose(a) = NoLogin THEN "idle" ELSE "chose"
      OBVIOUS
  <2>2. PICK new : new = [agent[a] EXCEPT !.pc = pc, !.usable = {}]
      OBVIOUS
  <2>3. agent' = [agent EXCEPT ![a] = new] /\ assigned' = [assigned EXCEPT ![a] = choose(a)]
      BY <1>4, <2>1, <2>2 DEF AssignsLogin
  <2> QED
      BY <1>2, <2>3, AgentMoves, <2>1, <1>1, ChosenIsALogin, <2>2
<1>5. CASE PreparesHarness(a)
    BY <1>1, <1>5, <1>2, AgentMoves DEF PreparesHarness
<1>6. CASE RecordsLogin(a)
  <2>1. PICK new : new = [agent[a] EXCEPT !.pc = "idle", !.status = assigned[a]]
      OBVIOUS
  <2>2. agent' = [agent EXCEPT ![a] = new] /\ assigned' = assigned
      BY <1>6, <2>1 DEF RecordsLogin
  <2> QED
      BY <1>1, <1>2, <2>2, AgentMoves, <2>1
<1>7. CASE PassIsCutShort(a)
  <2>1. PICK new : new = [agent[a] EXCEPT !.pc = "idle", !.usable = {}]
      OBVIOUS
  <2>2. agent' = [agent EXCEPT ![a] = new] /\ assigned' = assigned
      BY <1>7, <2>1 DEF PassIsCutShort
  <2> QED
      BY <1>1, <1>2, <2>2, AgentMoves, <2>1
<1>8. ASSUME NEW set \in LoginSets, NEW run \in {"running", "stopped", "deleting"}, ChangesAgent(a, set, run)
      PROVE  LoginInv'
  <2>1. PICK new : new = [agent[a] EXCEPT !.set = set, !.run = run]
      OBVIOUS
  <2>2. agent' = [agent EXCEPT ![a] = new] /\ assigned' = assigned /\ agent[a].pc = "idle"
      BY <1>8, <2>1 DEF ChangesAgent
  <2> QED
      BY <1>1, <1>2, <2>2, AgentMoves, <2>1
<1> QED
    BY <1>3, <1>4, <1>5, <1>6, <1>7, <1>8

-----------------------------------------------------------------------------

LEMMA LoginStarts == LoginInit => LoginInv
<1> SUFFICES ASSUME LoginInit PROVE LoginInv
    OBVIOUS
<1>1. 0 \in 0..MaxGrants /\ 0 \in 0..MaxTokens
    BY LoginConstants
<1>2. NoAccount \in Accounts /\ NoAccount.kind = "none" /\ NoAccount.grant = 0 /\ ~NoAccount.due
    BY <1>1 DEF NoAccount, Accounts
<1>3. NoFailure \in Refusals /\ NoFailure.kind # "permanent"
    BY <1>1 DEF NoFailure, Refusals
<1>9. LoginTypeOK
    BY <1>1, <1>2, <1>3, NobodyIsAFuture DEF LoginInit, LoginTypeOK, Accounts, Refusals, Futures
<1>10. LocksAreHeld /\ RefreshesAreRight
    BY NobodyIsAFuture DEF LocksAreHeld, RefreshesAreRight, Refreshes, LoginInit
<1> QED
    BY <1>9, <1>10, <1>2, <1>3, NobodyIsAFuture, <1>1 DEF LoginInv, StoredIsTheLatest, TokensFollow,
       FailuresAreRight, Names, SignsIn, GrantsAreOwn, RestIsTyped, LoginInit

LEMMA LoginRests == ASSUME LoginInv, UNCHANGED loginVars PROVE LoginInv'
<1>2. LocksAreHeld' /\ StoredIsTheLatest' /\ TokensFollow' /\ FailuresAreRight'
    BY LoginParts DEF loginVars, LocksAreHeld, Refreshes, StoredIsTheLatest, TokensFollow, FailuresAreRight
<1> QED
    BY <1>2, LoginParts, TypesKeep DEF LoginInv, loginVars, GrantsAreOwn, SignsIn,
       RefreshesAreRight, Refreshes

LEMMA LoginSteps == LoginInv /\ [LoginNext]_loginVars => LoginInv'
<1>1. ASSUME LoginInv, NEW w \in LoginWorkers,
             \/ \E l \in CodexLogins, kind \in {"oauth", "mediated"}, imported \in BOOLEAN : CodexLogin(w, l, kind, imported)
             \/ \E l \in ClaudeLogins : ClaudeLogin(w, l)
             \/ \E l \in Names : Logout(w, l)
             \/ \E l \in CodexLogins : Resolve(w, l)
             \/ TakesLock(w) \/ StoresLogin(w) \/ DeletesLogin(w) \/ ClearsFailure(w) \/ LoginFails(w)
      PROVE  LoginInv'
    BY <1>1, BeginsIsRight, TakesLockIsRight, StoresLoginIsRight, DeletesLoginIsRight, ClearsFailureIsRight,
       LoginFailsIsRight
<1>2. ASSUME LoginInv, NEW w \in LoginWorkers,
             \/ ChecksGrant(w)
             \/ \E token \in 0..MaxTokens : ServiceAnswers(w, token)
             \/ RefreshFails(w) \/ RefreshRejected(w) \/ StoresGrant(w)
             \/ Dropped(w)
      PROVE  LoginInv'
    BY <1>2, ChecksGrantIsRight, ServiceAnswersIsRight, RefreshFailsIsRight, RefreshRejectedIsRight,
       StoresGrantIsRight, DroppedIsRight
<1>3. ASSUME LoginInv,
             \/ \E l \in CodexLogins : BecomesDue(l) \/ CoolsDown(l)
             \/ \E g \in Grants : ServiceRevokes(g)
             \/ LoginRestart
      PROVE  LoginInv'
    BY <1>3, BecomesDueIsRight, CoolsDownIsRight, ServiceRevokesIsRight, LoginRestartIsRight
<1> QED
    BY <1>1, <1>2, <1>3, AgentStepsAreRight, LoginRests DEF LoginNext

LEMMA LoginInvIsLatest == LoginInv => StoredLoginsAreTheLatest
<1> SUFFICES ASSUME LoginInv PROVE StoredLoginsAreTheLatest
    OBVIOUS
<1>2. GivenUpIsTheStored
  <2>1. SUFFICES ASSUME NEW l \in CodexLogins, failure[l].kind = "permanent", l \notin cut, lock[l] = Unlocked
                 PROVE  failure[l].grant = stored[l].grant
      BY DEF GivenUpIsTheStored
  <2>2. ~\E w \in LoginWorkers : worker[w].pc = "clears" /\ worker[w].login = l
      BY <2>1, LoginParts, LoginConstants DEF LocksAreHeld
  <2> QED
      BY <2>1, <2>2, LoginParts DEF FailuresAreRight
<1> QED
    BY <1>2, LoginParts DEF StoredLoginsAreTheLatest, GivenUpForCause, FailuresAreRight

LEMMA LoginsStayRight == LoginSpec => []LoginInv
<1>1. LoginInv /\ [LoginNext]_loginVars => LoginInv'
    BY LoginSteps
<1> QED
    BY <1>1, LoginStarts, PTL DEF LoginSpec

(* A refresh in flight never brings an earlier sign-in back, and a grant   *)
(* is given up only when the service revoked it or one of its rotations    *)
(* was lost on the way: the lock of a login keeps refreshes, sign-ins and  *)
(* sign-outs of it apart (codex/authentication.rs).                        *)
THEOREM LoginsStayTheLatest == LoginSpec => []StoredLoginsAreTheLatest
<1>1. LoginInv => StoredLoginsAreTheLatest
    BY LoginInvIsLatest
<1> QED
    BY <1>1, LoginsStayRight, PTL

(* What a step makes of the choices of logins.                             *)
LEMMA OnlyAssigning ==
    ASSUME LoginInv, [LoginNext]_loginVars, NEW a \in LoginAgents, assigned'[a] \notin {assigned[a], NoLogin}
    PROVE  assigned'[a] = choose(a)
<1>1. CASE UNCHANGED assigned
    BY <1>1
<1>2. CASE LoginRestart
    BY <1>2 DEF LoginRestart
<1>3. ASSUME NEW b \in LoginAgents, AssignsLogin(b)
      PROVE  assigned'[a] = choose(a)
    BY <1>3 DEF AssignsLogin
<1>4. UNCHANGED assigned \/ LoginRestart \/ \E b \in LoginAgents : AssignsLogin(b)
  <2>1. ASSUME NEW w \in LoginWorkers,
               \/ \E l \in CodexLogins, kind \in {"oauth", "mediated"}, imported \in BOOLEAN : CodexLogin(w, l, kind, imported)
               \/ \E l \in ClaudeLogins : ClaudeLogin(w, l)
               \/ \E l \in Names : Logout(w, l)
               \/ \E l \in CodexLogins : Resolve(w, l)
               \/ TakesLock(w) \/ StoresLogin(w) \/ DeletesLogin(w) \/ ClearsFailure(w) \/ LoginFails(w)
        PROVE  UNCHANGED assigned
      BY <2>1 DEF CodexLogin, ClaudeLogin, Logout, Resolve, TakesLock, StoresLogin, DeletesLogin, ClearsFailure,
                LoginFails, ForAgents
  <2>2. ASSUME NEW w \in LoginWorkers,
               \/ ChecksGrant(w)
               \/ \E token \in 0..MaxTokens : ServiceAnswers(w, token)
               \/ RefreshFails(w) \/ RefreshRejected(w) \/ StoresGrant(w)
               \/ Dropped(w)
        PROVE  UNCHANGED assigned
      BY <2>2 DEF ChecksGrant, ServiceAnswers, RefreshFails, RefreshRejected, StoresGrant, Dropped, ForAgents
  <2>3. ASSUME \/ \E l \in CodexLogins : BecomesDue(l) \/ CoolsDown(l)
               \/ \E g \in Grants : ServiceRevokes(g)
        PROVE  UNCHANGED assigned
      BY <2>3 DEF BecomesDue, CoolsDown, ServiceRevokes, ForAgents
  <2>4. ASSUME NEW b \in LoginAgents,
               \/ ReadsUsable(b) \/ PreparesHarness(b) \/ RecordsLogin(b) \/ PassIsCutShort(b)
               \/ \E set \in LoginSets, run \in {"running", "stopped", "deleting"} : ChangesAgent(b, set, run)
        PROVE  UNCHANGED assigned
      BY <2>4 DEF ReadsUsable, PreparesHarness, RecordsLogin, PassIsCutShort, ChangesAgent
  <2> QED
      BY <2>1, <2>2, <2>3, <2>4 DEF LoginNext, loginVars
<1> QED
    BY <1>1, <1>2, <1>3, <1>4

(* An agent's login is exchanged for another only when it left the set or  *)
(* was not stored, and then for one the fewest running agents use, the     *)
(* choices of passes under way included (assign_login, LoginSet::choose).  *)
THEOREM ChoicesStayFair == LoginSpec => AgentKeepsItsLogin /\ LeastUsedIsGiven
<1> DEFINE Keeps == \A a \in LoginAgents :
                assigned'[a] # assigned[a] /\ LoginOf(a) # NoLogin /\ assigned'[a] \notin {LoginOf(a), NoLogin} =>
                    LoginOf(a) \notin ToSet(agent[a].set) \cap agent[a].usable
           Gives == \A a \in LoginAgents :
                assigned'[a] \notin {assigned[a], LoginOf(a), NoLogin} =>
                    \A l \in ToSet(agent[a].set) \cap agent[a].usable : Users(a, assigned'[a]) <= Users(a, l)
<1>1. \A a \in LoginAgents : \A l \in ToSet(agent[a].set) \cap agent[a].usable :
            \E i \in Candidates(a) : agent[a].set[i] = l
    BY DEF ToSet, Candidates
<1>2. LoginInv /\ [LoginNext]_loginVars => Keeps
    BY <1>1, OnlyAssigning DEF choose
<1>3. LoginInv /\ [LoginNext]_loginVars => Gives
  <2>1. SUFFICES ASSUME LoginInv, [LoginNext]_loginVars, NEW a \in LoginAgents,
                        assigned'[a] \notin {assigned[a], LoginOf(a), NoLogin},
                        NEW l \in ToSet(agent[a].set) \cap agent[a].usable
                 PROVE  Users(a, assigned'[a]) <= Users(a, l)
    OBVIOUS
  <2>2. assigned'[a] = choose(a)
    BY <2>1, OnlyAssigning
  <2>3. Candidates(a) # {} /\ choose(a) = LeastUsed(a)
    BY <2>1, <2>2 DEF choose
  <2>4. PICK j \in Candidates(a) : agent[a].set[j] = l
    BY <1>1
  <2>5. PICK i \in Candidates(a) :
            /\ LeastUsed(a) = agent[a].set[i]
            /\ \A x \in Candidates(a) : Users(a, agent[a].set[i]) <= Users(a, agent[a].set[x])
    BY <2>1, <2>3, LeastUsedIsOne, LoginParts
  <2>6. PICK given : given = agent[a].set[i]
    OBVIOUS
  <2>7. Users(a, given) <= Users(a, l)
    BY <2>4, <2>5, <2>6
  <2>8. assigned'[a] = given
    BY <2>2, <2>3, <2>5, <2>6
  <2> QED
    BY <2>7, <2>8 DEF Users
<1>4. LoginSpec => [][Keeps /\ Gives]_loginVars
  <2>1. LoginInv /\ [LoginNext]_loginVars => [Keeps /\ Gives]_loginVars
    BY <1>2, <1>3
  <2> QED
    BY <2>1, LoginsStayRight, PTL DEF LoginSpec
<1> QED
    BY <1>4, PTL DEF AgentKeepsItsLogin, LeastUsedIsGiven


-----------------------------------------------------------------------------
(* The store.                                                              *)

AgentsCommands == {"create", "replace", "key", "finalize"}
AccountsCommands == {"put_account", "delete_account"}
Migrations == [does : {"migrate"}, at : 1..(VERSION + 1), made : File]
Transactions == [does : AgentsCommands \cup AccountsCommands, of : StoreAgents \cup {Default, "work"},
                 set : ManifestSets \cup {{}}, at : 1..4, made : File]
Backups == [time : BackupTimes, of : File, kind : {"copying", "whole", "partial"}]

IsSound(f) ==
    f \in File /\ HasItsCredentials(f) /\ HasWholeManifests(f) /\ HasNoneOfTheGone(f) /\ IsOfItsVersion(f)

WorkIsTyped ==
    /\ phase \in {"closed", "backing up", "pruning", "initializing", "migrating", "open"}
    /\ phase = "migrating" => work \in Migrations
    /\ phase = "open" => work \in Transactions \cup {NoWork}
    /\ phase \notin {"migrating", "open"} => work = NoWork
    /\ phase = "open" => file.version = VERSION /\ file.schema = SchemaOf(VERSION)

(* What a migration made so far has the agents and their secrets of the    *)
(* file, and is of the version it has come to.                             *)
MigrationIsSound ==
    phase = "migrating" =>
        /\ file.version < VERSION /\ file.version < work.at
        /\ work.made.agents = file.agents /\ work.made.gone = file.gone
        /\ \A a \in StoreAgents : \A n : <<a, n>> \in work.made.secrets <=> <<a, n>> \in file.secrets
        /\ HasItsCredentials(work.made)
        /\ work.at > 2 => work.made.instructions \in {"none", "array"}
        /\ work.at > 6 => Unnamed \notin work.made.accounts

FileWith(agents, gone, accounts, secrets) ==
    [file EXCEPT !.agents = agents, !.gone = gone, !.accounts = accounts, !.secrets = secrets]

(* What a command made so far is what its statements make of the file.     *)
CreateMade(of, at, made) ==
    /\ of \in StoreAgents \ (file.agents \cup file.gone)
    /\ at = 2 => made = FileWith(file.agents \cup {of}, file.gone, file.accounts, file.secrets)

ReplaceMade(of, set, at, made) ==
    LET kept == {of} \X set IN
    /\ of \in StoreAgents \ file.gone /\ set \in ManifestSets
    /\ at = 2 => made = FileWith(file.agents, file.gone, file.accounts, file.secrets \cup kept)
    /\ at = 3 => made = FileWith(file.agents, file.gone, file.accounts,
                                (file.secrets \cup kept) \ (Prefixed(of) \ kept))

KeyMade(of, at, made) ==
    /\ of \in StoreAgents \ file.gone
    /\ at = 2 => made = FileWith(file.agents, file.gone, file.accounts, file.secrets \cup {<<of, HostKey>>})

FinalizeMade(of, at, made) ==
    LET agents == file.agents \ {of}
        gone == file.gone \cup {of} IN
    /\ of \in StoreAgents
    /\ at = 2 => made = FileWith(agents, gone, file.accounts, file.secrets)
    /\ at = 3 => made = FileWith(agents, gone, file.accounts, file.secrets \ Prefixed(of))
    /\ at = 4 => made = FileWith(agents, gone, file.accounts, (file.secrets \ Prefixed(of)) \ {<<of, HostKey>>})

PutMade(of, at, made) ==
    LET secrets == file.secrets \cup {<<"login", of>>} IN
    /\ of \in {Default, "work"}
    /\ at = 2 => made = FileWith(file.agents, file.gone, file.accounts, secrets)
    /\ at = 3 => made = FileWith(file.agents, file.gone, file.accounts \cup {of}, secrets)

DeleteMade(of, at, made) ==
    LET secrets == file.secrets \ {<<"login", of>>} IN
    /\ of \in {Default, "work"}
    /\ at = 2 => made = FileWith(file.agents, file.gone, file.accounts, secrets)
    /\ at = 3 => made = FileWith(file.agents, file.gone, file.accounts \ {of}, secrets)

CommandMade(does, of, set, at, made) ==
    /\ at \in 1..(Statements(does) + 1)
    /\ at = 1 => made = file
    /\ does = "create" => CreateMade(of, at, made)
    /\ does = "replace" => ReplaceMade(of, set, at, made)
    /\ does = "key" => KeyMade(of, at, made)
    /\ does = "finalize" => FinalizeMade(of, at, made)
    /\ does = "put_account" => PutMade(of, at, made)
    /\ does = "delete_account" => DeleteMade(of, at, made)

CommandIsItsStatements ==
    phase = "open" /\ work # NoWork => CommandMade(work.does, work.of, work.set, work.at, work.made)

(* The copy under way is of the file; the pruning leaves it, being the     *)
(* newest, unless the clock was stepped back.                              *)
BackupsAreOfTheFile ==
    /\ backups \in SUBSET Backups /\ IsFiniteSet(backups)
    /\ \A b, c \in backups : b.time = c.time => b = c
    /\ \A b \in backups : b.kind = "copying" =>
          /\ phase = "backing up" /\ b.of = file
          /\ ~stepped => \A c \in backups : c.time <= b.time
          /\ \A c \in backups : c.kind = "copying" => c = b
    /\ phase = "pruning" /\ ~stepped =>
          \E b \in backups : b.kind = "whole" /\ b.of = file /\ \A c \in backups : c.time <= b.time
    /\ phase \in {"initializing", "migrating"} /\ file.version \in 1..(VERSION - 1) /\ ~stepped =>
          \E b \in backups : b.kind = "whole" /\ b.of = file

StoreInv == IsSound(file) /\ WorkIsTyped /\ MigrationIsSound /\ CommandIsItsStatements /\ BackupsAreOfTheFile


LEMMA SecretsArePairs ==
    /\ \A s \in Secret : s = <<s[1], s[2]>> /\ s[1] \in StoreAgents \cup {"login"}
    /\ \A a \in StoreAgents : \A n \in (UNION ManifestSets) \cup {HostKey} : <<a, n>> \in Secret
    /\ \A l \in {Unnamed, Default, "work"} : <<"login", l>> \in Secret
BY DEF Secret

LEMMA SecretsOfIs ==
    ASSUME NEW f, f.secrets \subseteq Secret, NEW a
    PROVE  \A n : n \in SecretsOf(f, a) <=> <<a, n>> \in f.secrets /\ n # HostKey
BY SecretsArePairs DEF SecretsOf

LEMMA SameSecrets ==
    ASSUME NEW f, f.secrets \subseteq Secret, NEW g, g.secrets \subseteq Secret, NEW a,
           \A n : n # HostKey => (<<a, n>> \in f.secrets <=> <<a, n>> \in g.secrets)
    PROVE  SecretsOf(f, a) = SecretsOf(g, a)
<1>1. \A n : n \in SecretsOf(f, a) <=> n \in SecretsOf(g, a)
    BY SecretsOfIs
<1> QED
    BY <1>1

LEMMA FileFields ==
    /\ \A f \in File :
         /\ f.version \in 0..(VERSION + 1) /\ f.schema \in SUBSET (SchemaOf(VERSION) \cup {"unexpected"})
         /\ f.instructions \in {"none", "null", "object", "array", "other"} /\ f.model \in {"none", "recorded"}
         /\ f.agents \in SUBSET StoreAgents /\ f.gone \in SUBSET StoreAgents
         /\ f.accounts \in SUBSET {Unnamed, Default, "work"} /\ f.secrets \in SUBSET Secret
BY DEF File

(* A command keeps the agents' secrets whole when it leaves those of every *)
(* agent as they were, or replaces them all, or removes them all.          *)
LEMMA SoundAfterCommand ==
    ASSUME IsSound(file), NEW m \in File, m.version = file.version, m.instructions = file.instructions,
           HasItsCredentials(m), HasNoneOfTheGone(m), Unnamed \in m.accounts => Unnamed \in file.accounts,
           NEW of, NEW set \in ManifestSets \cup {{}},
           \A a \in StoreAgents \ {of} : \A n : n # HostKey =>
                (<<a, n>> \in m.secrets <=> <<a, n>> \in file.secrets),
           \/ \A n : n # HostKey => (<<of, n>> \in m.secrets <=> <<of, n>> \in file.secrets)
           \/ \A n : n # HostKey => (<<of, n>> \in m.secrets <=> n \in set)
    PROVE  IsSound(m)
<1>1. file \in File /\ m.secrets \subseteq Secret /\ file.secrets \subseteq Secret
    BY FileFields DEF IsSound
<1>3. HasWholeManifests(m)
  <2>1. SUFFICES ASSUME of \in StoreAgents PROVE SecretsOf(m, of) \in ManifestSets \cup {{}}
      BY <1>1, SameSecrets DEF HasWholeManifests, IsSound
  <2>2. CASE \A n : n # HostKey => (<<of, n>> \in m.secrets <=> <<of, n>> \in file.secrets)
      BY <1>1, <2>1, <2>2, SameSecrets DEF HasWholeManifests, IsSound
  <2>3. CASE \A n : n # HostKey => (<<of, n>> \in m.secrets <=> n \in set)
    <3>1. HostKey \notin set
        BY StoreConstants
    <3> QED
        BY <1>1, <2>3, <3>1, SecretsOfIs
  <2> QED
      BY <2>2, <2>3
<1> QED
    BY <1>3 DEF IsSound, IsOfItsVersion


LEMMA StatementsOf ==
    /\ Statements("create") = 1 /\ Statements("key") = 1 /\ Statements("finalize") = 3 /\ Statements("replace") = 2
    /\ Statements("put_account") = 2 /\ Statements("delete_account") = 2
BY DEF Statements

LEMMA LoginsAreNoAgents == \A a \in StoreAgents : \A n, l : <<a, n>> # <<"login", l>>
BY StoreConstants

LEMMA PairsDiffer == \A a, n, b, l : <<a, n>> = <<b, l>> <=> a = b /\ n = l
<1>1. SUFFICES ASSUME NEW a, NEW n, NEW b, NEW l PROVE <<a, n>> = <<b, l>> <=> a = b /\ n = l
    OBVIOUS
<1> QED
    OBVIOUS

LEMMA FileWithIs ==
    ASSUME file \in File, NEW agents \in SUBSET StoreAgents, NEW gone \in SUBSET StoreAgents,
           NEW accounts \in SUBSET {Unnamed, Default, "work"}, NEW secrets \in SUBSET Secret
    PROVE  LET m == FileWith(agents, gone, accounts, secrets) IN
           /\ m \in File /\ m.agents = agents /\ m.gone = gone /\ m.accounts = accounts /\ m.secrets = secrets
           /\ m.version = file.version /\ m.schema = file.schema /\ m.instructions = file.instructions
BY DEF FileWith, File

LEMMA CommittedIsSound ==
    ASSUME IsSound(file), NEW does \in AgentsCommands \cup AccountsCommands, NEW of, NEW set, NEW m,
           CommandMade(does, of, set, Statements(does) + 1, m)
    PROVE  /\ IsSound(m) /\ m.version = file.version /\ m.schema = file.schema
           /\ \A a \in m.agents : <<a, HostKey>> \in file.secrets => <<a, HostKey>> \in m.secrets
<1>1. /\ file \in File /\ file.agents \in SUBSET StoreAgents /\ file.gone \in SUBSET StoreAgents
      /\ file.secrets \in SUBSET Secret /\ file.accounts \in SUBSET {Unnamed, Default, "work"}
      /\ HasItsCredentials(file) /\ HasNoneOfTheGone(file)
    BY FileFields DEF IsSound
<1> DEFINE AsOpened == m \in File /\ m.version = file.version /\ m.schema = file.schema /\ m.instructions = file.instructions
           Has(agents, gone, accounts, secrets) ==
               m.agents = agents /\ m.gone = gone /\ m.accounts = accounts /\ m.secrets = secrets
<1>3. CASE does = "create"
  <2>2. AsOpened /\ Has(file.agents \cup {of}, file.gone, file.accounts, file.secrets)
      BY <1>1, FileWithIs, <1>3, StatementsOf DEF CommandMade, CreateMade
  <2> QED
      BY <2>2, SoundAfterCommand, <1>1, <1>3, StatementsOf DEF HasItsCredentials, HasNoneOfTheGone,
         CommandMade, CreateMade
<1>4. CASE does = "key"
  <2>3. AsOpened /\ Has(file.agents, file.gone, file.accounts, file.secrets \cup {<<of, HostKey>>})
      BY <1>1, FileWithIs, SecretsArePairs, <1>4, StatementsOf DEF CommandMade, KeyMade
  <2>6. HasNoneOfTheGone(m)
    <3> QED
        BY <1>1, <2>3, <1>4, StatementsOf DEF HasNoneOfTheGone, CommandMade, KeyMade
  <2> QED
      BY <2>3, <2>6, SoundAfterCommand, <1>1, StoreConstants, <1>4, StatementsOf DEF
         HasItsCredentials, CommandMade, KeyMade
<1>5. CASE does = "replace"
  <2> DEFINE Kept == {of} \X set
             Stale == Prefixed(of)
  <2>1. /\ of \in StoreAgents \ file.gone /\ set \in ManifestSets
        /\ m = FileWith(file.agents, file.gone, file.accounts, (file.secrets \cup Kept) \ (Stale \ Kept))
      BY <1>5, StatementsOf DEF CommandMade, ReplaceMade
  <2>2. \A s \in Kept : s \in Secret /\ s = <<of, s[2]>> /\ s[2] \in set
      BY <2>1, SecretsArePairs
  <2>3. \A a, n : <<a, n>> \in Kept <=> a = of /\ n \in set
      BY PairsDiffer
  <2>4. \A s \in Secret : s \in Stale <=> s[1] = of /\ s[2] # HostKey
      BY DEF Prefixed
  <2> HIDE DEF Kept, Stale
  <2>7. AsOpened /\ Has(file.agents, file.gone, file.accounts, (file.secrets \cup Kept) \ (Stale \ Kept))
      BY <1>1, <2>1, FileWithIs, <2>2
  <2>8. \A a, n : <<a, n>> \in m.secrets <=>
            <<a, n>> \in Kept \/ (<<a, n>> \in file.secrets /\ ~(a = of /\ n # HostKey))
      BY <1>1, <2>7, <2>2, <2>4, PairsDiffer
  <2>10. HasItsCredentials(m)
      BY <1>1, <2>3, <2>7, <2>8, <2>1, StoreConstants DEF HasItsCredentials
  <2>11. HasNoneOfTheGone(m)
      BY <1>1, <2>7, <2>2, <2>1 DEF HasNoneOfTheGone
  <2>12. \A a \in StoreAgents \ {of} : \A n : n # HostKey => (<<a, n>> \in m.secrets <=> <<a, n>> \in file.secrets)
      BY <2>3, <2>8
  <2> QED
      BY <2>1, <2>7, <2>10, <2>11, <2>12, SoundAfterCommand, <2>8, <2>3
<1>6. CASE does = "finalize"
  <2> DEFINE Stale == Prefixed(of)
             Key == {<<of, HostKey>>}
  <2>1. /\ of \in StoreAgents
        /\ m = FileWith(file.agents \ {of}, file.gone \cup {of}, file.accounts, (file.secrets \ Stale) \ Key)
      BY <1>6, StatementsOf DEF CommandMade, FinalizeMade
  <2>2. \A s \in Secret : s \in Stale \/ s \in Key <=> s[1] = of
      BY SecretsArePairs DEF Prefixed
  <2> HIDE DEF Stale, Key
  <2>3. AsOpened /\ Has(file.agents \ {of}, file.gone \cup {of}, file.accounts, (file.secrets \ Stale) \ Key)
      BY <1>1, <2>1, FileWithIs
  <2>5. HasNoneOfTheGone(m)
      BY <1>1, <2>3, <2>2 DEF HasNoneOfTheGone
  <2>6. \A a, n : <<a, n>> \in m.secrets <=> <<a, n>> \in file.secrets /\ a # of
      BY <1>1, <2>3, <2>2
  <2> QED
      BY <2>3, <2>5, <2>6, SoundAfterCommand, <1>1, <2>1, StoreConstants DEF HasItsCredentials
<1>7. CASE does \in AccountsCommands
  <2> DEFINE Login == {<<"login", of>>}
  <2>1. /\ of \in {Default, "work"}
        /\ \/ m = FileWith(file.agents, file.gone, file.accounts \cup {of}, file.secrets \cup Login)
           \/ m = FileWith(file.agents, file.gone, file.accounts \ {of}, file.secrets \ Login)
      BY <1>7, StatementsOf DEF AccountsCommands, CommandMade, PutMade, DeleteMade
  <2>2. \A a, n : <<a, n>> \in Login <=> a = "login" /\ n = of
      BY PairsDiffer
  <2>3. Login \subseteq Secret /\ \A s \in Login : s[1] = "login"
      BY <2>1, SecretsArePairs
  <2> HIDE DEF Login
  <2>4. AsOpened /\ \/ Has(file.agents, file.gone, file.accounts \cup {of}, file.secrets \cup Login)
                    \/ Has(file.agents, file.gone, file.accounts \ {of}, file.secrets \ Login)
      BY <1>1, <2>1, <2>3, FileWithIs
  <2>6. HasNoneOfTheGone(m)
      BY <1>1, <2>3, <2>4, StoreConstants DEF HasNoneOfTheGone
  <2>7. \A a \in StoreAgents : \A n : <<a, n>> \in m.secrets <=> <<a, n>> \in file.secrets
      BY <2>2, <2>4, StoreConstants
  <2> QED
      BY <1>1, <2>4, <2>7, FileFields, SameSecrets, <2>6, <2>1, <2>2 DEF IsSound, HasWholeManifests,
         IsOfItsVersion, Unnamed, Default, HasItsCredentials
<1> QED
    BY <1>3, <1>4, <1>5, <1>6, <1>7 DEF AgentsCommands


LEMMA SchemasGrow ==
    /\ VERSION = 7
    /\ \A v \in 0..VERSION : SchemaOf(v) \subseteq SchemaOf(VERSION)
    /\ \A v \in 1..VERSION : Added[v] \subseteq SchemaOf(VERSION)
BY DEF SchemaOf, VERSION

(* The renaming of the logins moves accounts and credentials alike.        *)
LEMMA RenamedKeepsCredentials ==
    ASSUME NEW made \in File, HasItsCredentials(made), NEW next \in name_harness_logins(made)
    PROVE  /\ next \in File /\ next.version = made.version /\ next.agents = made.agents /\ next.gone = made.gone
           /\ next.instructions = made.instructions /\ Unnamed \notin next.accounts /\ HasItsCredentials(next)
           /\ \A a \in StoreAgents : \A n : <<a, n>> \in next.secrets <=> <<a, n>> \in made.secrets
<1> DEFINE Moved(s) == IF s[1] = "login" THEN <<"login", Named(s[2])>> ELSE s
           accounts == {Named(a) : a \in made.accounts}
           secrets == {Moved(s) : s \in made.secrets}
           Logins == {Unnamed, Default, "work"}
<1>1. next = [made EXCEPT !.accounts = accounts, !.secrets = secrets]
    BY DEF name_harness_logins
<1>5. secrets \subseteq Secret
    BY SecretsArePairs, StoreConstants, FileFields DEF Secret, Named, Unnamed, Default
<1>6. accounts \subseteq Logins /\ Unnamed \notin accounts
    BY FileFields DEF Named, Unnamed, Default
<1>7. \A a \in StoreAgents : \A n : <<a, n>> \in secrets <=> <<a, n>> \in made.secrets
    BY LoginsAreNoAgents
<1>8. \A l \in Logins : <<"login", l>> \in secrets <=> \E k \in Logins : <<"login", k>> \in made.secrets /\ Named(k) = l
  <2>1. SUFFICES ASSUME NEW l \in Logins
                 PROVE  <<"login", l>> \in secrets <=> \E k \in Logins : <<"login", k>> \in made.secrets /\ Named(k) = l
      OBVIOUS
  <2>2. ASSUME <<"login", l>> \in secrets PROVE \E k \in Logins : <<"login", k>> \in made.secrets /\ Named(k) = l
    <3>1. PICK s \in made.secrets : <<"login", l>> = Moved(s)
        BY <2>2
    <3>2. CASE s[1] \in StoreAgents /\ Moved(s) = s
        BY <3>1, <3>2, StoreConstants
    <3>3. CASE s[1] = "login" /\ s[2] \in Logins /\ Moved(s) = <<"login", Named(s[2])>>
        BY <3>1, <3>3, SecretsArePairs, FileFields
    <3> QED
        BY <3>2, <3>3, StoreConstants, FileFields DEF Secret
  <2>3. ASSUME NEW k \in Logins, <<"login", k>> \in made.secrets, Named(k) = l PROVE <<"login", l>> \in secrets
      BY <2>3
  <2> QED
      BY <2>2, <2>3
<1>9. \A l \in Logins : l \in accounts <=> \E k \in Logins : k \in made.accounts /\ Named(k) = l
    BY FileFields
<1> HIDE DEF accounts, secrets
<1>10. /\ next \in File /\ next.version = made.version /\ next.agents = made.agents /\ next.gone = made.gone
       /\ next.instructions = made.instructions /\ next.accounts = accounts /\ next.secrets = secrets
    BY <1>1, <1>5, <1>6 DEF File
<1> QED
    BY <1>6, <1>7, <1>10, <1>8, <1>9 DEF HasItsCredentials

LEMMA MigratedIsSound ==
    ASSUME NEW made \in File, HasItsCredentials(made), NEW version \in 1..VERSION, NEW next \in Migrated(made, version)
    PROVE  /\ next \in File /\ next.version = made.version /\ next.agents = made.agents /\ next.gone = made.gone
           /\ HasItsCredentials(next)
           /\ \A a \in StoreAgents : \A n : <<a, n>> \in next.secrets <=> <<a, n>> \in made.secrets
           /\ version = 2 \/ made.instructions \in {"none", "array"} => next.instructions \in {"none", "array"}
           /\ version = 6 \/ Unnamed \notin made.accounts => Unnamed \notin next.accounts
<1> DEFINE Alike(m) == /\ m \in File /\ m.version = made.version /\ m.agents = made.agents /\ m.gone = made.gone
                       /\ m.secrets = made.secrets /\ m.accounts = made.accounts
           Shapes == SUBSET (SchemaOf(VERSION) \cup {"unexpected"})
<1>1. \A m \in File : \A s \in Shapes : LET c == [m EXCEPT !.schema = s] IN
          /\ c \in File /\ c.version = m.version /\ c.agents = m.agents /\ c.gone = m.gone
          /\ c.secrets = m.secrets /\ c.accounts = m.accounts /\ c.instructions = m.instructions
    BY DEF File
<1>3. \A v \in 1..VERSION : \A m \in Adds(made, v) : Alike(m) /\ m.instructions = made.instructions
  <2>1. SUFFICES ASSUME NEW v \in 1..VERSION, NEW m \in Adds(made, v) PROVE Alike(m) /\ m.instructions = made.instructions
      OBVIOUS
  <2>3. PICK s \in Shapes : s = made.schema \cup Added[v]
      BY SchemasGrow, FileFields
  <2>5. CASE m = made
      BY <2>5
  <2>6. CASE m = [made EXCEPT !.schema = s]
      BY <1>1, <2>6
  <2> QED
      BY <2>5, <2>6, <2>3, <2>1 DEF Adds
<1>4. ASSUME version = 6 PROVE next \in name_harness_logins(made)
    BY <1>4 DEF Migrated
<1>5. ASSUME version # 6 PROVE Alike(next)
                               /\ (version = 2 \/ made.instructions \in {"none", "array"} => next.instructions \in {"none", "array"})
  <2>1. CASE version = 1
    <3>1. next = [made EXCEPT !.schema = SchemaOf(1)]
        BY <2>1 DEF Migrated
    <3> QED
        BY <1>1, <2>1, <3>1, SchemasGrow, FileFields
  <2>2. CASE version = 2
    <3>1. next \in add_session_management(made)
        BY <2>2 DEF Migrated
    <3>2. PICK m \in WithInstructionList(made) : next = [m EXCEPT !.schema = SchemaOf(2)]
        BY <3>1 DEF add_session_management
    <3>3. Alike(m) /\ m.instructions \in {"none", "array"}
        BY DEF WithInstructionList, File
    <3>4. PICK s \in Shapes : s = SchemaOf(2)
        BY SchemasGrow, FileFields
    <3> HIDE DEF Shapes
    <3> QED
        BY <1>1, <3>3, <3>2, <3>4
  <2>3. CASE version = 3
      BY <2>3, <1>3 DEF Migrated, add_session_selections, File
  <2>4. CASE version \notin {1, 2, 3}
      BY <1>5, <2>4, <1>3 DEF Migrated
  <2> QED
      BY <2>1, <2>2, <2>3, <2>4
<1> QED
  <2>1. CASE version = 6
      BY <1>4, <2>1, RenamedKeepsCredentials
  <2>2. CASE version # 6
      BY <1>5, <2>2 DEF HasItsCredentials
  <2> QED
      BY <2>1, <2>2


LEMMA NoWorkIsNone == NoWork.does = "none" /\ \A t \in Transactions : t # NoWork
BY DEF Transactions, NoWork

LEMMA StoreParts ==
    ASSUME StoreInv
    PROVE  /\ IsSound(file) /\ file \in File /\ WorkIsTyped /\ MigrationIsSound /\ CommandIsItsStatements /\ BackupsAreOfTheFile
           /\ backups \in SUBSET Backups /\ IsFiniteSet(backups) /\ \A b, c \in backups : b.time = c.time => b = c
           /\ \A b \in Backups : b.time \in Nat
           /\ phase = "open" /\ work # NoWork => work \in Transactions
BY StoreConstants DEF StoreInv, IsSound, BackupsAreOfTheFile, Backups, WorkIsTyped

LEMMA StoreStarts == StoreInit => StoreInv
BY StoreConstants, FS_EmptySet DEF StoreInit, IsSound, BackupsAreOfTheFile, WorkIsTyped,
   MigrationIsSound, CommandIsItsStatements, StoreInv

(* The steps before the transaction of the migrations.                     *)
LEMMA OpeningKeeps ==
    ASSUME StoreInv, Connects \/ BeginsBackup \/ EndsBackup \/ PrunesBackups \/ Initializes
    PROVE  StoreInv'
<1>2. IsSound(file)' /\ UNCHANGED file
    BY StoreParts DEF Connects, BeginsBackup, EndsBackup, PrunesBackups, Initializes, IsSound, HasItsCredentials,
       HasWholeManifests, SecretsOf, HasNoneOfTheGone, IsOfItsVersion
<1>3. CASE Connects
    BY <1>3 DEF Connects, WorkIsTyped, MigrationIsSound, CommandIsItsStatements,
       BackupsAreOfTheFile, PendingVersion, StoreInv
<1>4. CASE BeginsBackup
  <2>1. WorkIsTyped' /\ MigrationIsSound' /\ CommandIsItsStatements'
      BY <1>4, StoreParts DEF BeginsBackup, WorkIsTyped, MigrationIsSound, CommandIsItsStatements
  <2>2. PICK time \in BackupTimes \ {b.time : b \in backups} :
            /\ backups' = backups \cup {[time |-> time, of |-> file, kind |-> "copying"]}
            /\ stepped' = (stepped \/ \E b \in backups : b.time > time)
      BY <1>4 DEF BeginsBackup
  <2>3. PICK new \in Backups : new = [time |-> time, of |-> file, kind |-> "copying"]
      BY StoreParts DEF Backups
  <2>4. new.time = time /\ new.of = file /\ new.kind = "copying" /\ new \notin backups
      BY <2>2, <2>3
  <2>5. backups' = backups \cup {new} /\ backups' \in SUBSET Backups /\ IsFiniteSet(backups')
      BY <2>2, <2>3, StoreParts, FS_AddElement
  <2>7. ~stepped' => \A c \in backups' : c.time <= new.time
    <3>2. ~stepped' => \A c \in backups : ~(c.time > time)
        BY <2>2
    <3> QED
        BY <2>4, <2>5, <3>2, StoreConstants, StoreParts
  <2> QED
      BY <1>2, <2>1, <2>4, <2>5, <2>7, <1>4, <2>2, StoreParts DEF StoreInv, BackupsAreOfTheFile,
         BeginsBackup
<1>5. CASE EndsBackup
  <2>2. PICK b \in backups : b.kind = "copying" /\ backups' = (backups \ {b}) \cup {[b EXCEPT !.kind = "whole"]}
      BY <1>5 DEF EndsBackup
  <2>3. PICK new \in Backups : new = [b EXCEPT !.kind = "whole"]
      BY StoreParts DEF Backups
  <2>4. new.time = b.time /\ new.of = b.of /\ new.kind = "whole"
      BY <2>3, StoreParts DEF Backups
  <2>5. backups' = (backups \ {b}) \cup {new} /\ backups' \in SUBSET Backups /\ IsFiniteSet(backups')
      BY <2>2, <2>3, StoreParts, FS_AddElement, FS_RemoveElement
  <2>6. \A c, d \in backups' : c.time = d.time => c = d
      BY <2>2, <2>4, <2>5, StoreParts
  <2>7. b.of = file /\ (~stepped => \A c \in backups : c.time <= b.time) /\ \A c \in backups : c.kind = "copying" => c = b
      BY <2>2 DEF StoreInv, BackupsAreOfTheFile
  <2>8. phase' = "pruning" /\ UNCHANGED stepped
      BY <1>5 DEF EndsBackup
  <2>11. BackupsAreOfTheFile'
      BY <1>2, <2>4, <2>5, <2>6, <2>7, <2>8, StoreParts DEF BackupsAreOfTheFile
  <2> QED
      BY <1>2, <2>11, <1>5, StoreParts DEF StoreInv, EndsBackup, WorkIsTyped, MigrationIsSound,
         CommandIsItsStatements
<1>6. CASE PrunesBackups
  <2>3. CASE Cardinality(backups) > 3
    <3>3. ASSUME ~stepped PROVE \E b \in backups' : b.kind = "whole" /\ b.of = file /\ \A c \in backups' : c.time <= b.time
      <4>1. PICK b \in backups : b.kind = "whole" /\ b.of = file /\ \A c \in backups : c.time <= b.time
          BY <3>3, <1>6, <2>3 DEF StoreInv, BackupsAreOfTheFile, PrunesBackups
      <4>2. Oldest # b
        <5>1. PICK o \in backups : \A c \in backups : o.time <= c.time
          <6>1. {c.time : c \in backups} \in SUBSET Nat /\ {c.time : c \in backups} # {}
              BY <4>1, StoreParts
          <6>2. PICK i \in {c.time : c \in backups} : \A j \in {c.time : c \in backups} : i <= j
              BY <6>1, LeastNumber
          <6> QED
              BY <6>2
        <5>3. SUFFICES ASSUME Oldest = b PROVE FALSE
            OBVIOUS
        <5>5. backups = {b}
            BY <4>1, StoreParts, <5>3, <5>1 DEF Oldest
        <5> QED
            BY <2>3, <5>5, FS_Singleton
      <4> QED
          BY <4>1, <4>2, <1>6, <2>3 DEF PrunesBackups
    <3> QED
        BY <1>2, <3>3, StoreParts, FS_RemoveElement, <1>6, <2>3 DEF StoreInv, BackupsAreOfTheFile,
           PrunesBackups, WorkIsTyped, MigrationIsSound, CommandIsItsStatements
  <2>4. CASE ~(Cardinality(backups) > 3)
      BY <1>6, <2>4, StoreParts DEF PrunesBackups, BackupsAreOfTheFile, StoreInv, WorkIsTyped,
         MigrationIsSound, CommandIsItsStatements
  <2> QED
      BY <2>3, <2>4
<1>7. CASE Initializes
  <2>2. BackupsAreOfTheFile'
      BY StoreParts, <1>7 DEF BackupsAreOfTheFile, Initializes
  <2>3. CASE phase' # "migrating"
      BY <1>7, <2>3, <2>2 DEF Initializes, StoreRefused, WorkIsTyped, MigrationIsSound,
         CommandIsItsStatements, StoreInv
  <2>4. CASE phase' = "migrating"
    <3>1. work' = [does |-> "migrate", at |-> file.version + 1, made |-> file]
        BY <1>7, <2>4 DEF Initializes
    <3>3. file.version < VERSION
        BY <1>7, <2>4, StoreParts, FileFields DEF Initializes, StoreRefused, VERSION
    <3>4. work' \in Migrations
        BY <3>1, <3>3, StoreParts, FileFields DEF Migrations, VERSION
    <3>5. WorkIsTyped' /\ CommandIsItsStatements'
        BY <2>4, <3>4 DEF WorkIsTyped, CommandIsItsStatements
    <3> QED
        BY <1>2, <2>2, <3>5, <3>3, StoreParts, <3>1, FileFields, <1>7 DEF StoreInv,
           MigrationIsSound, IsOfItsVersion, HasItsCredentials, IsSound, VERSION, Initializes
  <2> QED
      BY <2>3, <2>4
<1> QED
    BY <1>3, <1>4, <1>5, <1>6, <1>7


(* The file and its backups after a step that leaves them, but may close.  *)
LEMMA FileRests ==
    ASSUME StoreInv, UNCHANGED <<file, backups, stepped>>, phase' \in {phase, "closed", "open"},
           phase \notin {"backing up", "pruning"}
    PROVE  IsSound(file)' /\ BackupsAreOfTheFile'
BY StoreParts DEF BackupsAreOfTheFile

LEMMA MigratingKeeps ==
    ASSUME StoreInv, AppliesMigration
    PROVE  StoreInv'
<1>1. phase = "migrating" /\ work \in Migrations /\ UNCHANGED <<file, backups, stepped>> /\ phase' \in {phase, "closed"}
    BY StoreParts DEF AppliesMigration, WorkIsTyped
<1>2. work.at \in 1..(VERSION + 1) /\ work.made \in File /\ work.at <= VERSION /\ work.does = "migrate" /\ VERSION = 7
    BY <1>1 DEF AppliesMigration, Migrations, VERSION
<1>4. CASE Migrated(work.made, work.at) = {}
    BY <1>4, <1>1, FileRests DEF AppliesMigration, WorkIsTyped, MigrationIsSound,
       CommandIsItsStatements, StoreInv
<1>5. CASE Migrated(work.made, work.at) # {}
  <2>1. PICK next \in Migrated(work.made, work.at) : work' = [work EXCEPT !.at = @ + 1, !.made = next]
      BY <1>5 DEF AppliesMigration
  <2>2. UNCHANGED phase
      BY <1>5 DEF AppliesMigration
  <2>3. PICK was \in File, at \in 1..VERSION : was = work.made /\ at = work.at
      BY <1>2
  <2>5. /\ next \in File /\ next.version = was.version /\ next.agents = was.agents /\ next.gone = was.gone
        /\ HasItsCredentials(next)
        /\ \A a \in StoreAgents : \A n : <<a, n>> \in next.secrets <=> <<a, n>> \in was.secrets
        /\ at = 2 \/ was.instructions \in {"none", "array"} => next.instructions \in {"none", "array"}
        /\ at = 6 \/ Unnamed \notin was.accounts => Unnamed \notin next.accounts
      BY MigratedIsSound, <1>1, <2>1, <2>3 DEF StoreInv, MigrationIsSound
  <2>6. work' = [does |-> "migrate", at |-> at + 1, made |-> next]
      BY <1>1, <2>1, <2>3 DEF Migrations
  <2>15. MigrationIsSound'
      BY <1>1, <2>5, <1>2, StoreParts, FileFields, <2>3, <2>6 DEF MigrationIsSound,
         HasItsCredentials, StoreInv
  <2> QED
      BY <2>15, <1>1, <2>2, <2>5, <2>6, <1>2, FileRests DEF StoreInv, WorkIsTyped,
         CommandIsItsStatements, Migrations
<1> QED
    BY <1>4, <1>5

(* What is committed of a migration.                                       *)
LEMMA CommittedMigrationIsSound ==
    ASSUME StoreInv, phase = "migrating", work.at > VERSION, work.made.schema = SchemaOf(VERSION),
           NEW f, f = [work.made EXCEPT !.version = VERSION]
    PROVE  /\ IsSound(f) /\ f.version = VERSION /\ f.schema = SchemaOf(VERSION)
           /\ \A a \in f.agents : <<a, HostKey>> \in file.secrets => <<a, HostKey>> \in f.secrets
<1>1. PICK m \in File : m = work.made
    BY StoreParts DEF WorkIsTyped, Migrations
<1>3. /\ m.agents = file.agents /\ m.gone = file.gone /\ HasItsCredentials(m)
      /\ \A a \in StoreAgents : \A n : <<a, n>> \in m.secrets <=> <<a, n>> \in file.secrets
      /\ m.instructions \in {"none", "array"} /\ Unnamed \notin m.accounts
    BY <1>1, StoreParts DEF StoreInv, MigrationIsSound, VERSION, WorkIsTyped, Migrations
<1>5. /\ f \in File /\ f.version = VERSION /\ f.schema = m.schema /\ f.agents = m.agents /\ f.gone = m.gone
      /\ f.secrets = m.secrets /\ f.accounts = m.accounts /\ f.instructions = m.instructions
    BY <1>1, StoreParts DEF File, VERSION, WorkIsTyped, Migrations
<1>7. f.secrets \subseteq Secret /\ file.secrets \subseteq Secret /\ file.gone \subseteq StoreAgents
    BY <1>5, StoreParts, FileFields
<1>8. \A a \in StoreAgents : SecretsOf(f, a) = SecretsOf(file, a)
    BY ZenonT(60), <1>3, <1>5, <1>7, SameSecrets
<1>11. HasNoneOfTheGone(f)
    BY <1>3, <1>5, <1>7, SecretsArePairs, StoreParts DEF HasNoneOfTheGone, IsSound
<1> QED
    BY <1>1, <1>3, <1>5, <1>11, FileFields, <1>8, StoreParts DEF IsSound, HasWholeManifests,
       HasItsCredentials, IsOfItsVersion

(* A new file, once the store is open: nothing else depends on it.         *)
LEMMA NewFileIsSound ==
    ASSUME StoreInv, IsSound(file'), file'.version = VERSION, file'.schema = SchemaOf(VERSION),
           phase' = "open", work' = NoWork, phase \in {"migrating", "open"}, UNCHANGED <<backups, stepped>>
    PROVE  StoreInv'
BY DEF BackupsAreOfTheFile, WorkIsTyped, MigrationIsSound, CommandIsItsStatements, StoreInv

LEMMA VerifyingKeeps ==
    ASSUME StoreInv, VerifiesMigration
    PROVE  StoreInv'
BY CommittedMigrationIsSound, NewFileIsSound, FileRests DEF VerifiesMigration, Commits, WorkIsTyped,
   MigrationIsSound, CommandIsItsStatements, StoreInv


LEMMA FileWithUpdates ==
    ASSUME file \in File
    PROVE  /\ file = FileWith(file.agents, file.gone, file.accounts, file.secrets)
           /\ \A A, G, C, S, X, Y :
                LET m == FileWith(A, G, C, S) IN
                /\ m.agents = A /\ m.gone = G /\ m.accounts = C /\ m.secrets = S
                /\ [m EXCEPT !.agents = X] = FileWith(X, G, C, S)
                /\ [m EXCEPT !.agents = X, !.gone = Y] = FileWith(X, Y, C, S)
                /\ [m EXCEPT !.accounts = X] = FileWith(A, G, X, S)
                /\ [m EXCEPT !.secrets = X] = FileWith(A, G, C, X)
<1>2. ASSUME NEW A, NEW G, NEW C, NEW S, NEW X, NEW Y
      PROVE  LET m == FileWith(A, G, C, S) IN
             /\ m.agents = A /\ m.gone = G /\ m.accounts = C /\ m.secrets = S
             /\ [m EXCEPT !.agents = X] = FileWith(X, G, C, S)
             /\ [m EXCEPT !.agents = X, !.gone = Y] = FileWith(X, Y, C, S)
             /\ [m EXCEPT !.accounts = X] = FileWith(A, G, X, S)
             /\ [m EXCEPT !.secrets = X] = FileWith(A, G, C, X)
    BY DEF FileWith, File
<1> QED
    BY <1>2 DEF FileWith, File

LEMMA CommandGoesOn ==
    ASSUME StoreInv, phase = "open", UNCHANGED <<file, phase, backups, stepped>>, work' \in Transactions,
           CommandMade(work'.does, work'.of, work'.set, work'.at, work'.made)
    PROVE  StoreInv'
<1>1. CommandMade(work.does, work.of, work.set, work.at, work.made)'
    BY DEF CommandMade, CreateMade, ReplaceMade, KeyMade, FinalizeMade, PutMade, DeleteMade, FileWith
<1> QED
    BY FileRests, <1>1, StoreParts DEF StoreInv, WorkIsTyped, MigrationIsSound,
       CommandIsItsStatements

LEMMA CommandStarts ==
    ASSUME StoreInv, NEW does \in AgentsCommands \cup AccountsCommands, NEW of \in StoreAgents \cup {Default, "work"},
           NEW set \in ManifestSets \cup {{}}, Runs(does, of, set), CommandMade(does, of, set, 1, file)
    PROVE  StoreInv'
BY StoreParts, CommandGoesOn DEF Runs, Transactions

LEMMA StatementsAreCounted ==
    \A does \in AgentsCommands \cup AccountsCommands : Statements(does) \in 1..3
BY StatementsOf DEF AgentsCommands, AccountsCommands

LEMMA StatementKeeps ==
    ASSUME StoreInv, NEW does, NEW at \in 1..3, NEW made \in File, Statement(does, at, made),
           CommandMade(does, work.of, work.set, at + 1, made)
    PROVE  StoreInv'
<1>2. PICK w \in Transactions : w = work
    BY StoreParts DEF Statement
<1>5. at + 1 \in 1..4
    OBVIOUS
<1> QED
    BY <1>2, CommandGoesOn, <1>5 DEF Transactions, Statement

LEMMA CommandsStart ==
    ASSUME StoreInv, put \/ replace_agent_secrets \/ store_host_key \/ finalizes
                     \/ put_provider_account \/ delete_provider_account
    PROVE  StoreInv'
<1>2. \A does \in AgentsCommands \cup AccountsCommands : 1 \in 1..(Statements(does) + 1)
    BY StatementsAreCounted
<1>3. CASE put
    BY <1>3, <1>2, CommandStarts DEF put, AgentsCommands, CommandMade, CreateMade
<1>4. CASE replace_agent_secrets
    BY <1>4, <1>2, CommandStarts, StoreParts, FileFields DEF replace_agent_secrets, AgentsCommands,
       CommandMade, ReplaceMade, IsSound, HasNoneOfTheGone
<1>5. CASE store_host_key
    BY <1>5, <1>2, CommandStarts, StoreParts, FileFields DEF store_host_key, AgentsCommands,
       CommandMade, KeyMade, IsSound, HasNoneOfTheGone
<1>6. CASE finalizes
    BY <1>6, <1>2, CommandStarts, StoreParts, FileFields DEF finalizes, AgentsCommands, CommandMade,
       FinalizeMade, IsSound, HasNoneOfTheGone
<1>7. CASE put_provider_account
    BY <1>7, <1>2, CommandStarts DEF put_provider_account, AccountsCommands, PutMade, CommandMade
<1>8. CASE delete_provider_account
    BY <1>8, <1>2, CommandStarts DEF delete_provider_account, AccountsCommands, DeleteMade,
       CommandMade
<1> QED
    BY <1>3, <1>4, <1>5, <1>6, <1>7, <1>8


LEMMA CommandUnderWay ==
    ASSUME StoreInv, phase = "open", work # NoWork
    PROVE  /\ work \in Transactions /\ CommandMade(work.does, work.of, work.set, work.at, work.made)
           /\ file.agents \in SUBSET StoreAgents /\ file.gone \in SUBSET StoreAgents
           /\ file.accounts \in SUBSET {Unnamed, Default, "work"} /\ file.secrets \in SUBSET Secret
BY StoreParts, FileFields DEF CommandIsItsStatements

LEMMA InsertsAgentKeeps ==
    ASSUME StoreInv, InsertsAgent
    PROVE  StoreInv'
<1>1. phase = "open" /\ work # NoWork /\ work.does = "create" /\ work.at = 1
      /\ Statement("create", 1, [work.made EXCEPT !.agents = @ \cup {work.of}])
    BY DEF InsertsAgent, Statement
<1>2. PICK of, set, m, next : of = work.of /\ set = work.set /\ m = work.made /\ next = [work.made EXCEPT !.agents = @ \cup {work.of}]
    OBVIOUS
<1>4. CreateMade(of, 1, m) /\ m = file
    BY <1>1, <1>2, CommandUnderWay DEF CommandMade
<1>5. m = FileWith(file.agents, file.gone, file.accounts, file.secrets)
    BY <1>4, StoreParts, FileWithUpdates
<1>7. PICK x \in SUBSET StoreAgents : x = file.agents \cup {of}
    BY CommandUnderWay, <1>1, <1>4 DEF CreateMade
<1>8. next = [m EXCEPT !.agents = x]
    BY <1>2, <1>1, <1>5, StoreParts, CommandUnderWay, FileWithIs, <1>7, <1>4 DEF CreateMade
<1>9. next \in File /\ next = FileWith(x, file.gone, file.accounts, file.secrets)
  <2>1. m \in File
      BY <1>1, <1>5, StoreParts, CommandUnderWay, FileWithIs, <1>4 DEF CreateMade
  <2> QED
      BY <1>5, <1>8, <2>1, StoreParts DEF FileWith, File
<1>10. CreateMade(of, 2, next)
    BY <1>4, <1>7, <1>9 DEF CreateMade
<1> QED
    BY <1>9, StatementKeeps, <1>1, <1>2, StatementsOf, <1>10 DEF CommandMade

LEMMA SetsSecretsKeeps ==
    ASSUME StoreInv, SetsSecrets
    PROVE  StoreInv'
<1>1. phase = "open" /\ work # NoWork /\ work.does = "replace" /\ work.at = 1
      /\ Statement("replace", 1, [work.made EXCEPT !.secrets = @ \cup ({work.of} \X work.set)])
    BY DEF SetsSecrets, Statement
<1>2. PICK of, set, m, next : of = work.of /\ set = work.set /\ m = work.made /\ next = [work.made EXCEPT !.secrets = @ \cup ({work.of} \X work.set)]
    OBVIOUS
<1> DEFINE Kept == {of} \X set
<1>5. m = FileWith(file.agents, file.gone, file.accounts, file.secrets)
    BY StoreParts, FileWithUpdates, <1>1, <1>2, CommandUnderWay DEF CommandMade
<1>6. Kept \subseteq Secret
    BY SecretsArePairs, <1>1, <1>2, CommandUnderWay DEF ReplaceMade, CommandMade
<1> HIDE DEF Kept
<1>7. PICK x \in SUBSET Secret : x = file.secrets \cup Kept
    BY <1>6, CommandUnderWay, <1>1
<1>8. next = [m EXCEPT !.secrets = x]
  <2>2. m.agents = file.agents /\ m.gone = file.gone /\ m.accounts = file.accounts /\ m.secrets = file.secrets
      BY <1>1, <1>5, <1>6, StoreParts, CommandUnderWay, FileWithIs
  <2> QED
      BY <1>7, <2>2, <1>2 DEF Kept
<1>9. next \in File /\ next = FileWith(file.agents, file.gone, file.accounts, x)
  <2>1. m \in File
      BY <1>1, <1>5, <1>6, StoreParts, CommandUnderWay, FileWithIs
  <2> QED
      BY <1>5, <1>8, <2>1, StoreParts DEF FileWith, File
<1>10. ReplaceMade(of, set, 2, next)
    BY <1>7, <1>9, <1>1, <1>2, CommandUnderWay DEF ReplaceMade, Kept, CommandMade
<1> QED
    BY <1>9, StatementKeeps, <1>1, <1>2, StatementsOf, <1>10 DEF CommandMade

LEMMA DeletesStaleKeeps ==
    ASSUME StoreInv, DeletesStale
    PROVE  StoreInv'
<1>1. phase = "open" /\ work # NoWork /\ work.does = "replace" /\ work.at = 2
      /\ Statement("replace", 2, [work.made EXCEPT !.secrets = @ \ (Prefixed(work.of) \ ({work.of} \X work.set))])
    BY DEF DeletesStale, Statement
<1>2. PICK of, set, m, next : of = work.of /\ set = work.set /\ m = work.made /\ next = [work.made EXCEPT !.secrets = @ \ (Prefixed(work.of) \ ({work.of} \X work.set))]
    OBVIOUS
<1> DEFINE Kept == {of} \X set
<1>5. m = FileWith(file.agents, file.gone, file.accounts, file.secrets \cup Kept)
    BY StoreParts, FileWithUpdates, <1>1, <1>2, CommandUnderWay DEF ReplaceMade, CommandMade
<1>6. Kept \subseteq Secret
    BY SecretsArePairs, <1>1, <1>2, CommandUnderWay DEF ReplaceMade, CommandMade
<1> HIDE DEF Kept
<1>7. PICK x \in SUBSET Secret : x = (file.secrets \cup Kept) \ (Prefixed(of) \ Kept)
    BY <1>6, CommandUnderWay, <1>1
<1>8. next = [m EXCEPT !.secrets = x]
  <2>2. m.agents = file.agents /\ m.gone = file.gone /\ m.accounts = file.accounts /\ m.secrets = file.secrets \cup Kept
      BY <1>1, <1>5, <1>6, StoreParts, CommandUnderWay, FileWithIs
  <2> QED
      BY <1>7, <2>2, <1>2 DEF Kept
<1>9. next \in File /\ next = FileWith(file.agents, file.gone, file.accounts, x)
  <2>1. m \in File
      BY <1>1, <1>5, <1>6, StoreParts, CommandUnderWay, FileWithIs
  <2> QED
      BY <1>5, <1>8, <2>1, StoreParts DEF FileWith, File
<1>10. ReplaceMade(of, set, 3, next)
    BY <1>7, <1>9, <1>1, <1>2, CommandUnderWay DEF ReplaceMade, Kept, CommandMade
<1> QED
    BY <1>9, StatementKeeps, <1>1, <1>2, StatementsOf, <1>10 DEF CommandMade

LEMMA SetsHostKeyKeeps ==
    ASSUME StoreInv, SetsHostKey
    PROVE  StoreInv'
<1>1. phase = "open" /\ work # NoWork /\ work.does = "key" /\ work.at = 1
      /\ Statement("key", 1, [work.made EXCEPT !.secrets = @ \cup {<<work.of, HostKey>>}])
    BY DEF SetsHostKey, Statement
<1>2. PICK of, set, m, next : of = work.of /\ set = work.set /\ m = work.made /\ next = [work.made EXCEPT !.secrets = @ \cup {<<work.of, HostKey>>}]
    OBVIOUS
<1>5. m = FileWith(file.agents, file.gone, file.accounts, file.secrets)
    BY StoreParts, FileWithUpdates, <1>1, <1>2, CommandUnderWay DEF CommandMade
<1>6. of \in StoreAgents /\ <<of, HostKey>> \in Secret
    BY SecretsArePairs, <1>1, <1>2, CommandUnderWay DEF KeyMade, CommandMade
<1>7. PICK x \in SUBSET Secret : x = file.secrets \cup {<<of, HostKey>>}
    BY <1>6, CommandUnderWay, <1>1
<1>8. next = [m EXCEPT !.secrets = x]
  <2>2. m.agents = file.agents /\ m.gone = file.gone /\ m.accounts = file.accounts /\ m.secrets = file.secrets
      BY <1>1, <1>5, <1>6, StoreParts, CommandUnderWay, FileWithIs
  <2> QED
      BY <1>7, <2>2, <1>2
<1>9. next \in File /\ next = FileWith(file.agents, file.gone, file.accounts, x)
  <2>1. m \in File
      BY <1>1, <1>5, <1>6, StoreParts, CommandUnderWay, FileWithIs
  <2> QED
      BY <1>5, <1>8, <2>1, StoreParts DEF FileWith, File
<1>10. KeyMade(of, 2, next)
    BY <1>7, <1>9, <1>1, <1>2, CommandUnderWay DEF KeyMade, CommandMade
<1> QED
    BY <1>9, StatementKeeps, <1>1, <1>2, StatementsOf, <1>10 DEF CommandMade

LEMMA ReleasesNameKeeps ==
    ASSUME StoreInv, ReleasesName
    PROVE  StoreInv'
<1>1. phase = "open" /\ work # NoWork /\ work.does = "finalize" /\ work.at = 1
      /\ Statement("finalize", 1, [work.made EXCEPT !.agents = @ \ {work.of}, !.gone = @ \cup {work.of}])
    BY DEF ReleasesName, Statement
<1>2. PICK of, set, m, next : of = work.of /\ set = work.set /\ m = work.made /\ next = [work.made EXCEPT !.agents = @ \ {work.of}, !.gone = @ \cup {work.of}]
    OBVIOUS
<1>5. m = FileWith(file.agents, file.gone, file.accounts, file.secrets)
    BY StoreParts, FileWithUpdates, <1>1, <1>2, CommandUnderWay DEF CommandMade
<1>7. PICK x \in SUBSET StoreAgents, y \in SUBSET StoreAgents : x = file.agents \ {of} /\ y = file.gone \cup {of}
    BY CommandUnderWay, <1>1, <1>2 DEF FinalizeMade, CommandMade
<1>8. next = [m EXCEPT !.agents = x, !.gone = y]
  <2>2. m.agents = file.agents /\ m.gone = file.gone /\ m.accounts = file.accounts /\ m.secrets = file.secrets
      BY <1>1, <1>5, StoreParts, CommandUnderWay, FileWithIs, <1>2 DEF FinalizeMade, CommandMade
  <2> QED
      BY <1>7, <2>2, <1>2
<1>9. next \in File /\ next = FileWith(x, y, file.accounts, file.secrets)
  <2>1. m \in File
      BY <1>1, <1>5, StoreParts, CommandUnderWay, FileWithIs, <1>2 DEF FinalizeMade, CommandMade
  <2> QED
      BY <1>5, <1>8, <2>1, StoreParts DEF FileWith, File
<1>10. FinalizeMade(of, 2, next)
    BY <1>7, <1>9, <1>1, <1>2, CommandUnderWay DEF FinalizeMade, CommandMade
<1> QED
    BY <1>9, StatementKeeps, <1>1, <1>2, StatementsOf, <1>10 DEF CommandMade

LEMMA DeletesAgentSecretsKeeps ==
    ASSUME StoreInv, DeletesAgentSecrets
    PROVE  StoreInv'
<1>1. phase = "open" /\ work # NoWork /\ work.does = "finalize" /\ work.at = 2
      /\ Statement("finalize", 2, [work.made EXCEPT !.secrets = @ \ Prefixed(work.of)])
    BY DEF DeletesAgentSecrets, Statement
<1>2. PICK of, set, m, next : of = work.of /\ set = work.set /\ m = work.made /\ next = [work.made EXCEPT !.secrets = @ \ Prefixed(work.of)]
    OBVIOUS
<1>4. FinalizeMade(of, 2, m)
    BY <1>1, <1>2, CommandUnderWay DEF CommandMade
<1>5. m = FileWith(file.agents \ {of}, file.gone \cup {of}, file.accounts, file.secrets)
    BY <1>4, StoreParts, FileWithUpdates DEF FinalizeMade
<1>7. PICK x \in SUBSET Secret : x = file.secrets \ Prefixed(of)
    BY CommandUnderWay, <1>1, <1>4 DEF FinalizeMade
<1>8. next = [m EXCEPT !.secrets = x]
  <2>2. m.agents = file.agents \ {of} /\ m.gone = file.gone \cup {of} /\ m.accounts = file.accounts /\ m.secrets = file.secrets
      BY <1>1, <1>5, StoreParts, CommandUnderWay, FileWithIs, <1>4 DEF FinalizeMade
  <2> QED
      BY <1>7, <2>2, <1>2
<1>9. next \in File /\ next = FileWith(file.agents \ {of}, file.gone \cup {of}, file.accounts, x)
  <2>1. m \in File
      BY <1>1, <1>5, StoreParts, CommandUnderWay, FileWithIs, <1>4 DEF FinalizeMade
  <2> QED
      BY <1>5, <1>8, <2>1, StoreParts DEF FileWith, File
<1>10. FinalizeMade(of, 3, next)
    BY <1>4, <1>7, <1>9 DEF FinalizeMade
<1>11. CommandMade("finalize", work.of, work.set, 3, next)
    BY StatementsOf, <1>2, <1>10 DEF CommandMade
<1> QED
    BY <1>9, <1>11, StatementKeeps, <1>1, <1>2

LEMMA DeletesHostKeyKeeps ==
    ASSUME StoreInv, DeletesHostKey
    PROVE  StoreInv'
<1>1. phase = "open" /\ work # NoWork /\ work.does = "finalize" /\ work.at = 3
      /\ Statement("finalize", 3, [work.made EXCEPT !.secrets = @ \ {<<work.of, HostKey>>}])
    BY DEF DeletesHostKey, Statement
<1>2. PICK of, set, m, next : of = work.of /\ set = work.set /\ m = work.made /\ next = [work.made EXCEPT !.secrets = @ \ {<<work.of, HostKey>>}]
    OBVIOUS
<1>4. FinalizeMade(of, 3, m)
    BY <1>1, <1>2, CommandUnderWay DEF CommandMade
<1>5. m = FileWith(file.agents \ {of}, file.gone \cup {of}, file.accounts, file.secrets \ Prefixed(of))
    BY <1>4, StoreParts, FileWithUpdates DEF FinalizeMade
<1>7. PICK x \in SUBSET Secret : x = (file.secrets \ Prefixed(of)) \ {<<of, HostKey>>}
    BY CommandUnderWay, <1>1, <1>4 DEF FinalizeMade
<1>8. next = [m EXCEPT !.secrets = x]
  <2>2. m.agents = file.agents \ {of} /\ m.gone = file.gone \cup {of} /\ m.accounts = file.accounts /\ m.secrets = file.secrets \ Prefixed(of)
      BY <1>1, <1>5, StoreParts, CommandUnderWay, FileWithIs, <1>4 DEF FinalizeMade
  <2> QED
      BY <1>7, <2>2, <1>2
<1>9. next \in File /\ next = FileWith(file.agents \ {of}, file.gone \cup {of}, file.accounts, x)
  <2>1. m \in File
      BY <1>1, <1>5, StoreParts, CommandUnderWay, FileWithIs, <1>4 DEF FinalizeMade
  <2> QED
      BY <1>5, <1>8, <2>1, StoreParts DEF FileWith, File
<1>10. FinalizeMade(of, 4, next)
    BY <1>4, <1>7, <1>9 DEF FinalizeMade
<1>11. CommandMade("finalize", work.of, work.set, 4, next)
    BY StatementsOf, <1>2, <1>10 DEF CommandMade
<1> QED
    BY <1>9, <1>11, StatementKeeps, <1>1, <1>2

LEMMA SetsCredentialKeeps ==
    ASSUME StoreInv, SetsCredential
    PROVE  StoreInv'
<1>1. phase = "open" /\ work # NoWork /\ work.does = "put_account" /\ work.at = 1
      /\ Statement("put_account", 1, [work.made EXCEPT !.secrets = @ \cup {<<"login", work.of>>}])
    BY DEF SetsCredential, Statement
<1>2. PICK of, set, m, next : of = work.of /\ set = work.set /\ m = work.made /\ next = [work.made EXCEPT !.secrets = @ \cup {<<"login", work.of>>}]
    OBVIOUS
<1>4. PutMade(of, 1, m) /\ m = file
    BY <1>1, <1>2, CommandUnderWay DEF CommandMade
<1>5. m = FileWith(file.agents, file.gone, file.accounts, file.secrets)
    BY <1>4, StoreParts, FileWithUpdates
<1>7. PICK x \in SUBSET Secret : x = file.secrets \cup {<<"login", of>>}
    BY CommandUnderWay, <1>1, <1>4, SecretsArePairs DEF PutMade
<1>8. next = [m EXCEPT !.secrets = x]
  <2>2. m.agents = file.agents /\ m.gone = file.gone /\ m.accounts = file.accounts /\ m.secrets = file.secrets
      BY <1>1, <1>5, StoreParts, CommandUnderWay, FileWithIs, <1>4, SecretsArePairs DEF PutMade
  <2> QED
      BY <1>7, <2>2, <1>2
<1>9. next \in File /\ next = FileWith(file.agents, file.gone, file.accounts, x)
  <2>1. m \in File
      BY <1>1, <1>5, StoreParts, CommandUnderWay, FileWithIs, <1>4, SecretsArePairs DEF PutMade
  <2> QED
      BY <1>5, <1>8, <2>1, StoreParts DEF FileWith, File
<1>10. PutMade(of, 2, next)
    BY <1>4, <1>7, <1>9 DEF PutMade
<1> QED
    BY <1>9, StatementKeeps, <1>1, <1>2, StatementsOf, <1>10 DEF CommandMade

LEMMA InsertsAccountKeeps ==
    ASSUME StoreInv, InsertsAccount
    PROVE  StoreInv'
<1>2. PICK of, set, m, next : of = work.of /\ set = work.set /\ m = work.made /\ next = [work.made EXCEPT !.accounts = @ \cup {work.of}]
    OBVIOUS
<1>4. PutMade(of, 2, m)
    BY <1>2, CommandUnderWay DEF CommandMade, InsertsAccount, Statement
<1>5. m = FileWith(file.agents, file.gone, file.accounts, file.secrets \cup {<<"login", of>>})
    BY <1>4, StoreParts, FileWithUpdates DEF PutMade
<1>7. PICK x \in SUBSET {Unnamed, Default, "work"} : x = file.accounts \cup {of}
    BY CommandUnderWay, <1>4, SecretsArePairs DEF PutMade, InsertsAccount, Statement
<1>8. next = [m EXCEPT !.accounts = x]
  <2>2. m.agents = file.agents /\ m.gone = file.gone /\ m.accounts = file.accounts /\ m.secrets = file.secrets \cup {<<"login", of>>}
      BY <1>5, StoreParts, CommandUnderWay, FileWithIs, <1>4, SecretsArePairs DEF PutMade,
         InsertsAccount, Statement
  <2> QED
      BY <1>7, <2>2, <1>2
<1>9. next \in File /\ next = FileWith(file.agents, file.gone, x, file.secrets \cup {<<"login", of>>})
  <2>1. m \in File
      BY <1>5, StoreParts, CommandUnderWay, FileWithIs, <1>4, SecretsArePairs DEF PutMade,
         InsertsAccount, Statement
  <2> QED
      BY <1>5, <1>8, <2>1, StoreParts DEF FileWith, File
<1>10. PutMade(of, 3, next)
    BY <1>4, <1>7, <1>9 DEF PutMade
<1>12. Statement("put_account", 2, next)
    BY <1>2 DEF InsertsAccount, Statement
<1> QED
    BY <1>9, <1>12, StatementKeeps, StatementsOf, <1>2, <1>10 DEF CommandMade

LEMMA DeletesCredentialKeeps ==
    ASSUME StoreInv, DeletesCredential
    PROVE  StoreInv'
<1>1. phase = "open" /\ work # NoWork /\ work.does = "delete_account" /\ work.at = 1
      /\ Statement("delete_account", 1, [work.made EXCEPT !.secrets = @ \ {<<"login", work.of>>}])
    BY DEF DeletesCredential, Statement
<1>2. PICK of, set, m, next : of = work.of /\ set = work.set /\ m = work.made /\ next = [work.made EXCEPT !.secrets = @ \ {<<"login", work.of>>}]
    OBVIOUS
<1>4. DeleteMade(of, 1, m) /\ m = file
    BY <1>1, <1>2, CommandUnderWay DEF CommandMade
<1>5. m = FileWith(file.agents, file.gone, file.accounts, file.secrets)
    BY <1>4, StoreParts, FileWithUpdates
<1>7. PICK x \in SUBSET Secret : x = file.secrets \ {<<"login", of>>}
    BY CommandUnderWay, <1>1, <1>4 DEF DeleteMade
<1>8. next = [m EXCEPT !.secrets = x]
  <2>1. next = [m EXCEPT !.secrets = @ \ {<<"login", of>>}]
      BY <1>2
  <2> QED
      BY <1>7, <2>1, <1>1, <1>5, StoreParts, CommandUnderWay, FileWithIs, <1>4 DEF DeleteMade
<1>9. next \in File /\ next = FileWith(file.agents, file.gone, file.accounts, x)
  <2>1. m \in File
      BY <1>1, <1>5, StoreParts, CommandUnderWay, FileWithIs, <1>4 DEF DeleteMade
  <2> QED
      BY <1>5, <1>8, <2>1, StoreParts DEF FileWith, File
<1>10. DeleteMade(of, 2, next)
    BY <1>4, <1>7, <1>9 DEF DeleteMade
<1> QED
    BY <1>9, StatementKeeps, <1>1, <1>2, StatementsOf, <1>10 DEF CommandMade

LEMMA DeletesAccountKeeps ==
    ASSUME StoreInv, DeletesAccount
    PROVE  StoreInv'
<1>2. PICK of, set, m, next : of = work.of /\ set = work.set /\ m = work.made /\ next = [work.made EXCEPT !.accounts = @ \ {work.of}]
    OBVIOUS
<1>4. DeleteMade(of, 2, m)
    BY <1>2, CommandUnderWay DEF CommandMade, DeletesAccount, Statement
<1>5. m = FileWith(file.agents, file.gone, file.accounts, file.secrets \ {<<"login", of>>})
    BY <1>4, StoreParts, FileWithUpdates DEF DeleteMade
<1>7. PICK x \in SUBSET {Unnamed, Default, "work"} : x = file.accounts \ {of}
    BY CommandUnderWay, <1>4 DEF DeleteMade, DeletesAccount, Statement
<1>8. next = [m EXCEPT !.accounts = x]
  <2>2. m.agents = file.agents /\ m.gone = file.gone /\ m.accounts = file.accounts /\ m.secrets = file.secrets \ {<<"login", of>>}
      BY <1>5, StoreParts, CommandUnderWay, FileWithIs, <1>4 DEF DeleteMade, DeletesAccount,
         Statement
  <2> QED
      BY <1>7, <2>2, <1>2
<1>9. next \in File /\ next = FileWith(file.agents, file.gone, x, file.secrets \ {<<"login", of>>})
  <2>1. m \in File
      BY <1>5, StoreParts, CommandUnderWay, FileWithIs, <1>4 DEF DeleteMade, DeletesAccount,
         Statement
  <2> QED
      BY <1>5, <1>8, <2>1, StoreParts DEF FileWith, File
<1>10. DeleteMade(of, 3, next)
    BY <1>4, <1>7, <1>9 DEF DeleteMade
<1>12. Statement("delete_account", 2, next)
    BY <1>2 DEF DeletesAccount, Statement
<1> QED
    BY <1>9, <1>12, StatementKeeps, StatementsOf, <1>2, <1>10 DEF CommandMade


LEMMA CommittedCommand ==
    ASSUME StoreInv, CommitsCommand
    PROVE  /\ IsSound(work.made) /\ work.made.version = file.version /\ work.made.schema = file.schema
           /\ \A a \in work.made.agents : <<a, HostKey>> \in file.secrets => <<a, HostKey>> \in work.made.secrets
<1>2. PICK does, of, set, m :
            /\ does \in AgentsCommands \cup AccountsCommands
            /\ does = work.does /\ of = work.of /\ set = work.set /\ m = work.made
    BY CommandUnderWay DEF Transactions, CommitsCommand
<1>4. work.at \in 1..(Statements(does) + 1) /\ work.at > Statements(does) /\ Statements(does) \in 1..3
    BY <1>2, StatementsAreCounted, CommandUnderWay DEF CommandMade, CommitsCommand
<1> QED
    BY <1>2, CommittedIsSound, StoreParts, <1>4, CommandUnderWay DEF CommitsCommand

LEMMA EndsKeep ==
    ASSUME StoreInv, CommitsCommand \/ CommandFails \/ Crashes
    PROVE  StoreInv'
<1>1. CASE CommitsCommand
    BY <1>1, StoreParts, CommittedCommand, NewFileIsSound DEF CommitsCommand, WorkIsTyped
<1>2. CASE CommandFails
    BY <1>2, FileRests DEF CommandFails, WorkIsTyped, MigrationIsSound, CommandIsItsStatements,
       StoreInv
<1>3. CASE Crashes
  <2> DEFINE Left(b) == IF b.kind = "copying" THEN [b EXCEPT !.kind = "partial"] ELSE b
  <2>1. phase' = "closed" /\ work' = NoWork /\ UNCHANGED <<file, stepped>> /\ backups' = {Left(b) : b \in backups}
      BY <1>3 DEF Crashes
  <2>2. \A b \in Backups : Left(b) \in Backups /\ Left(b).time = b.time /\ Left(b).kind # "copying"
      BY DEF Backups
  <2>3. IsFiniteSet(backups')
    <3> DEFINE left == [b \in backups |-> Left(b)]
    <3>1. left \in [backups -> backups'] /\ \A c \in backups' : \E b \in backups : left[b] = c
        BY <2>1
    <3> HIDE DEF left
    <3> QED
        BY StoreParts, FS_Surjection, <3>1 DEF Surjection
  <2> HIDE DEF Left
  <2>4. backups' \in SUBSET Backups /\ \A b \in backups' : b.kind # "copying"
      BY <2>1, <2>2, StoreParts
  <2>5. \A b, c \in backups' : b.time = c.time => b = c
      BY <2>2, StoreParts, <2>1
  <2>7. WorkIsTyped' /\ MigrationIsSound' /\ CommandIsItsStatements'
      BY <2>1 DEF WorkIsTyped, MigrationIsSound, CommandIsItsStatements
  <2> QED
      BY <2>7, <2>1, StoreParts, <2>3, <2>4, <2>5 DEF StoreInv, IsSound, HasItsCredentials,
         HasWholeManifests, SecretsOf, HasNoneOfTheGone, IsOfItsVersion, BackupsAreOfTheFile
<1> QED
    BY <1>1, <1>2, <1>3

LEMMA StoreStepKeeps == StoreInv /\ [StoreNext]_storeVars => StoreInv'
<1> SUFFICES ASSUME StoreInv, [StoreNext]_storeVars PROVE StoreInv'
    OBVIOUS
<1>1. CASE Opening
    BY <1>1, OpeningKeeps, MigratingKeeps, VerifyingKeeps DEF Opening
<1>2. CASE Commands
    BY <1>2, CommandsStart, EndsKeep DEF Commands
<1>3. CASE InCommand
    BY <1>3, InsertsAgentKeeps, SetsSecretsKeeps, DeletesStaleKeeps, SetsHostKeyKeeps, ReleasesNameKeeps,
       DeletesAgentSecretsKeeps, DeletesHostKeyKeeps, SetsCredentialKeeps, InsertsAccountKeeps,
       DeletesCredentialKeeps, DeletesAccountKeeps DEF InCommand
<1>4. CASE Crashes
    BY <1>4, EndsKeep
<1>5. CASE UNCHANGED storeVars
  <2>1. UNCHANGED <<file, phase, work, backups, stepped>>
      BY <1>5 DEF storeVars
  <2>2. IsSound(file)'
      BY <2>1, StoreParts DEF IsSound, HasItsCredentials, HasWholeManifests, SecretsOf, HasNoneOfTheGone, IsOfItsVersion
  <2>4. CommandIsItsStatements'
      BY <2>1, StoreParts DEF CommandIsItsStatements, CommandMade, CreateMade, ReplaceMade, KeyMade, FinalizeMade, PutMade,
       DeleteMade, FileWith
  <2> QED
      BY <2>2, <2>4, <2>1, StoreParts DEF StoreInv, WorkIsTyped, MigrationIsSound,
         HasItsCredentials, BackupsAreOfTheFile
<1> QED
    BY <1>1, <1>2, <1>3, <1>4, <1>5 DEF StoreNext

LEMMA StoreStaysRight == StoreSpec => []StoreInv
    BY StoreStarts, StoreStepKeeps, PTL DEF StoreSpec

(* What is committed is sound, whatever cut the open or a command short:   *)
(* StoreIsConsistent (persistence/schema.rs, secrets.rs, agents.rs).       *)
THEOREM StoreStaysConsistent == StoreSpec => []StoreIsConsistent
<1>1. StoreInv => StoreIsConsistent
  <2> SUFFICES ASSUME StoreInv PROVE StoreIsConsistent
    OBVIOUS
  <2>1. IsSound(file) /\ WorkIsTyped /\ file \in File
    BY StoreParts
  <2>2. work # NoWork => work.made \in File
    BY <2>1 DEF WorkIsTyped, Migrations, Transactions
  <2>3. phase = "migrating" => work # NoWork
    <3>1. \A w \in Migrations : w.does = "migrate"
      BY DEF Migrations
    <3>2. NoWork.does = "none"
      BY DEF NoWork
    <3> QED
      BY <2>1, <3>1, <3>2 DEF WorkIsTyped
  <2>4. \A b \in Backups : b.time \in BackupTimes /\ b.of \in File
    BY DEF Backups
  <2>5. StoreTypeOK
    BY <2>1, <2>2, <2>3, <2>4, StoreParts DEF StoreTypeOK, WorkIsTyped
  <2>6. OpenIsMigrated
    BY <2>1 DEF OpenIsMigrated, WorkIsTyped, IsSound, IsOfItsVersion, VERSION
  <2> QED
    BY <2>1, <2>5, <2>6 DEF StoreIsConsistent, IsSound, AccountHasItsCredential, SecretsAreOfOneManifest, GoneLeavesNoSecret
<1> QED
    BY <1>1, StoreStaysRight, PTL

(* Who may change the file.                                                *)
LEMMA OnlyCommits ==
    ASSUME StoreInv, [StoreNext]_storeVars, file' # file
    PROVE  /\ phase' = "open"
           /\ \/ CommitsCommand
              \/ /\ phase = "migrating" /\ work.at > VERSION /\ work.made.schema = SchemaOf(VERSION)
                 /\ file' = [work.made EXCEPT !.version = VERSION]
<1>1. CommitsCommand \/ VerifiesMigration
    BY DEF storeVars, StoreNext, Opening, Commands, InCommand, Connects, BeginsBackup, EndsBackup, PrunesBackups, Initializes,
       AppliesMigration, put, replace_agent_secrets, store_host_key, finalizes, put_provider_account,
       delete_provider_account, Runs, CommandFails, InsertsAgent, SetsSecrets, DeletesStale, SetsHostKey, ReleasesName,
       DeletesAgentSecrets, DeletesHostKey, SetsCredential, InsertsAccount, DeletesCredential, DeletesAccount,
       Statement, Crashes
<1> QED
    BY <1>1 DEF CommitsCommand, VerifiesMigration, Commits

(* The steps that change the file: only a commit does, it keeps the host   *)
(* keys, and before that of the migrations the file has a whole copy.      *)
THEOREM CommitsStaySafe ==
    StoreSpec => HostKeyIsKept /\ FailedOpenChangesNothing /\ BackedUpBeforeMigration
<1> DEFINE Keys == \A a \in file'.agents : <<a, HostKey>> \in file.secrets => <<a, HostKey>> \in file'.secrets
           Whole == phase # "open" /\ file' # file => phase' = "open"
           Copied == (file' # file /\ phase = "migrating" /\ file.version > 0 /\ ~stepped) =>
                        \E b \in backups : b.kind = "whole" /\ b.of = file
<1>1. StoreInv /\ [StoreNext]_storeVars => Keys
  <2> SUFFICES ASSUME StoreInv, [StoreNext]_storeVars PROVE Keys
    OBVIOUS
  <2>1. CASE file' = file
    BY <2>1
  <2>2. CASE file' # file
    <3>1. CASE CommitsCommand
      <4>1. file' = work.made
        BY <3>1 DEF CommitsCommand
      <4> QED
        BY <3>1, <4>1, CommittedCommand
    <3>2. CASE /\ phase = "migrating" /\ work.at > VERSION /\ work.made.schema = SchemaOf(VERSION)
               /\ file' = [work.made EXCEPT !.version = VERSION]
      BY <3>2, CommittedMigrationIsSound
    <3> QED
      BY <2>2, <3>1, <3>2, OnlyCommits
  <2> QED
    BY <2>1, <2>2
<1>2. StoreInv /\ [StoreNext]_storeVars => Whole
    BY OnlyCommits
<1>3. StoreInv /\ [StoreNext]_storeVars => Copied
  <2> SUFFICES ASSUME StoreInv, phase = "migrating", file.version > 0, ~stepped
               PROVE  \E b \in backups : b.kind = "whole" /\ b.of = file
    OBVIOUS
  <2>1. file.version \in 0..(VERSION + 1) /\ file.version < VERSION /\ VERSION = 7
    BY StoreParts, FileFields DEF MigrationIsSound, VERSION
  <2>2. file.version \in 1..(VERSION - 1)
    BY <2>1
  <2> QED
    BY <2>2 DEF StoreInv, BackupsAreOfTheFile
<1> HIDE DEF Keys, Whole, Copied
<1>4. StoreSpec => [][Keys /\ Whole /\ Copied]_storeVars
  <2>1. StoreInv /\ [StoreNext]_storeVars => [Keys /\ Whole /\ Copied]_storeVars
    BY <1>1, <1>2, <1>3
  <2> QED
    BY <2>1, StoreStaysRight, PTL DEF StoreSpec
<1> QED
    BY <1>4, PTL DEF HostKeyIsKept, FailedOpenChangesNothing, BackedUpBeforeMigration, Keys, Whole, Copied

=============================================================================
