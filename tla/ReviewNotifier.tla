--------------------------- MODULE ReviewNotifier ---------------------------
(***************************************************************************)
(* The direct messages about pull requests that wait for a review          *)
(* (integrations/src/github: reviewNotifier.ts, notifiedStore.ts,          *)
(* client.ts, codeowners.ts; slack/reviewDm.ts).  A marker is written      *)
(* before a message is sent and promoted or removed after it.  Writes and  *)
(* messages fail, the process ends between any two awaits, and pull        *)
(* requests change while a poll reads them.                                *)
(***************************************************************************)
EXTENDS Naturals, FiniteSets, Sequences

CONSTANTS
    PullRequests,    \* the open pull requests of the watched repositories
    Fickle,          \* those that change
    RepoOf,          \* the repository of each
    OwnerRules,      \* the CODEOWNERS files a repository may have: sequences of [matches, owners]
    MaxStops,        \* bound on the times the process ends
    MaxMessages      \* bound on attempts to send

ASSUME NotifierConstants ==
    /\ DOMAIN RepoOf = PullRequests /\ Fickle \subseteq PullRequests
    /\ {MaxStops, MaxMessages} \subseteq Nat

VARIABLES
    pull,            \* what each pull request is like now
    rules,           \* the CODEOWNERS file, NoFile without one
    state_file,            \* the state file: its markers, and whether it can be read
    memory,          \* the markers in memory
    storeLoaded,     \* the state file was read
    notifier,        \* the poll cycle
    dmChannel,       \* the cached channel: "none", "open" or "stale"
    received,        \* how often Slack received the message about each
    doubtful,        \* pull requests whose message failed though Slack received it
    interrupted,     \* pull requests whose marker stayed though the message was not received
    warranted,       \* those that, at some time in this poll, had no label or touched an owned path
    restarts, attempts

notifierVars == <<pull, rules, state_file, memory, storeLoaded, notifier, dmChannel, received, doubtful, interrupted,
                  warranted, restarts, attempts>>

NoFile == <<>>
Repos == {RepoOf[p] : p \in PullRequests}

\* Draft, waiting for a review or decided; with the auto-merge label on a page of its labels or
\* without; touching the file "owned" or only others.
Pulls == [state : {"draft", "required", "decided"}, labelPage : {0, 2}, touches : {"owned", "other"}]
Started == [pc |-> "idle", repos |-> Repos, repo |-> CHOOSE r \in Repos : TRUE, listed |-> {}, blocked |-> {},
            auto |-> {}, checks |-> {}, selected |-> {}, one |-> CHOOSE p \in PullRequests : TRUE]
Markers == [notified : SUBSET PullRequests, pending : SUBSET PullRequests]

\* Every variable has a value of its kind, and no marker is both pending and confirmed.
NotifierTypeOK ==
    /\ pull \in [PullRequests -> Pulls]
    /\ state_file \in [readable : BOOLEAN, markers : Markers]
    /\ memory \in Markers /\ memory.notified \cap memory.pending = {}
    /\ notifier.pc \in {"idle", "repos", "owners", "files", "selects", "marks", "sends", "clears", "confirms"}
    /\ dmChannel \in {"none", "open", "stale"}
    /\ {doubtful, interrupted, warranted} \subseteq SUBSET PullRequests

NotifierInit ==
    /\ pull \in [PullRequests -> {p \in Pulls : p.state = "required"}]
    /\ rules \in OwnerRules \cup {NoFile}
    /\ state_file = [readable |-> TRUE, markers |-> [notified |-> {}, pending |-> {}]]
    /\ memory = [notified |-> {}, pending |-> {}]
    /\ storeLoaded = FALSE
    /\ notifier = Started
    /\ dmChannel = "none"
    /\ received = [p \in PullRequests |-> 0]
    /\ doubtful = {} /\ interrupted = {} /\ warranted = {}
    /\ restarts = 0 /\ attempts = 0

-----------------------------------------------------------------------------
(* codeowners.ts and selectForNotification.                                *)

\* isOwned: the last rule that matches decides, and one without owners removes ownership.
isOwned(ownerRules, path) ==
    LET matching == {i \in DOMAIN ownerRules : path \in ownerRules[i].matches} IN
    \E i \in matching : (\A j \in matching : j <= i) /\ ownerRules[i].owners

\* allLabelNames: the label counts whatever page it is on.
AutoMerge(p) == p.labelPage > 0

Awaiting(p) == p.state = "required"
WaitsForAPerson(p) == (Awaiting(p) /\ p.labelPage = 0) \/ isOwned(rules, p.touches)

-----------------------------------------------------------------------------
(* NotifiedStore: each write is a temporary file and a rename.             *)

has_Confirmed(p) == p \in memory.notified
\* A marker left by an interrupted send counts as handled.
has(p) == p \in memory.notified \cup memory.pending

\* persist writes the markers in memory, or fails and leaves the file.
persist(succeeds) == state_file' = IF succeeds THEN [state_file EXCEPT !.markers = memory'] ELSE state_file

Now(pc) == notifier.pc = pc
GoesTo(pc) == notifier' = [notifier EXCEPT !.pc = pc]

\* The process starts a cycle; a state file that cannot be read defers all of it.
pollOnce ==
    /\ Now("idle")
    /\ IF ~storeLoaded /\ ~state_file.readable
       THEN UNCHANGED <<memory, storeLoaded, notifier>>
       ELSE /\ memory' = IF storeLoaded THEN memory ELSE state_file.markers
            /\ storeLoaded' = TRUE
            /\ notifier' = [Started EXCEPT !.pc = "repos"]
    /\ warranted' = {p \in PullRequests : WaitsForAPerson(pull[p])}
    /\ UNCHANGED <<pull, rules, state_file, dmChannel, received, doubtful, interrupted, restarts, attempts>>

\* pollRepo: lists one repository; only auto-merging ones are checked against CODEOWNERS.
ListsRepo(r) ==
    LET here == {p \in PullRequests : RepoOf[p] = r /\ Awaiting(pull[p])}
        auto == {p \in here : AutoMerge(pull[p])} IN
    /\ Now("repos") /\ r \in notifier.repos
    /\ notifier' = [notifier EXCEPT !.pc = IF auto = {} THEN "selects" ELSE "owners", !.repos = @ \ {r}, !.repo = r,
                                    !.listed = here, !.auto = auto, !.checks = auto, !.blocked = {}]
    /\ UNCHANGED <<pull, rules, state_file, memory, storeLoaded, dmChannel, received, doubtful, interrupted, warranted,
                   restarts, attempts>>

\* getCodeowners: without a file nothing is blocked.
ReadsOwners ==
    /\ Now("owners")
    /\ GoesTo(IF rules = NoFile THEN "selects" ELSE "files")
    /\ UNCHANGED <<pull, rules, state_file, memory, storeLoaded, dmChannel, received, doubtful, interrupted, warranted,
                   restarts, attempts>>

ReadsFiles(p) ==
    /\ Now("files") /\ p \in notifier.checks
    /\ notifier' = [notifier EXCEPT !.checks = @ \ {p},
                                    !.blocked = IF isOwned(rules, pull[p].touches) THEN @ \cup {p} ELSE @,
                                    !.pc = IF notifier.checks = {p} THEN "selects" ELSE "files"]
    /\ UNCHANGED <<pull, rules, state_file, memory, storeLoaded, dmChannel, received, doubtful, interrupted, warranted,
                   restarts, attempts>>

\* A request of one repository fails: the others are still polled.
RepoFails ==
    /\ notifier.pc \in {"owners", "files"}
    /\ GoesTo("repos")
    /\ UNCHANGED <<pull, rules, state_file, memory, storeLoaded, dmChannel, received, doubtful, interrupted, warranted,
                   restarts, attempts>>

\* selectForNotification, with the labels read when the repository was listed.
Selects ==
    /\ Now("selects")
    /\ notifier' = [notifier EXCEPT !.pc = "marks", !.selected = (notifier.listed \ notifier.auto) \cup notifier.blocked]
    /\ UNCHANGED <<pull, rules, state_file, memory, storeLoaded, dmChannel, received, doubtful, interrupted, warranted,
                   restarts, attempts>>

\* markPending: the message is sent only once the marker is written.
markPending(p) ==
    /\ Now("marks") /\ p \in notifier.selected /\ ~has(p) /\ attempts < MaxMessages
    /\ attempts' = attempts + 1
    /\ \E written \in BOOLEAN :
        /\ memory' = IF written THEN [memory EXCEPT !.pending = @ \cup {p}] ELSE memory
        /\ persist(written)
        /\ notifier' = [notifier EXCEPT !.pc = IF written THEN "sends" ELSE "marks", !.one = p,
                                        !.selected = @ \ {p}]
    /\ UNCHANGED <<pull, rules, storeLoaded, dmChannel, received, doubtful, interrupted, warranted, restarts>>

\* notify: opens the channel once; a failed message drops it. An error may hide a message received.
notify ==
    LET p == notifier.one IN
    /\ Now("sends")
    /\ \E outcome \in {"sent", "lost", "in doubt"} :
        /\ dmChannel = "stale" => outcome = "lost"
        /\ dmChannel' = IF outcome = "sent" THEN "open" ELSE "none"
        /\ received' = IF outcome = "lost" THEN received ELSE [received EXCEPT ![p] = @ + 1]
        /\ doubtful' = IF outcome = "in doubt" THEN doubtful \cup {p} ELSE doubtful
        /\ GoesTo(IF outcome = "sent" THEN "confirms" ELSE "clears")
    /\ UNCHANGED <<pull, rules, state_file, memory, storeLoaded, interrupted, warranted, restarts, attempts>>

\* markNotified: when its write fails the pending marker is still in the file.
markNotified ==
    /\ Now("confirms")
    /\ memory' = [notified |-> memory.notified \cup {notifier.one}, pending |-> memory.pending \ {notifier.one}]
    /\ \E written \in BOOLEAN : persist(written)
    /\ GoesTo("marks")
    /\ UNCHANGED <<pull, rules, storeLoaded, dmChannel, received, doubtful, interrupted, warranted, restarts, attempts>>

\* clearPending: the marker leaves memory before the write that may fail.
clearPending ==
    /\ Now("clears")
    /\ memory' = [memory EXCEPT !.pending = @ \ {notifier.one}]
    /\ \E written \in BOOLEAN :
        /\ persist(written)
        /\ interrupted' = IF written THEN interrupted ELSE interrupted \cup {notifier.one}
    /\ GoesTo("marks")
    /\ UNCHANGED <<pull, rules, storeLoaded, dmChannel, received, doubtful, warranted, restarts, attempts>>

\* The repository is done; the next one, or the cycle ends.
RepoEnds ==
    /\ Now("marks")
    /\ \A p \in notifier.selected : has(p)
    /\ GoesTo("repos")
    /\ UNCHANGED <<pull, rules, state_file, memory, storeLoaded, dmChannel, received, doubtful, interrupted, warranted,
                   restarts, attempts>>

\* Also after a failed listing of every repository that is left.
CycleEnds ==
    /\ Now("repos")
    /\ GoesTo("idle")
    /\ UNCHANGED <<pull, rules, state_file, memory, storeLoaded, dmChannel, received, doubtful, interrupted, warranted,
                   restarts, attempts>>

-----------------------------------------------------------------------------
(* The surroundings.                                                       *)

\* A review is decided, a draft made ready, a label set, a file touched.
PullChanges(p) ==
    /\ p \in Fickle
    /\ \E q \in Pulls :
        /\ Cardinality({f \in {"state", "labelPage", "touches"} : q[f] # pull[p][f]}) = 1
        /\ pull' = [pull EXCEPT ![p] = q]
    /\ warranted' = IF WaitsForAPerson(pull'[p]) THEN warranted \cup {p} ELSE warranted
    /\ UNCHANGED <<rules, state_file, memory, storeLoaded, notifier, dmChannel, received, doubtful, interrupted, restarts,
                   attempts>>

ChannelGoesStale ==
    /\ dmChannel = "open"
    /\ dmChannel' = "stale"
    /\ UNCHANGED <<pull, rules, state_file, memory, storeLoaded, notifier, received, doubtful, interrupted, warranted,
                   restarts, attempts>>

\* The state file is damaged while nothing runs, or repaired.
FileChanges ==
    /\ ~storeLoaded
    /\ state_file' = [state_file EXCEPT !.readable = ~@]
    /\ UNCHANGED <<pull, rules, memory, storeLoaded, notifier, dmChannel, received, doubtful, interrupted, warranted,
                   restarts, attempts>>

Stops ==
    /\ restarts < MaxStops
    /\ restarts' = restarts + 1
    /\ storeLoaded' = FALSE
    /\ memory' = [notified |-> {}, pending |-> {}]
    /\ notifier' = Started
    /\ dmChannel' = "none"
    /\ interrupted' = IF notifier.pc \in {"sends", "clears"} THEN interrupted \cup {notifier.one} ELSE interrupted
    /\ UNCHANGED <<pull, rules, state_file, received, doubtful, warranted, attempts>>

NotifierNext ==
    \/ pollOnce \/ ReadsOwners \/ RepoFails \/ Selects \/ notify \/ markNotified \/ clearPending \/ RepoEnds \/ CycleEnds
    \/ \E r \in Repos : ListsRepo(r)
    \/ \E p \in PullRequests : ReadsFiles(p) \/ markPending(p) \/ PullChanges(p)
    \/ ChannelGoesStale \/ FileChanges \/ Stops

NotifierSpec == NotifierInit /\ [][NotifierNext]_notifierVars

-----------------------------------------------------------------------------
\* A pull request gets one message, whatever write fails and whenever the process ends; a
\* second one only when Slack received the first and reported an error (deliver).
MessagedOnce == \A p \in PullRequests : received[p] > 1 => p \in doubtful

\* What was sent has a marker in the file, unless the send reported an error.
SentIsMarked ==
    \A p \in PullRequests \ doubtful :
        received[p] > 0 => p \in state_file.markers.notified \cup state_file.markers.pending

\* A marker without a message is that of a message under way, or of one that was interrupted
\* or could not be taken back: no other failure silences a pull request.
SilenceHasACause ==
    \A p \in state_file.markers.notified \cup state_file.markers.pending :
        \/ received[p] > 0 \/ p \in interrupted
        \/ notifier.pc \in {"sends", "clears"} /\ notifier.one = p

\* A pull request that merges by itself is not messaged, whatever changes while the poll reads
\* labels, owners and files: it lacked the label, or touched an owned path, during the poll.
OnlyForAPerson == notifier.selected \subseteq warranted

\* "The marker outlives the failed send: the PR stays suppressed" when it could not be cleared.
UnclearedStaysSuppressed ==
    \A p \in interrupted : storeLoaded => has(p)

\* A review request is messaged once, only to a person, and silence always has a cause that is
\* on file (integrations/src/github/reviewNotifier.ts).
ReviewersHearOnce ==
    /\ NotifierTypeOK
    /\ MessagedOnce
    /\ SentIsMarked
    /\ SilenceHasACause
    /\ OnlyForAPerson

=============================================================================
