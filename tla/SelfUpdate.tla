----------------------------- MODULE SelfUpdate -----------------------------
(***************************************************************************)
(* An upgrade of a managed installation: `agentctl self update` and the    *)
(* target's __complete-update (self_update.rs, upgrade.rs), the schema     *)
(* migration (persistence), the daemon's start (agentd.rs) and the pass    *)
(* that stops every session once (sessions/service.rs).                    *)
(*                                                                         *)
(* Updaters run concurrently, and any process may die between two steps.   *)
(* A release is its version, and each version has a schema of its own.     *)
(***************************************************************************)
EXTENDS Naturals, FiniteSets

CONSTANTS
    Updaters,      \* agentctl processes
    MaxVersion,    \* releases are 1..MaxVersion; 1 is installed at first
    Live,          \* sessions that are neither archived nor being released
    MaxDeaths      \* bound on processes that die

ASSUME SelfUpdateConstants ==
    /\ IsFiniteSet(Updaters)
    /\ {"free", "agentd"} \cap Updaters = {}
    /\ MaxVersion \in Nat \ {0}
    /\ IsFiniteSet(Live)
    /\ MaxDeaths \in Nat

VARIABLES
    releases,      \* directories under releases/
    current,       \* the release the pointer names
    journal,       \* update.json, or NoJournal once it is complete
    marker,        \* the build pending-session-relaunch.json names, or 0
    schema,        \* user_version of the database
    installLock,   \* holder of install.lock
    homeLock,      \* holder of agentd.lock
    spawned,       \* daemon processes started and not yet past the lock
    daemon,        \* the daemon that holds the lock
    updater,       \* the agentctl processes
    runtime,       \* each session's harness: 0, or the build that launched it
    attached,      \* sessions with a terminal
    deaths,        \* processes that died so far
    discarded      \* a journal was discarded after its migration had committed (history)

updateVars == <<releases, current, journal, marker, schema, installLock, homeLock, spawned,
                daemon, updater, runtime, attached, deaths, discarded>>

Versions == 1..MaxVersion
Free == "free"
Agentd == "agentd"
NoJournal == [target |-> 0, previous |-> 0, phase |-> "Complete"]
NoDaemon == [version |-> 0, pc |-> "off", todo |-> {}]
Resting == [pc |-> "rests", target |-> 0, previous |-> 0]

Phases == {"Prepared", "Migrated", "Activated", "Complete"}
UpdaterPCs == {"rests", "looks", "downloads", "stages", "locks", "checks", "waits for home", "writes journal", "migrates",
               "marks", "records migration", "activates", "records activation", "starts", "verifies", "prunes"}

UpdateTypeOK ==
    /\ releases \subseteq Versions
    /\ current \in Versions
    /\ journal \in [target : 0..MaxVersion, previous : 0..MaxVersion, phase : Phases]
    /\ marker \in 0..MaxVersion
    /\ schema \in Versions
    /\ installLock \in Updaters \cup {Free}
    /\ homeLock \in Updaters \cup {Free, Agentd}
    /\ spawned \subseteq Versions
    /\ daemon \in [version : 0..MaxVersion, pc : {"off", "relaunches", "stops", "serves", "drains"}, todo : SUBSET Live]
    /\ updater \in [Updaters -> [pc : UpdaterPCs, target : 0..MaxVersion, previous : 0..MaxVersion]]
    /\ runtime \in [Live -> 0..MaxVersion]
    /\ attached \subseteq Live
    /\ deaths \in 0..MaxDeaths
    /\ discarded \in BOOLEAN
    /\ homeLock = Agentd <=> daemon.pc # "off"

UpdateInit ==
    /\ releases = {1}
    /\ current = 1
    /\ journal = NoJournal
    /\ marker = 0
    /\ schema = 1
    /\ installLock = Free
    /\ homeLock = Agentd
    /\ spawned = {}
    /\ daemon = [NoDaemon EXCEPT !.version = 1, !.pc = "serves"]
    /\ updater = [u \in Updaters |-> Resting]
    /\ runtime \in [Live -> {0, 1}]
    /\ attached = {}
    /\ deaths = 0
    /\ discarded = FALSE

-----------------------------------------------------------------------------
(* The updater.                                                            *)

Steps(u, pc) == updater' = [updater EXCEPT ![u].pc = pc]

Freed(lock, u) == IF lock = u THEN Free ELSE lock

\* The process ends, and with it its locks.
Ends(u) ==
    /\ updater' = [updater EXCEPT ![u] = Resting]
    /\ installLock' = Freed(installLock, u)
    /\ homeLock' = Freed(homeLock, u)

Unfinished == journal.phase # "Complete"

\* UpdateJournal::validate: the releases it names still exist.
Validates == {journal.target, journal.previous} \ {0} \subseteq releases

\* resume_pending_before_command, and the first lines of update: an unfinished
\* journal is completed by its own target before anything else is done.
Resumes(u) ==
    /\ updater[u].pc = "rests"
    /\ Unfinished /\ Validates
    /\ updater' = [updater EXCEPT ![u] =
            [pc |-> "locks", target |-> journal.target, previous |-> journal.previous]]
    /\ UNCHANGED <<releases, current, journal, marker, schema, installLock, homeLock, spawned, daemon,
                   runtime, attached, deaths, discarded>>

\* update resolves a release and compares it with the current one; no lock is held.
Updates(u, v) ==
    /\ updater[u].pc = "rests"
    /\ ~Unfinished
    /\ v > current
    /\ updater' = [updater EXCEPT ![u] = [pc |-> "looks", target |-> v, previous |-> current]]
    /\ UNCHANGED <<releases, current, journal, marker, schema, installLock, homeLock, spawned, daemon,
                   runtime, attached, deaths, discarded>>

\* stage_release looks for the release under the lock, and downloads it without.
LooksForRelease(u) ==
    /\ updater[u].pc = "looks"
    /\ installLock = Free
    /\ Steps(u, IF updater[u].target \in releases THEN "locks" ELSE "downloads")
    /\ UNCHANGED <<releases, current, journal, marker, schema, installLock, homeLock, spawned, daemon,
                   runtime, attached, deaths, discarded>>

\* download, verify_checksum and extract_archive, into a temporary directory.
Downloads(u) ==
    /\ updater[u].pc = "downloads"
    /\ Steps(u, "stages")
    /\ UNCHANGED <<releases, current, journal, marker, schema, installLock, homeLock, spawned, daemon,
                   runtime, attached, deaths, discarded>>

\* publish_release: one rename under the lock, unless somebody else published it.
Stages(u) ==
    /\ updater[u].pc = "stages"
    /\ installLock = Free
    /\ releases' = releases \cup {updater[u].target}
    /\ Steps(u, "locks")
    /\ UNCHANGED <<current, journal, marker, schema, installLock, homeLock, spawned, daemon,
                   runtime, attached, deaths, discarded>>

\* The journal complete works on: the one it reads under the lock, or a new one.
Continues(u) ==
    Unfinished => /\ Validates
                  /\ journal.target = updater[u].target
                  /\ journal.previous = updater[u].previous

Locks_Unvalidated(u) ==
    /\ updater[u].pc = "locks"
    /\ installLock = Free
    /\ Continues(u)
    /\ installLock' = u
    /\ Steps(u, "checks")
    /\ UNCHANGED <<releases, current, journal, marker, schema, homeLock, spawned, daemon,
                   runtime, attached, deaths, discarded>>

\* complete takes install.lock, validates the target it runs from and reads the journal.
Locks(u) ==
    /\ updater[u].pc = "locks"
    /\ installLock = Free
    /\ updater[u].target \in releases
    /\ Continues(u)
    /\ installLock' = u
    /\ Steps(u, "checks")
    /\ UNCHANGED <<releases, current, journal, marker, schema, homeLock, spawned, daemon,
                   runtime, attached, deaths, discarded>>

\* The phase on disk, as complete knows it: its own new journal counts as Prepared.
Before(phase) ==
    CASE phase = "Migrated" -> journal.phase \in {"Prepared", "Complete"}
      [] phase = "Activated" -> journal.phase \in {"Prepared", "Migrated", "Complete"}

\* The health check and, when a daemon answers, its shutdown for the upgrade.  A
\* daemon that is starting or draining has no socket to answer on.
ChecksReadiness(u) ==
    /\ updater[u].pc = "checks"
    /\ daemon' = IF Before("Migrated") /\ daemon.pc = "serves"
                 THEN [daemon EXCEPT !.pc = "drains"] ELSE daemon
    /\ Before("Migrated") /\ daemon.pc = "serves" => attached = {}
    /\ Steps(u, IF Before("Activated") THEN "waits for home" ELSE "starts")
    /\ UNCHANGED <<releases, current, journal, marker, schema, installLock, homeLock, spawned,
                   runtime, attached, deaths, discarded>>

\* acquire_home_lock: no daemon runs from here to the activation.
TakesHome(u) ==
    /\ updater[u].pc = "waits for home"
    /\ homeLock = Free
    /\ homeLock' = u
    /\ Steps(u, IF Unfinished THEN IF journal.phase = "Prepared" THEN "migrates" ELSE "activates"
                              ELSE "writes journal")
    /\ UNCHANGED <<releases, current, journal, marker, schema, installLock, spawned, daemon,
                   runtime, attached, deaths, discarded>>

WritesJournal(u) ==
    /\ updater[u].pc = "writes journal"
    /\ journal' = [target |-> updater[u].target, previous |-> updater[u].previous, phase |-> "Prepared"]
    /\ Steps(u, "migrates")
    /\ UNCHANGED <<releases, current, marker, schema, installLock, homeLock, spawned, daemon,
                   runtime, attached, deaths, discarded>>

\* initialize: a newer schema is refused, an older one migrated in one transaction.
Openable(v) == schema <= v

Migrates(u) ==
    /\ updater[u].pc = "migrates"
    /\ Openable(updater[u].target)
    /\ schema' = updater[u].target
    /\ Steps(u, "marks")
    /\ UNCHANGED <<releases, current, journal, marker, installLock, homeLock, spawned, daemon,
                   runtime, attached, deaths, discarded>>

\* migrate_state: the open fails and leaves the schema as it was, the journal is discarded
\* and the previous daemon started again.  An attempt that resumes an update may fail
\* after an earlier one had committed.
MigrationFails(u) ==
    /\ updater[u].pc = "migrates"
    /\ journal' = NoJournal
    /\ discarded' = (discarded \/ schema = updater[u].target)
    /\ spawned' = IF updater[u].previous \in releases THEN spawned \cup {updater[u].previous} ELSE spawned
    /\ Ends(u)
    /\ UNCHANGED <<releases, current, marker, schema, daemon, runtime, attached, deaths>>

Marks(u) ==
    /\ updater[u].pc = "marks"
    /\ marker' = updater[u].target
    /\ Steps(u, "records migration")
    /\ UNCHANGED <<releases, current, journal, schema, installLock, homeLock, spawned, daemon,
                   runtime, attached, deaths, discarded>>

\* UpdateJournal::advance, durable before the next step.
Records(u, pc, phase, next) ==
    /\ updater[u].pc = pc
    /\ journal' = [journal EXCEPT !.phase = phase]
    /\ Steps(u, next)

RecordsMigration(u) ==
    /\ Records(u, "records migration", "Migrated", "activates")
    /\ UNCHANGED <<releases, current, marker, schema, installLock, homeLock, spawned, daemon,
                   runtime, attached, deaths, discarded>>

\* activate_release: one rename replaces the pointer.
Activates(u) ==
    /\ updater[u].pc = "activates"
    /\ current' = updater[u].target
    /\ Steps(u, "records activation")
    /\ UNCHANGED <<releases, journal, marker, schema, installLock, homeLock, spawned, daemon,
                   runtime, attached, deaths, discarded>>

\* The home lock is dropped once the activation is recorded.
RecordsActivation(u) ==
    /\ Records(u, "records activation", "Activated", "starts")
    /\ homeLock' = Freed(homeLock, u)
    /\ UNCHANGED <<releases, current, marker, schema, installLock, spawned, daemon,
                   runtime, attached, deaths, discarded>>

\* A healthy daemon of the target build, and no marker left.
target_ready(u) == daemon.pc = "serves" /\ daemon.version = updater[u].target /\ marker = 0

StartsTarget(u) ==
    /\ updater[u].pc = "starts"
    /\ spawned' = IF target_ready(u) THEN spawned ELSE spawned \cup {updater[u].target}
    /\ Steps(u, "verifies")
    /\ UNCHANGED <<releases, current, journal, marker, schema, installLock, homeLock, daemon,
                   runtime, attached, deaths, discarded>>

Verifies(u) ==
    /\ updater[u].pc = "verifies"
    /\ target_ready(u)
    /\ journal' = NoJournal
    /\ Steps(u, "prunes")
    /\ UNCHANGED <<releases, current, marker, schema, installLock, homeLock, spawned, daemon,
                   runtime, attached, deaths, discarded>>

\* prune_releases keeps the current and the previous release, and fails when the previous
\* one is gone.  The journal it reads is the completed one.
Prunes(u) ==
    /\ updater[u].pc = "prunes"
    /\ releases' = IF updater[u].previous \in releases
                   THEN releases \cap {current, updater[u].previous} ELSE releases
    /\ Ends(u)
    /\ UNCHANGED <<current, journal, marker, schema, spawned, daemon, runtime, attached, deaths, discarded>>

\* Every step may fail with an error, or run into its deadline, before it has an effect.
Fails(u) ==
    /\ updater[u].pc \notin {"rests", "migrates"}
    /\ Ends(u)
    /\ UNCHANGED <<releases, current, journal, marker, schema, spawned, daemon, runtime, attached, deaths, discarded>>

\* The process dies: nothing of what comes after the step happens.
UpdaterDies(u) ==
    /\ updater[u].pc # "rests"
    /\ deaths < MaxDeaths
    /\ deaths' = deaths + 1
    /\ Ends(u)
    /\ UNCHANGED <<releases, current, journal, marker, schema, spawned, daemon, runtime, attached, discarded>>

-----------------------------------------------------------------------------
(* The daemon.                                                             *)

\* ensure_daemon: a command of the current agentctl starts the agentd beside it.
CommandStartsDaemon ==
    /\ ~Unfinished
    /\ daemon.pc \notin {"serves"}
    /\ spawned' = spawned \cup {current}
    /\ UNCHANGED <<releases, current, journal, marker, schema, installLock, homeLock, daemon, updater,
                   runtime, attached, deaths, discarded>>

\* run: the home lock, then the database, which is migrated if it has to be.
DaemonStarts(v) ==
    /\ v \in spawned
    /\ homeLock = Free
    /\ spawned' = spawned \ {v}
    /\ IF Openable(v)
       THEN /\ homeLock' = Agentd
            /\ schema' = v
            /\ daemon' = [version |-> v, pc |-> "relaunches", todo |-> IF marker = 0 THEN {} ELSE Live]
       ELSE UNCHANGED <<homeLock, schema, daemon>>
    /\ UNCHANGED <<releases, current, journal, marker, installLock, updater, runtime, attached, deaths, discarded>>

\* Two seconds pass without the lock, or the executable was pruned.
SpawnEnds(v) ==
    /\ v \in spawned
    /\ spawned' = spawned \ {v}
    /\ UNCHANGED <<releases, current, journal, marker, schema, installLock, homeLock, daemon, updater,
                   runtime, attached, deaths, discarded>>

DaemonGone == daemon' = NoDaemon /\ homeLock' = Freed(homeLock, Agentd)

\* relaunch_sessions, one session: a missing harness is activated, a detached one
\* activated and then stopped.
RelaunchesSession(s) ==
    /\ daemon.pc = "relaunches"
    /\ marker = daemon.version
    /\ s \in daemon.todo \ attached
    /\ daemon' = [daemon EXCEPT !.todo = @ \ {s}]
    /\ runtime' = [runtime EXCEPT ![s] = 0]
    /\ UNCHANGED <<releases, current, journal, marker, schema, installLock, homeLock, spawned, updater,
                   attached, deaths, discarded>>

\* The pass fails: an attached session, a guest that does not answer, the minute's
\* timeout, or a marker of another build.  The daemon exits and keeps the marker.
RelaunchFails ==
    /\ daemon.pc = "relaunches"
    /\ marker # 0
    /\ DaemonGone
    /\ UNCHANGED <<releases, current, journal, marker, schema, installLock, spawned, updater,
                   runtime, attached, deaths, discarded>>

\* The marker is removed after the pass, and the server starts after that.
AcknowledgesPass ==
    /\ daemon.pc = "relaunches"
    /\ marker = daemon.version
    /\ daemon.todo = {}
    /\ daemon' = [daemon EXCEPT !.pc = "serves"]
    /\ marker' = 0
    /\ UNCHANGED <<releases, current, journal, schema, installLock, homeLock, spawned, updater,
                   runtime, attached, deaths, discarded>>

ServesAtOnce ==
    /\ daemon.pc = "relaunches"
    /\ marker = 0
    /\ daemon' = [daemon EXCEPT !.pc = "serves", !.todo = {}]
    /\ UNCHANGED <<releases, current, journal, marker, schema, installLock, homeLock, spawned, updater,
                   runtime, attached, deaths, discarded>>

DaemonExits ==
    /\ daemon.pc = "drains"
    /\ DaemonGone
    /\ UNCHANGED <<releases, current, journal, marker, schema, installLock, spawned, updater,
                   runtime, attached, deaths, discarded>>

DaemonDies ==
    /\ daemon.pc # "off"
    /\ deaths < MaxDeaths
    /\ deaths' = deaths + 1
    /\ DaemonGone
    /\ UNCHANGED <<releases, current, journal, marker, schema, installLock, spawned, updater,
                   runtime, attached, discarded>>

-----------------------------------------------------------------------------
(* Sessions: a serving daemon launches harnesses with its own hooks, and a *)
(* harness runs on in its VM when the daemon does not.                     *)

LaunchesHarness(s) ==
    /\ daemon.pc = "serves"
    /\ runtime[s] = 0
    /\ runtime' = [runtime EXCEPT ![s] = daemon.version]
    /\ UNCHANGED <<releases, current, journal, marker, schema, installLock, homeLock, spawned, daemon, updater,
                   attached, deaths, discarded>>

TogglesTerminal(s) ==
    /\ runtime[s] # 0
    /\ attached' = (attached \ {s}) \cup ({s} \ attached)
    /\ UNCHANGED <<releases, current, journal, marker, schema, installLock, homeLock, spawned, daemon, updater,
                   runtime, deaths, discarded>>

UpdaterStep(u) ==
    \/ Resumes(u) \/ \E v \in Versions : Updates(u, v)
    \/ LooksForRelease(u) \/ Downloads(u) \/ Stages(u) \/ Locks(u) \/ ChecksReadiness(u) \/ TakesHome(u) \/ WritesJournal(u)
    \/ Migrates(u) \/ MigrationFails(u) \/ Marks(u) \/ RecordsMigration(u)
    \/ Activates(u) \/ RecordsActivation(u) \/ StartsTarget(u) \/ Verifies(u) \/ Prunes(u)
    \/ Fails(u) \/ UpdaterDies(u)

UpdateNext ==
    \/ \E u \in Updaters : UpdaterStep(u)
    \/ CommandStartsDaemon
    \/ \E v \in Versions : DaemonStarts(v) \/ SpawnEnds(v)
    \/ \E s \in Live : RelaunchesSession(s) \/ LaunchesHarness(s) \/ TogglesTerminal(s)
    \/ RelaunchFails \/ AcknowledgesPass \/ ServesAtOnce \/ DaemonExits \/ DaemonDies

UpdateSpec == UpdateInit /\ [][UpdateNext]_updateVars

-----------------------------------------------------------------------------
\* The release the pointer names is never pruned, though an updater may finish with a
\* `previous` it read before another update (prune_releases).
CurrentIsInstalled == current \in releases

\* The journal is discarded "before migration has committed" (discard_before_migration):
\* whenever the database is ahead of the current release, an update is there to be resumed.
DiscardedBeforeMigration == schema <= current \/ Unfinished

\* The same, but for a resumed update whose second migration fails: in every other case,
\* whatever died or failed, the state is never left for a release that cannot open it.
StateIsServable == DiscardedBeforeMigration \/ discarded

\* The target of an unfinished journal is installed, so that the next command finds the
\* executable that completes it.  Its `previous` may be gone: it is read before install.lock
\* is taken, and two other updates may have pruned it since.
JournalIsResumable == Unfinished => journal.target \in releases

\* The updater migrates and activates alone: no daemon has the database open.
NobodyServesAMigration ==
    \A u \in Updaters :
        updater[u].pc \in {"migrates", "marks", "records migration", "activates", "records activation"}
            => daemon.pc = "off"

\* Once the target of an update serves, no session runs a harness an older release
\* launched, whatever died in between: the relaunch pass is never skipped.
HarnessesAreRelaunched ==
    daemon.pc = "serves" => \A s \in Live : runtime[s] \in {0, daemon.version}

\* At every step of an update, also after a crash, the current release is installed, the state
\* is one a release can serve, the journal names how to go on, and no daemon serves a state that
\* is being migrated (upgrade.rs, self_update.rs).
UpdateIsRecoverable ==
    /\ UpdateTypeOK
    /\ CurrentIsInstalled
    /\ StateIsServable
    /\ JournalIsResumable
    /\ NobodyServesAMigration
    /\ HarnessesAreRelaunched

=============================================================================
