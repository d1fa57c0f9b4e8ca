-------------------------------- MODULE Store --------------------------------
(***************************************************************************)
(* The database file of an agent home: opening it (the backup, then the    *)
(* migrations in one transaction, persistence/schema.rs) and the commands  *)
(* its one thread runs that span several tables or rows                    *)
(* (persistence/secrets.rs, persistence/agents.rs).  A process crash may   *)
(* come between any two statements.  SQLite itself is taken to keep its    *)
(* promise: what was not committed is gone after a crash.                  *)
(***************************************************************************)
EXTENDS Naturals, FiniteSets

CONSTANTS StoreAgents,      \* agent incarnations, in any order of creation
          ManifestSets,     \* the sets of secret names a manifest may ask for
          FirstFiles,       \* the database files a home may hold at first
          BackupTimes,      \* readings of the system clock
          MaxWrites         \* bound: commands run in all

VERSION == 7
Unnamed == "unnamed"                  \* the one login of earlier schemas
Default == "default"
HostKey == "host key"

\* What each migration adds to the schema; the sixth only renames rows.
Added == <<{"baseline"}, {"session columns", "activity reports"}, {"selections"},
           {"deletion"}, {"archive"}, {}, {"mounts"}>>

SchemaOf(version) == UNION {Added[v] : v \in 1..version}

Secret == ({"login"} \X {Unnamed, Default, "work"})
            \cup (StoreAgents \X ((UNION ManifestSets) \cup {HostKey}))

File == [version : 0..(VERSION + 1), schema : SUBSET (SchemaOf(VERSION) \cup {"unexpected"}),
         instructions : {"none", "null", "object", "array", "other"},
         model : {"none", "recorded"},
         agents : SUBSET StoreAgents, gone : SUBSET StoreAgents,
         accounts : SUBSET {Unnamed, Default, "work"}, secrets : SUBSET Secret]

\* An account and its credential are there together or not at all.
HasItsCredentials(f) ==
    \A login \in {Unnamed, Default, "work"} : login \in f.accounts <=> <<"login", login>> \in f.secrets

SecretsOf(f, a) == {s[2] : s \in {t \in f.secrets : t[1] = a}} \ {HostKey}
HasWholeManifests(f) == \A a \in StoreAgents : SecretsOf(f, a) \in ManifestSets \cup {{}}
HasNoneOfTheGone(f) == f.agents \cap f.gone = {} /\ \A s \in f.secrets : s[1] \notin f.gone

\* The instructions are a list since version 2, the logins have names since version 6.
IsOfItsVersion(f) ==
    /\ f.version >= 2 => f.instructions \in {"none", "array"}
    /\ f.version >= 6 => Unnamed \notin f.accounts

ASSUME StoreConstants ==
    /\ "login" \notin StoreAgents /\ HostKey \notin UNION ManifestSets /\ BackupTimes \subseteq Nat
    /\ \A f \in FirstFiles :
         f \in File /\ HasItsCredentials(f) /\ HasWholeManifests(f) /\ HasNoneOfTheGone(f) /\ IsOfItsVersion(f)

VARIABLES file,       \* what is committed
          phase,      \* where opening the file has come to
          work,       \* the open transaction: its command, its next statement, what it made of the file
          backups,    \* files of the backups directory
          stepped,    \* the clock has been stepped back since a backup was taken
          writes      \* commands run

storeVars == <<file, phase, work, backups, stepped, writes>>

NoWork == [does |-> "none"]

StoreTypeOK ==
    /\ file \in File
    /\ phase \in {"closed", "backing up", "pruning", "initializing", "migrating", "open"}
    /\ (work # NoWork) => work.made \in File
    /\ (phase = "migrating") => work # NoWork
    /\ \A b \in backups : b.time \in BackupTimes /\ b.of \in File
    /\ \A b, c \in backups : b.time = c.time => b = c

StoreInit ==
    /\ file \in FirstFiles
    /\ phase = "closed" /\ work = NoWork /\ backups = {} /\ stepped = FALSE /\ writes = 0

(***************************************************************************)
(* Opening.  An older file is copied to backups/ before anything else; the *)
(* copy is not whole until VACUUM INTO has ended, and then all but the     *)
(* three newest files by the time in their names are removed, one by one.  *)
(***************************************************************************)
PendingVersion == file.version \in 1..(VERSION - 1)

Connects ==
    /\ phase = "closed"
    /\ phase' = IF PendingVersion THEN "backing up" ELSE "initializing"
    /\ UNCHANGED <<file, work, backups, stepped, writes>>

BeginsBackup ==
    /\ phase = "backing up"
    /\ \A b \in backups : b.kind # "copying"
    /\ \E time \in BackupTimes \ {b.time : b \in backups} :
         /\ backups' = backups \cup {[time |-> time, of |-> file, kind |-> "copying"]}
         /\ stepped' = (stepped \/ \E b \in backups : b.time > time)
    /\ UNCHANGED <<file, phase, work, writes>>

EndsBackup ==
    /\ phase = "backing up"
    /\ \E b \in backups :
         /\ b.kind = "copying"
         /\ backups' = (backups \ {b}) \cup {[b EXCEPT !.kind = "whole"]}
    /\ phase' = "pruning"
    /\ UNCHANGED <<file, work, stepped, writes>>

Oldest == CHOOSE b \in backups : \A c \in backups : b.time <= c.time

PrunesBackups ==
    /\ phase = "pruning"
    /\ IF Cardinality(backups) > 3
       THEN backups' = backups \ {Oldest} /\ UNCHANGED phase
       ELSE phase' = "initializing" /\ UNCHANGED backups
    /\ UNCHANGED <<file, work, stepped, writes>>

(***************************************************************************)
(* initialize: a newer file, an unversioned one with tables and a file of  *)
(* an unknown schema are refused; the daemon that opened it exits.         *)
(***************************************************************************)
StoreRefused ==
    \/ file.version > VERSION
    \/ file.version = 0 /\ file.schema # {}
    \/ file.version = VERSION /\ file.schema # SchemaOf(VERSION)

Initializes ==
    /\ phase = "initializing"
    /\ phase' = IF StoreRefused THEN "closed" ELSE IF file.version = VERSION THEN "open" ELSE "migrating"
    /\ work' = IF phase' = "migrating"
                 THEN [does |-> "migrate", at |-> file.version + 1, made |-> file]
                 ELSE NoWork
    /\ UNCHANGED <<file, backups, stepped, writes>>

\* A migration whose schema is already there, as in a development build's file, is skipped.
Adds(made, version) ==
    IF made.schema = SchemaOf(version)
      THEN {made}
      ELSE IF Added[version] \cap made.schema # {}
             THEN {}                                  \* the column is there: the statement fails
             ELSE {[made EXCEPT !.schema = @ \cup Added[version]]}

\* The instructions become a list also in a file whose tables are of version 2 already.
WithInstructionList(made) ==
    CASE made.instructions = "other" -> {}
      [] made.instructions \in {"null", "object"} -> {[made EXCEPT !.instructions = "array"]}
      [] OTHER -> {made}

add_session_management(made) ==
    IF \/ made.schema = SchemaOf(2)
       \/ made.schema \in {SchemaOf(1), SchemaOf(1) \cup {"activity reports"}}
      THEN {[m EXCEPT !.schema = SchemaOf(2)] : m \in WithInstructionList(made)}
      ELSE {}

add_session_selections(made) ==
    {IF made.schema = SchemaOf(3) THEN m ELSE [m EXCEPT !.model = "recorded"] : m \in Adds(made, 3)}

Named(login) == IF login = Unnamed THEN Default ELSE login

name_harness_logins(made) ==
    {[made EXCEPT !.accounts = {Named(a) : a \in @},
                  !.secrets = {IF s[1] = "login" THEN <<"login", Named(s[2])>> ELSE s : s \in @}]}

Migrated(made, version) ==
    CASE version = 1 -> {[made EXCEPT !.schema = SchemaOf(1)]}
      [] version = 2 -> add_session_management(made)
      [] version = 3 -> add_session_selections(made)
      [] version = 6 -> name_harness_logins(made)
      [] OTHER -> Adds(made, version)

\* Each migration in a transaction of its own.
AppliesMigration_InPlace ==
    /\ phase = "migrating" /\ work.at <= VERSION
    /\ UNCHANGED <<backups, stepped, writes>>
    /\ IF Migrated(work.made, work.at) = {}
       THEN phase' = "closed" /\ work' = NoWork /\ UNCHANGED file
       ELSE /\ \E made \in Migrated(work.made, work.at) :
                 work' = [work EXCEPT !.at = @ + 1, !.made = made] /\ file' = made
            /\ UNCHANGED phase

\* One pending migration, in the transaction; its failure ends the open.
AppliesMigration ==
    /\ phase = "migrating" /\ work.at <= VERSION
    /\ UNCHANGED <<file, backups, stepped, writes>>
    /\ IF Migrated(work.made, work.at) = {}
       THEN phase' = "closed" /\ work' = NoWork
       ELSE /\ \E made \in Migrated(work.made, work.at) :
                 work' = [work EXCEPT !.at = @ + 1, !.made = made]
            /\ UNCHANGED phase

\* What a migration made is the schema, or nothing of it is kept.
Commits(made) == file' = [made EXCEPT !.version = VERSION]

VerifiesMigration ==
    /\ phase = "migrating" /\ work.at > VERSION
    /\ IF work.made.schema = SchemaOf(VERSION)
       THEN Commits(work.made) /\ phase' = "open"
       ELSE phase' = "closed" /\ UNCHANGED file
    /\ work' = NoWork
    /\ UNCHANGED <<backups, stepped, writes>>

(***************************************************************************)
(* The commands.  The thread runs one at a time; each that makes several   *)
(* statements makes them in a transaction, here `work`.                    *)
(***************************************************************************)
Runs(does, of, set) ==
    /\ phase = "open" /\ work = NoWork /\ writes < MaxWrites
    /\ writes' = writes + 1
    /\ work' = [does |-> does, of |-> of, set |-> set, at |-> 1, made |-> file]
    /\ UNCHANGED <<file, phase, backups, stepped>>

Statement(does, at, made) ==
    /\ phase = "open" /\ work # NoWork /\ work.does = does /\ work.at = at
    /\ work' = [work EXCEPT !.at = @ + 1, !.made = made]
    /\ UNCHANGED <<file, phase, backups, stepped, writes>>

\* The command of a session's agent pass: only passes of an agent that is there run it.
put ==
    \E a \in StoreAgents \ (file.agents \cup file.gone) : Runs("create", a, {})

InsertsAgent == /\ work # NoWork
                /\ Statement("create", 1, [work.made EXCEPT !.agents = @ \cup {work.of}])

replace_agent_secrets ==
    \E a \in file.agents, names \in ManifestSets : Runs("replace", a, names)

\* Without the transaction each statement would be its own.
SetsSecrets_Autocommit ==
    /\ work # NoWork /\ work.does = "replace" /\ work.at = 1
    /\ file' = [file EXCEPT !.secrets = @ \cup ({work.of} \X work.set)]
    /\ work' = [work EXCEPT !.at = @ + 1, !.made = file']
    /\ UNCHANGED <<phase, backups, stepped, writes>>

SetsSecrets ==
    /\ work # NoWork /\ work.does = "replace"
    /\ Statement("replace", 1, [work.made EXCEPT !.secrets = @ \cup ({work.of} \X work.set)])

\* The rows named agent/<id>/..., which the host key's row is not.
Prefixed(a) == {s \in Secret : s[1] = a /\ s[2] # HostKey}

DeletesStale ==
    /\ work # NoWork /\ work.does = "replace"
    /\ Statement("replace", 2,
         [work.made EXCEPT !.secrets = @ \ (Prefixed(work.of) \ ({work.of} \X work.set))])

store_host_key == \E a \in file.agents : Runs("key", a, {})

SetsHostKey ==
    /\ work # NoWork
    /\ Statement("key", 1, [work.made EXCEPT !.secrets = @ \cup {<<work.of, HostKey>>}])

finalizes == \E a \in file.agents : Runs("finalize", a, {})

ReleasesName ==
    /\ work # NoWork
    /\ Statement("finalize", 1, [work.made EXCEPT !.agents = @ \ {work.of}, !.gone = @ \cup {work.of}])

DeletesAgentSecrets ==
    /\ work # NoWork /\ work.does = "finalize"
    /\ Statement("finalize", 2, [work.made EXCEPT !.secrets = @ \ Prefixed(work.of)])

DeletesHostKey ==
    /\ work # NoWork
    /\ Statement("finalize", 3, [work.made EXCEPT !.secrets = @ \ {<<work.of, HostKey>>}])

put_provider_account == \E login \in {Default, "work"} : Runs("put_account", login, {})

SetsCredential ==
    /\ work # NoWork
    /\ Statement("put_account", 1, [work.made EXCEPT !.secrets = @ \cup {<<"login", work.of>>}])

InsertsAccount ==
    /\ work # NoWork
    /\ Statement("put_account", 2, [work.made EXCEPT !.accounts = @ \cup {work.of}])

delete_provider_account == \E login \in {Default, "work"} : Runs("delete_account", login, {})

DeletesCredential ==
    /\ work # NoWork
    /\ Statement("delete_account", 1, [work.made EXCEPT !.secrets = @ \ {<<"login", work.of>>}])

DeletesAccount ==
    /\ work # NoWork
    /\ Statement("delete_account", 2, [work.made EXCEPT !.accounts = @ \ {work.of}])

Statements(does) == CASE does \in {"create", "key"} -> 1
                      [] does = "finalize" -> 3
                      [] OTHER -> 2

CommitsCommand ==
    /\ phase = "open" /\ work # NoWork /\ work.at > Statements(work.does)
    /\ file' = work.made /\ work' = NoWork
    /\ UNCHANGED <<phase, backups, stepped, writes>>

\* A statement fails: the transaction is rolled back and the caller has the error.
CommandFails ==
    /\ phase = "open" /\ work # NoWork
    /\ work' = NoWork
    /\ UNCHANGED <<file, phase, backups, stepped, writes>>

\* The process ends; what was copied of an unfinished backup stays in the directory.
Crashes ==
    /\ phase # "closed"
    /\ phase' = "closed" /\ work' = NoWork
    /\ backups' = {IF b.kind = "copying" THEN [b EXCEPT !.kind = "partial"] ELSE b : b \in backups}
    /\ UNCHANGED <<file, stepped, writes>>

Opening == \/ Connects \/ BeginsBackup \/ EndsBackup \/ PrunesBackups
           \/ Initializes \/ AppliesMigration \/ VerifiesMigration

Commands == \/ put \/ replace_agent_secrets \/ store_host_key \/ finalizes
            \/ put_provider_account \/ delete_provider_account
            \/ CommitsCommand \/ CommandFails

InCommand == \/ InsertsAgent \/ SetsSecrets \/ DeletesStale \/ SetsHostKey
             \/ ReleasesName \/ DeletesAgentSecrets \/ DeletesHostKey
             \/ SetsCredential \/ InsertsAccount \/ DeletesCredential \/ DeletesAccount

StoreNext == Opening \/ Commands \/ InCommand \/ Crashes

StoreSpec == StoreInit /\ [][StoreNext]_storeVars

(***************************************************************************)
(* Properties.                                                             *)
(***************************************************************************)
\* A file the daemon works with has every migration, whatever earlier release or
\* development build wrote it and however often opening it was cut short.
OpenIsMigrated ==
    phase = "open" =>
      /\ file.version = VERSION /\ file.schema = SchemaOf(VERSION)
      /\ file.instructions \in {"none", "array"}
      /\ Unnamed \notin file.accounts

\* An account and its credential are there together or not at all, in every committed
\* state: signing in, signing out and the renaming of logins keep them together.
AccountHasItsCredential == HasItsCredentials(file)

\* The secrets of an agent are those of one of its manifests, never of two halves.
SecretsAreOfOneManifest == HasWholeManifests(file)

\* Nothing secret of an agent is left once its name is released, and no agent has a released name.
GoneLeavesNoSecret == HasNoneOfTheGone(file)

\* Replacing an agent's secrets, and deleting another agent, keep its host key, by which
\* clients know the agent.
HostKeyIsKept ==
    [][\A a \in file'.agents :
         <<a, HostKey>> \in file.secrets => <<a, HostKey>> \in file'.secrets]_storeVars

\* An open that fails, or a crash inside one, leaves the file as it was.
FailedOpenChangesNothing ==
    [][phase # "open" /\ file' # file => phase' = "open"]_storeVars

\* When migrations are committed, a whole copy of the file as it was is in backups/, unless
\* the clock was stepped back, for the pruning goes by the time in the names.
BackedUpBeforeMigration ==
    [][(file' # file /\ phase = "migrating" /\ file.version > 0 /\ ~stepped) =>
         \E b \in backups : b.kind = "whole" /\ b.of = file]_storeVars

\* An open store has the current schema, accounts come with their credentials, an agent's
\* secrets are those of one manifest, and a deleted agent leaves none (persistence/).
StoreIsConsistent ==
    /\ StoreTypeOK
    /\ OpenIsMigrated
    /\ AccountHasItsCredential
    /\ SecretsAreOfOneManifest
    /\ GoneLeavesNoSecret

==============================================================================
