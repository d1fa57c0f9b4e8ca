----------------------------- MODULE ImageCache -----------------------------
(***************************************************************************)
(* One image version in the cache of a Microsandbox Provider, the          *)
(* sandboxes that use it and the removal passes                            *)
(* (sandbox/microsandbox/src/image_cache.rs, image.rs, backend.rs).  The   *)
(* version's files stay while a catalog entry names it: its cache entry,   *)
(* a sandbox's entry, or a tag of a catalog from before sandboxes held     *)
(* their images.  Time is counted in ticks of the retention period.        *)
(***************************************************************************)
EXTENDS Naturals, FiniteSets

CONSTANTS
    CacheUsers,      \* ids of sandboxes that use the image version
    Retention,       \* ticks an unused image is kept
    MaxTime          \* bound on the clock

ASSUME ImageCacheConstants ==
    /\ Retention \in Nat \ {0} /\ MaxTime \in Nat \ {0}
    /\ {"cache", "tag"} \cap CacheUsers = {}

VARIABLES
    stored,          \* the version's files are in the cache
    cacheUsed,       \* when its cache entry was refreshed, 0 without an entry
    tagged,          \* an entry from before migration names it
    held,            \* sandboxes whose entry names it
    recorded,        \* sandboxes with a state record
    runtimes,        \* sandboxes whose runtime records using it
    task,            \* what is done for each sandbox
    sweep,           \* the removal pass
    home,            \* the provider: "closed", "migrating" or "open"
    migration,       \* the records migrated in this open, and whether each image was pinned
    migrated,        \* the marker of a migrated catalog
    now,             \* the clock
    everHeld,        \* sandboxes that held the image at some time
    lastUse          \* when the image was last recorded or released, 0 if never

catalogVars == <<stored, cacheUsed, tagged, held>>
cacheVars == <<catalogVars, recorded, runtimes, task, sweep, home, migration, migrated, now, everHeld, lastUse>>

TaskPCs == {"none", "fetches", "writes", "saves", "holds", "tags", "boots", "stopped", "releases", "untags",
            "removes record", "gone"}
CacheEntries == CacheUsers \cup {"cache", "tag"}

Idle == [pc |-> "idle", recorded |-> {}, unused |-> {}]
Task(pc, goal) == [pc |-> pc, goal |-> goal, again |-> FALSE, reuses |-> FALSE]

\* Every variable has a value of its kind; no entry is from the future.
CacheTypeOK ==
    /\ {stored, tagged, migrated} \subseteq BOOLEAN
    /\ {cacheUsed, now, lastUse} \subseteq 0..MaxTime
    /\ {held, recorded, runtimes, everHeld} \subseteq SUBSET CacheUsers
    /\ task \in [CacheUsers -> [pc : TaskPCs, goal : {"create", "start"}, again : BOOLEAN, reuses : BOOLEAN]]
    /\ sweep \in [pc : {"idle", "reads", "lists", "removes"}, recorded : SUBSET CacheUsers, unused : SUBSET CacheEntries]
    /\ home \in {"closed", "migrating", "open"}
    /\ cacheUsed <= now /\ lastUse <= now

\* A home from before sandboxes held their images, or a new one.
CacheInit ==
    /\ stored \in BOOLEAN
    /\ tagged \in BOOLEAN /\ (tagged => stored)
    /\ recorded \in SUBSET CacheUsers
    /\ runtimes \in SUBSET recorded
    /\ cacheUsed = 0 /\ held = {} /\ everHeld = {} /\ lastUse = 0
    /\ task = [b \in CacheUsers |-> Task(IF b \in recorded THEN "stopped" ELSE "none", "create")]
    /\ sweep = Idle
    /\ home = "closed"
    /\ migration = [done |-> {}, pinned |-> TRUE]
    /\ migrated = FALSE
    /\ now = 1

-----------------------------------------------------------------------------
\* The RwLock of the cache: shared by fetches, exclusive to a removal pass.
Reading == \E b \in CacheUsers : task[b].pc \in {"writes", "tags"}
CanRead == sweep.pc = "idle"

Does(b, pc) == home = "open" /\ task[b].pc = pc
Becomes(b, pc) == task' = [task EXCEPT ![b].pc = pc]

Named == held \cup (IF cacheUsed # 0 THEN {"cache"} ELSE {}) \cup (IF tagged THEN {"tag"} ELSE {})

\* Image::remove_local: refused while a runtime uses the image; the last entry takes the files.
remove_local(e) ==
    IF runtimes # {} \/ e \notin Named THEN UNCHANGED catalogVars
    ELSE /\ cacheUsed' = IF e = "cache" THEN 0 ELSE cacheUsed
         /\ tagged' = (tagged /\ e # "tag")
         /\ held' = held \ {e}
         /\ stored' = (stored /\ (cacheUsed' # 0 \/ tagged' \/ held' # {}))

-----------------------------------------------------------------------------
(* ImageCache::record, for resolve and import_prepared_image.              *)

Resolves(b) ==
    /\ Does(b, "none")
    /\ task' = [task EXCEPT ![b] = Task("fetches", "create")]
    /\ UNCHANGED <<catalogVars, recorded, runtimes, sweep, home, migration, migrated, now, everHeld, lastUse>>

Fetches_Unchecked(b) ==
    /\ Does(b, "fetches")
    /\ CanRead
    /\ task' = [task EXCEPT ![b].pc = "writes", ![b].reuses = TRUE]
    /\ UNCHANGED <<catalogVars, recorded, runtimes, sweep, home, migration, migrated, now, everHeld, lastUse>>

\* The fetch reuses what is cached, within the lock and the operation that read it.
Fetches(b) ==
    /\ Does(b, "fetches")
    /\ CanRead
    /\ task' = [task EXCEPT ![b].pc = "writes", ![b].reuses = stored]
    /\ UNCHANGED <<catalogVars, recorded, runtimes, sweep, home, migration, migrated, now, everHeld, lastUse>>

\* write_entry names the version, whose files were fetched unless they were there.
RecordsImage(b) ==
    /\ Does(b, "writes")
    /\ cacheUsed' = now
    /\ lastUse' = now
    /\ stored' = (stored \/ ~task[b].reuses)
    /\ Becomes(b, IF task[b].again THEN "holds" ELSE "saves")
    /\ UNCHANGED <<tagged, held, recorded, runtimes, sweep, home, migration, migrated, now, everHeld>>

\* The build, the pull or the import fails: there is no sandbox yet, or its creation ends.
FetchFails(b) ==
    /\ task[b].pc \in {"fetches", "writes"}
    /\ recorded' = IF task[b].again /\ task[b].goal = "create" THEN recorded \ {b} ELSE recorded
    /\ Becomes(b, IF b \in recorded' THEN "stopped" ELSE "none")
    /\ UNCHANGED <<catalogVars, runtimes, sweep, home, migration, migrated, now, everHeld, lastUse>>

-----------------------------------------------------------------------------
(* create_record, and ImageCache::hold.                                    *)

SavesRecord(b) ==
    /\ Does(b, "saves")
    /\ recorded' = recorded \cup {b}
    /\ Becomes(b, "holds")
    /\ UNCHANGED <<catalogVars, runtimes, sweep, home, migration, migrated, now, everHeld, lastUse>>

AfterHold(b) == IF task[b].goal = "start" THEN "boots" ELSE "stopped"

\* An entry that names the image is found, the sandbox's own or another.
Looks(b) ==
    /\ Does(b, "holds")
    /\ CanRead
    /\ Named # {}
    /\ Becomes(b, IF b \in held THEN AfterHold(b) ELSE "tags")
    /\ UNCHANGED <<catalogVars, recorded, runtimes, sweep, home, migration, migrated, now, everHeld, lastUse>>

\* The image is not in the cache: a reference is fetched again by its digest, once.
FetchesAgain(b) ==
    /\ Does(b, "holds")
    /\ CanRead
    /\ Named = {} /\ ~task[b].again
    /\ task' = [task EXCEPT ![b].pc = "fetches", ![b].again = TRUE]
    /\ UNCHANGED <<catalogVars, recorded, runtimes, sweep, home, migration, migrated, now, everHeld, lastUse>>

\* A built image cannot be fetched again; a creation takes its record back.
HoldFailsFor(b) ==
    /\ Does(b, "holds")
    /\ CanRead
    /\ Named = {}
    /\ recorded' = IF task[b].goal = "create" THEN recorded \ {b} ELSE recorded
    /\ Becomes(b, IF b \in recorded' THEN "stopped" ELSE "none")
    /\ UNCHANGED <<catalogVars, runtimes, sweep, home, migration, migrated, now, everHeld, lastUse>>

Tags(b) ==
    /\ Does(b, "tags")
    /\ held' = held \cup {b}
    /\ everHeld' = everHeld \cup {b}
    /\ Becomes(b, AfterHold(b))
    /\ UNCHANGED <<stored, cacheUsed, tagged, recorded, runtimes, sweep, home, migration, migrated, now, lastUse>>

\* create_runtime holds the image again.
StartsRuntime(b) ==
    /\ Does(b, "stopped")
    /\ b \notin runtimes
    /\ task' = [task EXCEPT ![b] = Task("holds", "start")]
    /\ UNCHANGED <<catalogVars, recorded, runtimes, sweep, home, migration, migrated, now, everHeld, lastUse>>

CreatesRuntime(b) ==
    /\ Does(b, "boots")
    /\ runtimes' = runtimes \cup {b}
    /\ Becomes(b, "stopped")
    /\ UNCHANGED <<catalogVars, recorded, sweep, home, migration, migrated, now, everHeld, lastUse>>

-----------------------------------------------------------------------------
(* delete_sandbox, and ImageCache::release.                                *)

DeletesRuntime(b) ==
    /\ Does(b, "stopped")
    /\ runtimes' = runtimes \ {b}
    /\ Becomes(b, "releases")
    /\ UNCHANGED <<catalogVars, recorded, sweep, home, migration, migrated, now, everHeld, lastUse>>

\* The cache entry is refreshed from the sandbox's entry before that goes.
TakesOver(b) ==
    /\ Does(b, "releases")
    /\ CanRead
    /\ cacheUsed' = IF b \in held THEN now ELSE cacheUsed
    /\ lastUse' = IF b \in held THEN now ELSE lastUse
    /\ Becomes(b, "untags")
    /\ UNCHANGED <<stored, tagged, held, recorded, runtimes, sweep, home, migration, migrated, now, everHeld>>

\* The cache entry could not be written: the sandbox's entry is left to a pass.
TakeOverFails(b) ==
    /\ Does(b, "releases")
    /\ Becomes(b, "removes record")
    /\ UNCHANGED <<catalogVars, recorded, runtimes, sweep, home, migration, migrated, now, everHeld, lastUse>>

\* remove_local of the sandbox's entry runs outside the lock.
Untags(b) ==
    /\ Does(b, "untags")
    /\ remove_local(b)
    /\ Becomes(b, "removes record")
    /\ UNCHANGED <<recorded, runtimes, sweep, home, migration, migrated, now, everHeld, lastUse>>

RemovesItsRecord(b) ==
    /\ Does(b, "removes record")
    /\ recorded' = recorded \ {b}
    /\ Becomes(b, "gone")
    /\ UNCHANGED <<catalogVars, runtimes, sweep, home, migration, migrated, now, everHeld, lastUse>>

-----------------------------------------------------------------------------
(* remove_unused: after each resolve and deletion, and every hour.         *)

\* try_write: a pass is skipped while an image is fetched or another pass runs.
CanSweep == sweep.pc = "idle" /\ ~Reading

SweepBegins ==
    /\ home = "open"
    /\ sweep.pc = "idle"
    /\ CanSweep
    /\ sweep' = [Idle EXCEPT !.pc = "reads"]
    /\ UNCHANGED <<catalogVars, recorded, runtimes, task, home, migration, migrated, now, everHeld, lastUse>>

SweepReadsRecords ==
    /\ sweep.pc = "reads"
    /\ sweep' = [sweep EXCEPT !.pc = "lists", !.recorded = recorded]
    /\ UNCHANGED <<catalogVars, recorded, runtimes, task, home, migration, migrated, now, everHeld, lastUse>>

\* is_expired: refreshed at or before the cutoff; an entry without a use has expired.
Expired(used) == used = 0 \/ used + Retention <= now

\* A record keeps its image, whether or not the sandbox holds it; a sandbox's entry goes with its record.
Unused ==
    (held \ sweep.recorded)
        \cup (IF cacheUsed # 0 /\ Expired(cacheUsed) /\ sweep.recorded = {} THEN {"cache"} ELSE {})
        \cup (IF tagged /\ Expired(0) /\ sweep.recorded = {} THEN {"tag"} ELSE {})

SweepLists ==
    /\ sweep.pc = "lists"
    /\ sweep' = [sweep EXCEPT !.pc = "removes", !.unused = Unused]
    /\ UNCHANGED <<catalogVars, recorded, runtimes, task, home, migration, migrated, now, everHeld, lastUse>>

SweepRemoves(e) ==
    /\ sweep.pc = "removes"
    /\ e \in sweep.unused
    /\ remove_local(e)
    /\ sweep' = [sweep EXCEPT !.unused = @ \ {e}]
    /\ UNCHANGED <<recorded, runtimes, task, home, migration, migrated, now, everHeld, lastUse>>

\* Every entry has been visited, or one could not be listed.
SweepEnds ==
    /\ sweep.pc \in {"lists", "removes"}
    /\ sweep' = Idle
    /\ UNCHANGED <<catalogVars, recorded, runtimes, task, home, migration, migrated, now, everHeld, lastUse>>

-----------------------------------------------------------------------------
(* open_configured, and migrate_images before anything else runs.          *)

OpensHome ==
    /\ home = "closed"
    /\ home' = IF migrated THEN "open" ELSE "migrating"
    /\ migration' = [done |-> {}, pinned |-> TRUE]
    /\ UNCHANGED <<catalogVars, recorded, runtimes, task, sweep, migrated, now, everHeld, lastUse>>

\* is_pinned: the sandbox holds the image and a runtime records using it.
is_pinned(b) == b \in held' /\ runtimes # {}

\* A sandbox with a runtime fetches again what the old catalog lost; one without may not hold it.
MigratesRecord(b) ==
    LET found == Named # {} \/ b \in runtimes IN
    /\ home = "migrating"
    /\ b \in recorded \ migration.done
    /\ \E holds \in {found} \cup (IF Named # {} THEN {} ELSE {FALSE}) :
        /\ held' = IF holds THEN held \cup {b} ELSE held
        /\ everHeld' = IF holds THEN everHeld \cup {b} ELSE everHeld
        /\ cacheUsed' = IF holds /\ Named = {} THEN now ELSE cacheUsed
        /\ lastUse' = IF holds /\ Named = {} THEN now ELSE lastUse
        /\ stored' = (stored \/ holds)
    /\ migration' = [done |-> migration.done \cup {b}, pinned |-> migration.pinned /\ is_pinned(b)]
    /\ UNCHANGED <<tagged, recorded, runtimes, task, sweep, home, migrated, now>>

\* The prune removes every entry of an image no runtime uses, so every image must be pinned.
MayPrune == migration.pinned

FinishesMigration ==
    /\ home = "migrating"
    /\ recorded \subseteq migration.done
    /\ IF MayPrune /\ runtimes = {}
       THEN /\ stored' = FALSE /\ cacheUsed' = 0 /\ tagged' = FALSE /\ held' = {}
            /\ lastUse' = 0
       ELSE UNCHANGED <<catalogVars, lastUse>>
    /\ migrated' = MayPrune
    /\ home' = "open"
    /\ UNCHANGED <<recorded, runtimes, task, sweep, migration, now, everHeld>>

\* The process ends between any two steps; records, entries and files are on disk.
HomeCloses ==
    /\ home # "closed"
    /\ home' = "closed"
    /\ sweep' = Idle
    /\ task' = [b \in CacheUsers |-> Task(CASE b \in recorded -> "stopped"
                                            [] task[b].pc = "gone" -> "gone"
                                            [] OTHER -> "none", "create")]
    /\ UNCHANGED <<catalogVars, recorded, runtimes, migration, migrated, now, everHeld, lastUse>>

CacheTick ==
    /\ now < MaxTime
    /\ now' = now + 1
    /\ UNCHANGED <<catalogVars, recorded, runtimes, task, sweep, home, migration, migrated, everHeld, lastUse>>

CacheNext ==
    \/ \E b \in CacheUsers :
        \/ Resolves(b) \/ Fetches(b) \/ RecordsImage(b) \/ FetchFails(b)
        \/ SavesRecord(b) \/ Looks(b) \/ FetchesAgain(b) \/ HoldFailsFor(b) \/ Tags(b)
        \/ StartsRuntime(b) \/ CreatesRuntime(b)
        \/ DeletesRuntime(b) \/ TakesOver(b) \/ TakeOverFails(b) \/ Untags(b) \/ RemovesItsRecord(b)
        \/ MigratesRecord(b)
    \/ SweepBegins \/ SweepReadsRecords \/ SweepLists \/ SweepEnds
    \/ \E e \in CacheEntries : SweepRemoves(e)
    \/ OpensHome \/ FinishesMigration \/ HomeCloses \/ CacheTick

CacheSpec == CacheInit /\ [][CacheNext]_cacheVars

-----------------------------------------------------------------------------
\* No catalog entry names an image whose files were removed: a fetch that reuses cached
\* files and the pass that removes them exclude each other (ImageCache::record, remove_unused).
NamedIsStored == Named # {} => stored

\* A sandbox that once held its image keeps it until its record is gone, through passes,
\* deletions that were interrupted and the prune of the migration.
SandboxKeepsItsImage == \A b \in everHeld \cap recorded : stored

\* An image stays for the retention period after it was last resolved, or released by a
\* deleted sandbox.
KeptForRetention == lastUse # 0 /\ now < lastUse + Retention => stored

\* An image a name or a sandbox refers to is stored, and an unused one is kept for the
\* retention period (microsandbox/image_cache.rs).
ImagesAreKept ==
    /\ CacheTypeOK
    /\ NamedIsStored
    /\ SandboxKeepsItsImage
    /\ KeptForRetention

=============================================================================
